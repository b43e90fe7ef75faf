# Verification of the NQ/MNQ Paper trading system

This directory models the Paper trading runtime of the repository in TLA+, checks it with TLC on
small instances and proves its most important properties with TLAPS for every instance.

## 1. The system

The program trades four strategy objects (the mean-reversion pair MRL1 and MRS2, S2R and ORB) on
simulated money against delayed Interactive Brokers minutes. Its core is `src/src/paper`, on top of
the trading libraries `src/src/execution`, `src/src/risk`, `src/src/portfolio`, `src/src/broker`,
`src/src/strategies` and `src/src/models`. Most of the repository's lines (`src/src/research`,
`src/paper_dashboard`, `src/data`) are offline studies, their results and presentation, and are not
modelled.

| component | state | operations | what must hold |
|---|---|---|---|
| Acquisition controller (`ibkr_paper_runner.py`) | persisted incident, retry time, attempt counter, catch-up cursor, pacing | `refresh`, `_schedule_retry`, `_reconnect_if_due`, `begin_catchup`, `mark_recovery_verified` | an outage is on record while it lasts and ends; the backfill leaves no minute behind |
| Delayed-bar finalizer (`ibkr_delayed_market_data.py`) | pending observations, delivered minutes, finalization journal | `observe`, `finalize_ready`, rehydration | a minute is delivered once, in order, only when stable, and never changes afterwards |
| Delivery ledger and source (`ibkr_paper_recovery.py`) | staged and committed rows; cursor and subscription point | `stage`, `pending_after`, `acknowledge_through`, `reconcile_checkpoint`, `subscribe`, `bars`, `backfill`, `health` | each minute reaches the engine once and in order; acknowledged only behind a checkpoint |
| Realtime service (`realtime_service.py`) | bounded queue, `_last_bar`, three threads, stop flags | `run`, `_produce`, `_put`, `_process`, `_watch_feed`, `save_checkpoint`, `restore` | no bar lost, repeated or half applied by a crash, a stop or a failure |
| Checkpoint store (`realtime_checkpoint.py`) | primary and backup file | `save`, `load` | the frontier a restart sees never moves back; only a coherent engine is resumed |
| Paper engine (`engine.py`) | pending orders, authorizations, open trades | `process_bar`, `process_broker_fill` | the books agree; risk covers what is held; an authorization lives as long as its entry |
| Execution, risk, conflict, broker | orders, fills, positions; open risk, daily counters; occupied slots | submit, fill, cancel, evaluate, register, release | order and position quantities agree; limits hold |
| Strategies | lifecycle of the own position | `notify_fill`, `notify_exit`, evaluation | strategy and engine agree on what is open |
| Supervised recovery (`recovery_*.py`, `windows_supervisor.py`, `single_writer.py`) | launch history, controller lock, writer lock | `attempt`, `verify_started`, `supervised_resume_once` | one outstanding launch, one supervised worker, a bounded number of launches |
| Notifications and alerts (`monitoring_alerts.py`, `notifications.py`) | alert state file, alert ledger, delivery journal, cursors | `poll_once`, `scan_once`, `acknowledge`, `requeue_blocked_delivery` | no incident lost, none repeated without reason, news in order |
| Event log, analytics | append-only records | append | idempotent by event identity |

Interaction, for one minute: the **feed thread** runs `refresh`, which acquires observations and
finalizes minutes into a journal; it copies journal rows to the delivery ledger and emits pending
minutes into a bounded queue. The **main thread** takes a minute, processes it in the engine, writes
a checkpoint (two file replacements) and acknowledges in the ledger what the checkpoint covers. The
**watchdog thread** looks once a second for `stop.request` and calls `health()`, which reads the
ledger again and may close an outage. The threads share the ledger and the acquisition controller
without a lock, and the process may die anywhere; a restart loads the checkpoint (or the backup, or
the bootstrap checkpoint), reconciles the ledger with it and subscribes again. **Supervisors** in
processes of their own decide whether a dead worker is started again, and the **notification
sidecar**, another process, follows the files the service writes and sends what it finds.

The hard behaviours are therefore the interleaving of the three threads over ledger, queue and
incident, the crash windows between durable writes, what is left behind by an exception in the middle
of a bar, resumption from a state that an earlier process left, and several processes that rewrite
one file. `PROJECT.json` lists them, each at its line, with the properties that watch it.

## 2. Modules

| module | what it is |
|---|---|
| `PaperDelivery` | delivery of finalized minutes: ledger, source, three threads, checkpoint store, crash, corruption, stop, resume |
| `ExactlyOnceDelivery` | the abstract promise: minutes become available in order, each is applied once and in order, and acknowledged after it was applied |
| `DelayedAcquisition` | acquisition of delayed minutes: observation ledger, finalizer, finalization journal, session, request cycle, restart |
| `FinalizedStream` | the abstract promise of acquisition: an ordered stream without unreviewed holes that is never rewritten |
| `OutageRecovery` | outages of the feed: reconnection, backoff, pacer, catch-up, and the watchdog that closes the outage |
| `PaperEngine` | the trading engine: a bar in phases over seven books, fills, failures and resumption |
| `SupervisedRecovery` | restart of a worker by several supervisors and an operator, with two OS locks and a launch history |
| `AlertNotifications` | alerts from the fact to the received message: monitor, ledger, notifier, operator commands |
| `MC...` | instances of these modules for TLC |
| `...Claims` | what documents, comments and names say and the code does not do; each is refuted by a run |
| `...Proofs`, `ExactlyOnceProofs`, `NaturalSets` | theorems and their lemmas, see section 4 |

### How PaperDelivery corresponds to the code

A minute is its position among the minutes the reviewed calendar expects after the bootstrap cutoff,
so closures disappear and "the next minute" is `+ 1`.

* *Durable state.* `finalized`, `staged`, `committed` are the rows of the finalization journal and
  the two kinds of rows of the delivery ledger; each append is its own step because each is fsynced.
  `primary` and `backup` are the files of `AtomicCheckpointStore`; `Rotate` and `Publish` are its two
  `os.replace` calls. A checkpoint carries the minute of `_last_bar` and the engine image: what the
  causal context absorbed, the minute of the HMM streams, and the engine's own clock.
* *Main thread.* `main` is the program counter of `_run_owned`: restore, reconcile, subscribe, get,
  process, save (rotate, publish, acknowledge), close. `ProcessBar` is `_process` with its recursive
  backfill unrolled: while minutes are missing before the bar in hand, the next of them is processed
  and saved first. `EngineRejects` and `EngineFails` are the exceptions, with what they leave in the
  image; `SaveFails` is an I/O error at any point of a save.
* *Feed thread.* `feed` is the program counter of `bars()` inside `_produce` and `_put`. The
  committed cursor is read in one step (`FeedReadCursor`) and compared with the ledger in another,
  as the code does on unlocked shared state.
* *Watchdog.* `_watch_feed` likewise reads and compares in two steps; a refusal is not caught there
  and ends the thread.
* *Environment.* `Crash` at any point, `CorruptPrimary` while the process is down, `RequestStop` by
  stop file or by signal, `RefreshReturns` with either transport state, `RefreshRaises`.
* *Health.* `health()` is called by the main thread too (`realtime_service.py:468`, `822`, `969`). That is
  the thread that acknowledges, so its two reads of the ledger cannot disagree and nothing here
  changes. That it may close an outage is the matter of `OutageRecovery`, where the watchdog's
  calls stand for both; two threads that close the same outage at once are not modelled.
* *Resumption.* `delayed_paper_cli --resume` insists on the primary checkpoint file
  (`delayed_paper_cli.py:299`); the service itself also loads a backup alone. `ResumeNeedsPrimary` is
  the difference, and the runs take one value each.

Data left out: OHLCV values and hashes, journal identities and their validation, events, status
files, analytics. They either refuse to start or do not feed back into delivery. Checkpointing after
every bar is the code's own requirement (`AcknowledgedDelayedPaperService` insists on
`checkpoint_every_bars=1`).

### How DelayedAcquisition corresponds to the code

Time counts ticks of at least the observation spacing; minute `m` ends at `m * MinuteTicks`. One
contract is pinned, as the session insists. The value of a minute is a version number; a bar still
forming has a version of its own.

* *Durable state.* `log` is the observation ledger, one fsynced row per step; `journal` the
  finalization journal; `cursor` the part of the acquisition cursor file that `ingest_response` and
  `pending_confirmation_starts` write.
* *Memory.* `candidates` is `_pending` of the finalizer. The code counts observations without limit
  but asks only whether there are two, so the count stops there. `delivered` is `last_delivered`.
* *Start.* `Start` is the constructor reading the journal, `Rehydrate` one replayed observation,
  `Rehydrated` the rewrite of the pending group, `Subscribe` the call of `begin_catchup`, which gives
  a finalizer without journal the Paper cursor as delivery point. The order matters: it is the
  finding `blocked`.
* *Cycle.* `BeginCycle` plans: the candidates to confirm are chosen before the discovery or backfill
  request that may precede the confirmation is answered. `Respond`, `AppendObservation`,
  `ObserveResponse`, `FinalizeOne` and `SaveCursor` are the response, the rows of
  `ingest_response`, `observe`, the iterations of `finalize_ready` and the cursor saved last.
  `RequestFails` stands for every way a request ends the cycle.
* *Environment.* `Revise` changes a complete minute at the provider, a response may lack minutes,
  `Crash` loses the memory at any step. Clock and provider are read only when a response arrives, so
  they change only between responses; nothing else could see the difference. All rows of a response
  have one arrival time.

* *Narrower than the code.* A response starts at minute 1 and lacks at most one minute, where the window of the code slides (`ibkr_delayed_acquisition.py:194-198`) and a provider may omit
  any; `OutageRecovery` has the sliding window. `observe` may raise on a row that is already in the
  ledger (`ibkr_delayed_market_data.py:202-212`, `223-224`): such a row raises again at each rehydration,
  and the service does not start.

Left out: value validation and contract windows (they raise or ignore a row). The grouping of
candidates into several confirmations and the choice of the next backfill window are modelled in
`OutageRecovery`; here a backfill may end at any complete minute.

`FinalizedStream` is what connects the two halves: `PaperDelivery` lets `finalized` grow in order and
past reviewed gaps only, and `DelayedAcquisition` is proved to deliver exactly such a stream.

### How OutageRecovery corresponds to the code

A tick is the first retry delay; a step of a thread ends where it calls the network or writes a file.

* *Cursor file.* `next`, `target` and `complete` are the backfill cursor, its target and
  `backfill_complete`; `incident`, `retry` and `failures` the incident, `next_retry_at_utc` and the
  attempt counter. They are written in every step that changes them, so `Restart` keeps them.
* *Feed thread.* `feed` is the place in `refresh`: `Held`, `Reconnect`, `WaitForPacer`, `Plan` (closure
  skips, confirmation groups in rotation), `Asking`, and the answers `Discovered`, `Backfilled`,
  `Confirmed`, `TransportLost`, `Troubled` (pacing, no data), `Refused`.
* *Watchdog.* `Healthy`, `Recheck` and `CloseOutage` are the three reads of `health()` that lead to
  `mark_recovery_verified`. The feed thread may run between any two of them.
* *What is left out.* A minute counts as stable when it was observed twice (the rest is
  `DelayedAcquisition`); the minimum age is a delay of the frontier, so that `safe_end` and the
  frontier are the same minute. Responses may end early but have no hole inside. The loss of the link
  between TWS and its server (codes 1100 and 1101) is an outage like any other. Whether a cycle that a
  restart interrupts is repeated at once or after the retry time is left open. A cycle is paced by the
  pacer alone, because the poll interval is at least the pacer's (`ibkr_paper_recovery.py:236`).

### How PaperEngine corresponds to the code

* *Phases.* `phase` and `turn` follow `process_bar`: orders due fill at the open, cancelled orders are
  dropped, all strategies decide, each decision is routed (risk, conflict, execution, broker), and
  orders that carry their own price fill at the close. The code collects all decisions before it routes
  the first; since a strategy decides from its own trade and the market only, deciding and routing in
  one step per strategy is the same.
* *Books.* `order`, `pending`, `simulated` are the broker's order and the engine's two records of it;
  `auth` is the authorization of a pending entry, `position` the execution engine's, `risk` the risk
  engine's, `slots` the conflict engine's, `trade` the strategy's. `newly` is the code's own mark of
  positions filled in this bar; `entered` is a history, the positions filled since the last bar was
  taken, which no failure or resumption forgets. `trades` and `pnl` are the daily counters.
* *Redelivery.* The code clears `newly` when a bar begins (`engine.py:1189`), and a bar that was
  interrupted is delivered again after a resumption. Before that line the context is built (`1143`), and
  its streams refuse a minute they have taken (`causal_hmm.py:574`). `accepted` says that they have
  taken the bar at hand, `StreamsAccept` is their test and `BarRefused` the refusal, which ends the
  process. A run interrupted within a bar is therefore resumed only to be refused, until somebody
  intervenes; and `EntryBarIsNotManaged` rests on that refusal, not on `newly` alone.
* *Failures.* An exception may end the bar between any two of these updates (`torn` marks an exit fill
  that was cut in two). The service then saves a checkpoint, and `Resume` is what
  `_validate_pending_execution` admits. An exception may also come between two bars (`Interrupt`). When
  it comes out of `process_broker_fill` called from outside, the code leaves the engine running; the
  model stops it, which assumes that whoever hands in fills stops too. Only tests call it from outside:
  the service, the autonomous runner and the replay all simulate their fills. The death of the process without such a checkpoint restores
  an earlier whole image and is the matter of `PaperDelivery`.
* *Left out.* Prices, fees and equity (a decision carries a risk per contract, a closed position a
  result), sides (an exit is always opposite to its position), `REJECTED`, which the in-memory broker
  never assigns. `Cancel` is the coordinator's method, which only tests call so far. The conflict
  engine's limit of three slots is also the policy's.

### How SupervisedRecovery corresponds to the code

`attempts` is the history in `recovery_state.json`, `controller` and `writer` are the holders of the
two operating-system locks; both die with their process. `at` follows `attempt` of each supervisor:
inspection, reservation, launch, record. The clock of an attempt is read before the lock is taken
(`Ask`). `Verify`, `VerifyProbe` and `Verified` are `verify_started` with the probe of the writer lock.
The pid inside the lock file is written together with the lock. `LAUNCH_FAILED` means that no child
exists. Gates of an inspection that have nothing to do with processes hold or fail freely. A worker
that dies before it was verified leaves the history unreconciled: no supervisor launches again until
somebody resolves it, which is what the code intends. A launched worker is one process here, where
`recovery_worker.py:50-74` tells a virtual environment's launcher from its child. That a lock has one
holder is not shown but assumed: `controller` and `writer` are single variables, as the operating
system promises.

### How AlertNotifications corresponds to the code

* *One loop.* The sidecar runs `poll_once` of the monitor and then `scan_once` of the alert notifier;
  `at` is its place. `saved` is the alert state file and `mem` the copy the monitor keeps from its
  start; `ledger` is `alert_events.jsonl`; `cursor` and `notifier` are the notifier's file and copy.
  An append and the update of memory that follows it are one step, the save a step of its own.
* *Names.* A message is what its `event_id` is computed from: kind, alert, generation or number of
  acknowledgments before it, and what it is about, which is the incident or, for an activation, what
  was observed (`monitoring_alerts.py:267`). Two evaluations may observe different `Readings`, so an
  activation that a restarted monitor appends again is in general another message and is sent again;
  only one that observes the same is suppressed.
* *Alerts.* An `alert_id` is made of run, type and strategy (`monitoring_alerts.py:190-196`). `AlertOf`
  gives each incident its alert, and a condition may have the same one. Then the condition takes over
  the incident's entry, without a row of its own when severity and threshold are equal (`TakeOver`),
  and absorbs later incidents (`AbsorbIncident`). `Tells` says what such an incident is told by.
* *Half-written rows.* The Paper engine appends while the monitor reads. `torn` says that a part of the
  next row can be read, `part` that the reading ended inside it, and `cut` that the saved offset does:
  `_read_new_events` takes the offset behind what it has read (`monitoring_alerts.py:503-510`), and it
  is saved when a whole row came before (`562-565`). From then on every poll that finds more of that
  row, or finds it cut off, raises (`ReadRaises`), also after a restart; conditions are still
  evaluated and saved before. This is the finding `advance`.
* *Failures.* An exception in a poll is caught by the loop (`PollFails`, `SaveFails`); one in the
  notifier ends the process, which is `Crash`, and so is a stop request. A send may fail, be rejected
  for good, or go through without an answer (`doubts` counts those).
* *Commands.* `acknowledge` loads, appends and saves in its own process; `retry-pending` rewrites the
  notifier's file under a running notifier.
* *Backoff, minimum interval and the cross-process limiter* are one choice, `Defer`.
* *Left out.* The status slot, reminders, the process watchdog, the report spool, filters and texts,
  the first start at the end of an existing journal, slippage and latency alerts, the stall debounce,
  bounds of the lists (1000 history rows, 5000 identifiers, 1000 rows of a reading), the rest of a
  partial line that a first start discards, the retirement of a mislabelled termination alert
  (`monitoring_alerts.py:676-684`), and a journal that is cut off and grows to the very length of a
  saved offset, where the next row would be read whole.

## 3. Runs

| run | question | result |
|---|---|---|
| `crash` | crashes, a failed save and a stop of the service: acknowledgments behind the checkpoint, whole checkpoints, contiguous stream, frontier, refinement of `ExactlyOnceDelivery`, and every minute is acknowledged in the end | holds |
| `faults` | the same with exceptions in the engine, an unreadable primary and a reviewed missing minute | acknowledgments stay a prefix, acknowledged minutes are refused, not repeated |
| `acq_crash` | revisions, incomplete responses and a crash anywhere: stable values only, a finalizer never behind its journal, a restart that rebuilds the candidates, refinement of `FinalizedStream` | holds |
| `engine` | entries that compete for risk, fills in parts and from outside, cancellations, exceptions, resumption | books agree, limits hold, every order settles |
| `restarts` | two supervisors and an operator who die, inspect and start workers in any order | one outstanding launch, one supervised worker, launches on record and within the budget |
| `outages` | two outages, a pacing answer, a market closure and a restart | no hole, every outage ends, delivery resumes, a lost link is on record |
| `alerts` | a sidecar that dies and fails, rows read half written, a condition and an incident of one alert, an operator who answers meanwhile | what the event cursor passed as a whole row is told, nothing skipped, repeats explained, alert before its answer, every incident received unless a rejection or a torn row holds it up |
| `exit`, `blocked`, `daily`, `handover`, `advance` | statements of documents and comments | refuted, see findings |

**Bounds.** All are constants.

* `crash`: two minutes, a queue of one, two crashes (a crash during the recovery from a crash), one
  failed save and one stop. The queue is full as soon as the engine is one bar behind. `faults` has
  five minutes, with the fourth reviewed as missing, and one of each fault, and resumes as the command
  does, with a primary checkpoint only; `crash` resumes from a backup alone as well, so that the state
  between the two replacements goes on. Corruption is in `faults` only, so for `ExactlyOnce` it is
  covered by the proof; that the invariants about
  acknowledgments and the frontier also hold with engine failures and any number of everything is
  proved (section 4). `ExactlyOnce` does not hold with engine failures: this is the finding `exit`.
* `acq_crash`: a minute needs two polls, so two minutes and three polls leave one for a revision or
  a crash, and one revision is enough to make the counted observations disagree. Classified gaps are
  covered by the proof of the refinement, for every set of them.
* `engine`: a strategy of each kind (ORB may force a contract that its risk per trade does not pay
  for), either of them with orders at the coming open or at a price of their own; an open-risk limit of
  four, which two entries of one bar compete for; positions of two contracts, so that fills come in
  parts; daily limits that two trades or one loss reach.
* `restarts`: two supervisors and three workers, two launches in a window of four ticks with a
  cooldown of two, five ticks. Supervisors and workers are symmetric.
* `outages`: four minutes with one closed, requests of two minutes, so that a backfill needs several
  requests and may stop short; two outages, so that one begins while the other is recovered from.
* `alerts`: one condition, an incident with its alert and one with an alert of its own, because a cursor
  enters a torn row only behind a whole one; two readings, so that an activation appended again may be
  another message. Of condition changes, crashes, failures, rejections and answers any three together
  (at most two changes, so that the condition comes and goes, and one answer): two of them always meet,
  such as an answer written over a newer state and a crash that then loads it. A change of severity
  needs `MaxLevel` 2 and is covered by the proofs only, as is more of everything at once.

Deadlock is not checked: every one of these programs stops when nothing is left to do or a bound is
exhausted.

**Fairness.**

* `crash`: weak fairness of each thread (the operating system schedules them) and of `Restore`. The
  last is an assumption about operation, not about code: automatic resumption is off by default, so
  "eventually acknowledged" means "as long as somebody keeps resuming the service". Nothing is assumed
  of finalization, transport or stops.
* `engine`: bars keep arriving, taken or refused (`StartBar`, `BarRefused`), and a bar that began goes on (`Progress`). Nothing is
  assumed of external fills, cancellations or failures.
* `outages`: both threads run, the main thread commits what it was given, time passes and the
  provider publishes. The premises of the properties say that TWS stays up, that no minute is out of
  the reach of discovery (finding `handover`) and that the service has not stopped (a refusal or an
  error ends it).
* `alerts`: the loop runs, somebody starts the sidecar again, and a message is not put off for ever:
  strong fairness of `Send`, because backoff and interval are finite but interrupt it again and again.

**Findings.** Five statements are refuted by what the code does:

* `exit`: after an exception in the middle of a bar, the exit checkpoint holds part of that bar.
* `blocked`: a restart before the first finalization makes candidates of minutes from before the
  bootstrap cutoff, and they block every later minute for the life of the process.
* `daily`: entries of one bar are approved before the first of them is filled, and registering a fill
  does not look at the daily limit, so it is exceeded.
* `handover`: the target of a catch-up is fixed when it begins; after a second outage the backfill may
  end more than one discovery window behind the frontier, and the minutes between are never requested.
* `advance`: an incident whose row is half written when it is read together with a whole one is
  consumed without a record, and every later reading of the journal fails.

**Read off the models, without a run of their own:**

* Delivery. A watchdog that ended on a refused rollback that never happened leaves a service no stop
  file can stop (`realtime_service.py:898`). The resume command asks for the primary checkpoint file,
  which is absent between the two replacements although the backup loads (`delayed_paper_cli.py:299`).
  A reviewed gap still blocks delivery of what follows it (`ibkr_paper_recovery.py:332`). An outage
  that meets a full queue ends the feed (`realtime_service.py:370`).
* Acquisition. `last_delivered_bar_start_epoch_utc` of the cursor file is not rebuilt from the journal
  after a crash between the two, so `begin_catchup` may start from an older minute; what is finalized
  does not depend on it. The watchdog may clear `next_retry_at_utc` while the feed thread computes
  `max` of it (`ibkr_paper_runner.py:540`), which ends a service that `REALTIME_PAPER.md:689` says
  retries indefinitely. `REALTIME_PAPER.md:696` says the transport is built without TWS, and
  `delayed_paper_cli.py:352` leaves `connect_on_init` at its default, true.
* Engine. A partial exit releases no risk, and the last fill releases only the contracts that were
  left (`engine.py:1531`); an entry dropped after a cancellation leaves its
  authorization behind, with which no checkpoint can be resumed; an exit fill cut in two (finding `exit`) keeps risk, slot and trade for ever.
* Supervision. The probe of an inspection holds the writer lock for a moment and turns a starting
  worker away (`windows_supervisor.py:92`).
* Notifications. The running monitor keeps the alert state in memory and writes all of it at every save,
  also over what `acknowledge --resolve` has written from another process: the alert is active again
  (`monitoring_alerts.py:564`), where `PAPER_DASHBOARD.md:193-194` lets it remain active until resolved. The retry of a pending message does not look at the delivered identifiers, so a crash
  after the delivery journal was synced repeats a message too; `PAPER_DASHBOARD.md:294` knows only the
  window before it (`notifications.py:511`). A requeued message is not seen by the running notifier
  before its restart (`notifications.py:853`). A crash between the append of an activation and its
  save forgets the activation: if the condition clears meanwhile no recovery is announced, and a later
  activation has the same generation: with equal values it is the same message and is suppressed, with
  others the operator reads two activations and one recovery (`monitoring_alerts.py:259`). A condition
  that takes over an incident's entry of its severity is never announced itself, and its recovery is
  (`monitoring_alerts.py:265`).
  The answer to a condition's alert carries no generation, so the answer to its recurrence has the
  same identity and is suppressed (`monitoring_alerts.py:290`).

## 4. Proofs

All theorems are for every value of the constants: any number of minutes, crashes, failures, stops,
strategies, supervisors, workers, conditions and incidents.

* `TypeCorrect`: `TypeOK`, strengthened by `BarInHand` (a bar being processed or saved is a real
  minute), because a finished save compares that bar with the engine's.
* `AcksCoveredCorrect` and `FrontierCorrect`, assuming no checkpoint file is corrupted. The inductive
  invariant `FrontierInv` adds that files which exist are readable, that the engine is never behind
  the loadable checkpoint, and that the two are equal while minutes are acknowledged. Without the
  assumption both fail: a fallback moves the frontier back (run `faults` shows what then protects
  acknowledged minutes).
* `CommitsArePrefixCorrect` and `AcknowledgedNeverReprocessedCorrect`, for any number of corrupted
  checkpoints and engine failures too. The invariant `DeliveryInv` tells two situations apart. A process
  is `Behind` when the checkpoint it restored is older than an acknowledgment (only corruption does
  that): `Refusal` says that it then only ever receives minutes later than all acknowledgments, so
  that the gap check of `_process` refuses each and none is saved. Otherwise `Consecutive` says that
  minutes follow each other without a hole from the engine over the bar in hand, the queue and the
  minute offered to the queue to the snapshot the feed thread works through. Besides, whatever is on its
  way to the engine was staged (`StagedFirst`), and outside the consumer loop nothing is on its way
  (`Startup`).
* `StreamContiguousCorrect`, assuming no corruption: `DeliveryInv` with `FrontierInv`, by which no
  process is ever behind. With corruption it fails: the first minute a process that is behind takes
  does not continue its checkpoint (it is refused, as above).
* `ExactlyOnceCorrect`, assuming that the engine raises on no minute it accepts: all images (engine and
  both files, readable or not) are whole, `Wholeness`. Corruption is allowed: a fallback loads an
  older image, which is whole too.
* `ImplementsExactlyOnceCorrect`, assuming neither corruption nor engine failures nor skipped minutes.
  The engine is at most one bar ahead of the checkpoint (`OneAhead`). `PromiseStep` maps each step to a
  step of `ExactlyOnceDelivery` or a stutter: `Publish` is its `Apply`, an acknowledgment row its
  `Acknowledge`, a finalized minute its `Finalize`.
* `AcquisitionTypeCorrect`: types of the acquisition.
* `JournalTakesEveryOfferCorrect` and `ImplementsStreamCorrect` rest on `OrderInv`: the journal has no
  unreviewed hole, and while a process is up its delivery point is the end of the journal or the
  cutoff. The lemma `DeliverableIsNext` is the heart: an unclassified minute between the delivery
  point and the one delivered would be an older candidate, and the loop of `finalize_ready` stops at
  the first candidate it does not deliver.
* `RestartLosesNothingCorrect`: the candidates in memory are what a restart would rebuild. `MemoryInv`
  follows them through a rehydration (they equal the replay of the rows read so far) and through a
  response that is recorded row by row (they will equal it once the rest is recorded).
* `FinalizedIsStableCorrect`: `Backed` says of every prefix of the ledger that a candidate observed often
  enough has two recorded observations in different polls, far enough apart, and none of another value
  since; `StableInv` keeps that for a finalized minute, whose journal entry names the ledger's length
  at finalization.
* `PaperEngineProofs`: types, `RiskCoversExposure`, `PendingEntryIsAuthorized`, `BooksAgree` and
  `EntryBarIsNotManaged` from one invariant, `EngineInv`: the types, the shape of an order in each of
  its stages, that a position filled since the last bar was taken has no exit order (`Fresh`), and, where the engine runs or would
  be resumed, that risk covers every position, that an authorization is worth the position plus what
  is left of its entry order, and that the books agree. Partial fills make the middle part necessary:
  the next fill registers risk from an authorization that earlier ones have already drawn on.
  `PositionsWithinLimitCorrect` bounds the number of positions with risk by a counting argument of its own. `ExposureWithinLimitsCorrect` adds
  the amount: by `RiskInv` the registered risk stays within the limit, because the fill itself looks at
  it again (`FillFits`), and what a working entry has already registered is valued like its
  authorization (`PricedAsAuthorized`), without which a partial fill could revalue the earlier ones.
* `SupervisedRecoveryProofs`: types with the two locks (a holder is alive), and
  `OneOutstandingLaunch`, `OneSupervisedWorker`, `VerifiedOwnedTheRun` from `LaunchInv`: all entries
  of the history but the last are settled, a supervisor between reservation and record holds the
  controller lock and owns the last entry, and a supervised worker that is alive is the running one,
  the one the last entry names, or the one its supervisor has just started.
  `LaunchesAreOnRecord` needs `RecordInv` besides, which compares the number of workers launched with the number of entries (finite-set theorems).
  `LaunchesWithinBudgetCorrect` has a hypothesis, `Cooldown <= Window`: `attempt` looks for the last
  launch among those in the window only, so that with a longer cooldown a launch that left the window
  no longer holds the next one back, and TLC finds that violation with a cooldown of three and a window of one.
  `RecoveryPolicy` does not check it (`recovery_orchestrator.py:27`); the values used, 300 s and
  3600 s, satisfy it. `BudgetInv` carries what the supervisor read from its clock before it took the lock.
* `AlertNotificationsProofs`: all five invariants of the run `alerts`. `TypeInv` keeps every cursor
  inside the ledger. `JournalInv` says of every store, the file, the monitor's memory and the copy an
  acknowledge command holds, that it knows each incident up to its offset and what it knows is told in the ledger,
  if only by an opening row of the condition that shares the alert, so that any of them may overwrite any other; and that a closing row comes after an opening one. `DeliveryInv` says that what
  the cursor has passed, what the delivery journal names and what is being noted was received.
  `RepeatInv` says that a message received but not delivered is the pending one and that a doubt
  accounts for it, which bounds the repeats by counting.
* `OutageRecoveryProofs`: `BackfillLeavesNoHole` from `CursorInv`, which adds that a backfill is only
  asked for while the catch-up lasts: its answer may leave the catch-up open, and nothing is known of
  the minutes behind the cursor of one that was complete. The lemma `OpenFromIsFirst` shows that a
  skipped closure holds no open minute. `PendingMinutesGetATurn`: each pending minute lies in one of the
  confirmation groups, and every offset of the rotation names a group, so that the choice in `Confirm`
  is never empty. `OutageTypeCorrect` rests on it: the next offset is below the number of groups, which
  is at most the number of minutes. It also bounds the retry delay by `MaxDelay` and the pacer's
  interval, and what Paper committed by what was delivered.

Induction over data is done over sets: `NaturalSets` proves, from the least counterexample, that a set of
naturals which contains 0 and the successor of each of its members contains them all. Three definitions
are recursive functions, and for each it is proved first that a function satisfying the equation exists,
without which nothing follows from its definition: `Replay` (approximated by finite prefixes that
agree), `GroupStarts` (from the last minute backwards), and the sum over a finite set
(`SumExists`, `SumGrowth`, by the size of the subset).

Every invariant and action property of the passing runs and both refinements are proved. Only
model-checked: the liveness properties (`EveryMinuteCommits`, `OrdersSettle`, `OutageEnds`,
`DeliveryResumes`, `LostLinkIsNoticed`, `IncidentsReachOperator`), since the prover supports neither
fairness nor `ENABLED`; and the five refutations, which are counterexamples.

## 5. Plan

1. Delivery, acquisition, engine, supervised recovery, outages and alerts are modelled
   and have proofs.
2. Proofs next: what holds of `AcksCovered` and the frontier under a single corruption; exactly once
   for images of which an engine failure left a part (which minutes can be torn); the promise of
   `ExactlyOnceDelivery` with reviewed gaps.
3. Models next: the refit schedule of the HMM streams, the lifecycle of the strategies, the event log
   with its identifiers, the status slot of the notifier.

## 6. Not modelled, and why

* The research tree, backtests, their results and the dashboards: more than five sixths of the
  lines. They are offline numerical studies and read-only presentation without concurrency or recovery, so a model would say nothing of them, and most of the repository's lines stay
  outside the map for that reason.
* The numerical models and the strategies' signals: functions of real-valued prices.
* The socket protocol of TWS, its ten-minute request budget, contract rolls and calendar arithmetic.
* Torn lines of the delivery, observation and finalization journals: their load refuses them before any
  property is concerned. (The alert monitor does not refuse one, and there it is modelled.)
* The notifier's status slot, reminders, process watchdog and report spool; the event log, analytics,
  and replay tools, which do not feed back into trading.
* Liveness and enabledness stay with TLC: the prover has no support for them.
