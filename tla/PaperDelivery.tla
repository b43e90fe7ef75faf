---------------------------- MODULE PaperDelivery ----------------------------
(***************************************************************************)
(* Delivery of finalized IBKR minutes to the Paper engine, and recovery.   *)
(*                                                                         *)
(* A minute is finalized into an append-only journal, staged in the        *)
(* delivery ledger, emitted by the feed thread into a bounded queue,       *)
(* applied to the engine by the main thread, covered by a checkpoint and   *)
(* only then acknowledged.  A watchdog thread reads the same ledger.  The  *)
(* process may die between any two durable writes.                         *)
(*                                                                         *)
(* Sources: src/paper/ibkr_paper_recovery.py (ledger, source, service),    *)
(* src/paper/realtime_service.py (threads, checkpointing), and             *)
(* src/paper/realtime_checkpoint.py (atomic store).                        *)
(*                                                                         *)
(* A minute is its position among the minutes the reviewed calendar        *)
(* expects after the bootstrap cutoff (0), so consecutive numbers are      *)
(* consecutive expected minutes and closures do not appear.                *)
(***************************************************************************)
EXTENDS Integers, Sequences, FiniteSetsExt

CONSTANTS
  Minutes,            \* expected minutes after the bootstrap cutoff (bound)
  ReviewedGaps,       \* minutes an operator classified as missing data
  QueueSize,          \* feed_queue_size
  ResumeNeedsPrimary, \* TRUE: resumed by delayed_paper_cli --resume
  MaxCrashes,         \* bound on process deaths
  MaxSaveFailures,    \* bound on I/O errors inside a checkpoint save
  MaxEngineFailures,  \* bound on exceptions while a bar is being processed
  MaxCorruptions,     \* bound on unreadable primary checkpoints
  MaxStops            \* bound on operator stop requests

ASSUME MinutesAssumption == Minutes \in Nat \ {0}
ASSUME QueueAssumption == QueueSize \in Nat \ {0}
ASSUME GapsAssumption == ReviewedGaps \subseteq 1..Minutes
ASSUME BoundsAssumption ==
  /\ MaxCrashes \in Nat /\ MaxSaveFailures \in Nat /\ MaxEngineFailures \in Nat
  /\ MaxCorruptions \in Nat /\ MaxStops \in Nat
  /\ ResumeNeedsPrimary \in BOOLEAN

Bars == 1..Minutes
Cursors == 0..Minutes        \* 0 stands for the bootstrap cutoff

VARIABLES
  \* Durable: files that survive the process.
  finalized,   \* minutes in the finalization journal
  staged,      \* "finalized_pending" rows of the delivery ledger
  committed,   \* "paper_commit" rows of the delivery ledger
  primary,     \* paper_checkpoint.json
  backup,      \* paper_checkpoint.json.bak
  stopFile,    \* stop.request exists
  \* Memory of the main thread.
  main,        \* what the main thread does next
  last,        \* _last_bar, 0 when None
  engine,      \* what the engine has absorbed
  bar,         \* the dequeued bar in hand, 0 when none
  closing,     \* the finally block of _run_owned has been entered
  stop,        \* _stop_requested and the source's _stopped
  queue,       \* the bounded feed queue
  \* Memory of the feed thread.
  feed,        \* what the feed thread does next
  after,       \* _after: where the subscription resumed
  cursor,      \* _cursor: last emitted minute
  plan,        \* rows of the pending snapshot still to be emitted
  item,        \* what _put is trying to enqueue
  cutoff,      \* committed cursor read, not yet compared
  transport,   \* FALSE after a refresh that reported the transport down
  \* Memory of the watchdog thread.
  watch,
  watchCutoff,
  \* How often the environment interfered.
  budget

durable == <<finalized, staged, committed, primary, backup, stopFile>>
mainVars == <<main, last, engine, bar, closing>>
feedVars == <<feed, after, cursor, plan, item, cutoff, transport>>
watchVars == <<watch, watchCutoff>>
vars == <<durable, mainVars, stop, queue, feedVars, watchVars, budget>>

-----------------------------------------------------------------------------
(* Engine images and checkpoint files.                                     *)

\* The engine as the delivery path sees it: the minutes appended to the causal
\* context, the last minute of the HMM streams, and engine._last_timestamp.
Bootstrap == [context |-> <<>>, hmm |-> 0, clock |-> 0]

\* AtomicCheckpointStore files: present or not, readable or not.
NoFile == [exists |-> FALSE, valid |-> FALSE, last |-> 0, engine |-> Bootstrap]
Saved(minute, image) ==
  [exists |-> TRUE, valid |-> TRUE, last |-> minute, engine |-> image]

\* AtomicCheckpointStore.load: primary, then backup; the bootstrap checkpoint
\* serves only when neither file exists.
Loadable == IF primary.valid THEN primary
            ELSE IF backup.valid THEN backup ELSE NoFile
CanLoad == \/ primary.valid \/ backup.valid
           \/ ~primary.exists /\ ~backup.exists

-----------------------------------------------------------------------------
(* The delivery ledger.                                                    *)

\* IBKRFinalizedLedgerSource._committed_cursor.
CommittedCursor == Max(committed \union {after})

\* AppendOnlyPaperDeliveryLedger.pending_after: refuses a cutoff older than an
\* acknowledgment, otherwise lists the staged minutes beyond it.
RefusesRollback(cut) == \E b \in committed : b > cut
PendingAfter(cut) == {b \in staged \ committed : b > cut}

\* The gap check of _stage_finalized_rows over the pending rows.
HasGap(cut) ==
  \E b \in PendingAfter(cut) :
    \E m \in Bars : cut < m /\ m < b /\ m \notin PendingAfter(cut)

\* Mutant: acknowledge everything staged, whatever the checkpoint covers.
EligibleBeyondCheckpoint(minute) == staged \ committed

\* acknowledge_through: what a checkpoint at this minute allows to acknowledge.
Eligible(minute) == {b \in staged \ committed : b <= minute}

AcknowledgeOne ==
  /\ Eligible(last) # {}
  /\ committed' = committed \union {Min(Eligible(last))}

\* Rows of the finalization journal that stage() has not written yet.
Unstaged == {b \in finalized \ staged : b > after}

StageOne ==
  /\ Unstaged # {}
  /\ staged' = staged \union {Min(Unstaged)}

-----------------------------------------------------------------------------
(* Initial state: a first start has written the bootstrap checkpoint and   *)
(* is about to subscribe.                                                  *)

BarItem(b) == [kind |-> "bar", minute |-> b]
Exception == [kind |-> "exception", minute |-> 0]
Sentinel == [kind |-> "sentinel", minute |-> 0]
Items == {BarItem(b) : b \in Bars} \union {Exception, Sentinel}

NoInterference ==
  [crashes |-> 0, saves |-> 0, failures |-> 0, corruptions |-> 0, stops |-> 0]

Init ==
  /\ finalized = {} /\ staged = {} /\ committed = {}
  /\ primary = NoFile /\ backup = NoFile /\ stopFile = FALSE
  /\ main = "subscribe" /\ last = 0 /\ engine = Bootstrap
  /\ bar = 0 /\ closing = FALSE /\ stop = FALSE /\ queue = <<>>
  /\ feed = "off" /\ after = 0 /\ cursor = 0 /\ plan = {} /\ item = Sentinel
  /\ cutoff = 0 /\ transport = TRUE
  /\ watch = "off" /\ watchCutoff = 0
  /\ budget = NoInterference

\* The process is gone: its memory with it.
ProcessEnds ==
  /\ main' = "down" /\ last' = 0 /\ engine' = Bootstrap
  /\ bar' = 0 /\ closing' = FALSE /\ stop' = FALSE /\ queue' = <<>>
  /\ feed' = "off" /\ after' = 0 /\ cursor' = 0 /\ plan' = {}
  /\ item' = Sentinel /\ cutoff' = 0 /\ transport' = TRUE
  /\ watch' = "off" /\ watchCutoff' = 0
-----------------------------------------------------------------------------
(* Start-up of the main thread.                                            *)

\* Poisoned contexts stop growing here; only engine failures can reach it.
ContextBound == Minutes + MaxEngineFailures

\* Mutant: restore() leaves the freshly built engine in place.
ForgottenImage == Bootstrap

\* restore_engine_state applies the image of the checkpoint that was loaded.
RestoredImage == Loadable.engine

\* Mutant: restore() does not reconcile the ledger.
NeverReconcile == "subscribe"

\* A checkpoint of a processed bar is reconciled, the bootstrap checkpoint is not.
AfterRestore == IF Loadable.last > 0 THEN "reconcile" ELSE "subscribe"

\* Resume: restore() loads a checkpoint before anything else runs.
Restore ==
  /\ main = "down"
  /\ CanLoad
  /\ ResumeNeedsPrimary => primary.exists
  /\ Len(Loadable.engine.context) <= ContextBound
  /\ last' = Loadable.last
  /\ engine' = RestoredImage
  /\ main' = AfterRestore
  /\ after' = Loadable.last
  /\ cursor' = Loadable.last
  /\ UNCHANGED <<durable, bar, closing, stop, queue, feed, plan, item, cutoff,
                 transport, watchVars, budget>>

\* reconcile_checkpoint: acknowledge what the checkpoint already covers, one
\* fsynced row at a time.
Reconcile ==
  /\ main = "reconcile"
  /\ \/ /\ AcknowledgeOne
        /\ UNCHANGED main
     \/ /\ Eligible(last) = {}
        /\ main' = "subscribe"
        /\ UNCHANGED committed
  /\ UNCHANGED <<finalized, staged, primary, backup, stopFile, last, engine, bar,
                 closing, stop, queue, feedVars, watchVars, budget>>

\* subscribe() stages on the main thread, before the other threads exist.
SubscribeStage ==
  /\ main = "subscribe"
  /\ StageOne
  /\ UNCHANGED <<finalized, committed, primary, backup, stopFile, mainVars, stop,
                 queue, feedVars, watchVars, budget>>

\* ... then checks the staged rows for missing minutes and starts the feed and
\* watchdog threads.
Subscribe ==
  /\ main = "subscribe"
  /\ Unstaged = {}
  /\ ~HasGap(CommittedCursor)
  /\ main' = "get" /\ feed' = "stage" /\ watch' = "idle"
  /\ UNCHANGED <<durable, last, engine, bar, closing, stop, queue, after, cursor,
                 plan, item, cutoff, transport, watchCutoff, budget>>

\* A missing minute raises out of subscribe(): no checkpoint is written.
SubscribeFails ==
  /\ main = "subscribe"
  /\ Unstaged = {}
  /\ HasGap(CommittedCursor)
  /\ ProcessEnds
  /\ UNCHANGED <<durable, budget>>

-----------------------------------------------------------------------------
(* The consumer loop of _run_owned.                                        *)

\* A bar is processed; an exception or the sentinel leaves the loop.
Get ==
  /\ main = "get"
  /\ queue # <<>>
  /\ queue' = Tail(queue)
  /\ IF Head(queue).kind = "bar"
       THEN main' = "process" /\ bar' = Head(queue).minute
       ELSE main' = "close" /\ bar' = 0
  /\ UNCHANGED <<durable, last, engine, closing, stop, feedVars, watchVars, budget>>

\* _backfill_gap_before: minutes expected between the last bar and this one.
\* Before the first bar there is nothing to compare with.
Expected(b) == {m \in Bars : 0 < last /\ last < m /\ m < b}

\* Mutant: the backfill does not look at the acknowledgments.
BackfillOfStaged(b) == Expected(b) \subseteq {m \in staged : m > last}

\* source.backfill returns them all, or the bar is refused.
BackfillOk(b) == ~RefusesRollback(last) /\ Expected(b) \subseteq PendingAfter(last)

\* Missing minutes are processed before the bar that revealed them.
NextBar == IF Expected(bar) = {} THEN bar ELSE last + 1

IsDuplicate(b) == 0 < last /\ b = last
Refused(b) == \/ 0 < last /\ b < last
              \/ Expected(b) # {} /\ ~BackfillOk(b)

\* _process drops a repeated bar and raises on one it cannot place.
RefuseBar ==
  /\ main = "process"
  /\ IsDuplicate(bar) \/ Refused(bar)
  /\ main' = IF IsDuplicate(bar) THEN "get" ELSE "close"
  /\ bar' = 0
  /\ UNCHANGED <<durable, last, engine, closing, stop, queue, feedVars, watchVars,
                 budget>>

Placeable == main = "process" /\ ~IsDuplicate(bar) /\ ~Refused(bar)

\* What process_bar leaves behind when it gets as far as `stage`.
Absorb(b, stage) ==
  [context |-> IF stage = "rejected" THEN engine.context
               ELSE Append(engine.context, b),
   hmm |-> IF stage \in {"rejected", "context"} THEN engine.hmm ELSE b,
   clock |-> IF stage = "all" THEN b ELSE engine.clock]

\* The clocks of the engine and of the HMM streams only accept a later minute.
EngineAccepts(b) == engine.clock < b /\ engine.hmm < b

ProcessBar ==
  /\ Placeable
  /\ EngineAccepts(NextBar)
  /\ engine' = Absorb(NextBar, "all")
  /\ last' = NextBar
  /\ main' = "rotate"
  /\ UNCHANGED <<durable, bar, closing, stop, queue, feedVars, watchVars, budget>>

\* A bar the engine has already seen, in whole or in part, raises: on the engine
\* clock before anything changes, on the HMM clock after the context grew.
EngineRejects ==
  /\ Placeable
  /\ ~EngineAccepts(NextBar)
  /\ engine' = Absorb(NextBar, IF NextBar <= engine.clock THEN "rejected" ELSE "context")
  /\ main' = "close" /\ bar' = 0
  /\ UNCHANGED <<durable, last, closing, stop, queue, feedVars, watchVars, budget>>

\* An exception in the context, in routing or fills, or after process_bar (the
\* refit ledger, the analytics store): _last_bar still names the previous bar.
EngineFails ==
  /\ Placeable
  /\ EngineAccepts(NextBar)
  /\ budget.failures < MaxEngineFailures
  /\ \E stage \in {"context", "routing", "all"} : engine' = Absorb(NextBar, stage)
  /\ main' = "close" /\ bar' = 0
  /\ budget' = [budget EXCEPT !.failures = @ + 1]
  /\ UNCHANGED <<durable, last, closing, stop, queue, feedVars, watchVars>>
-----------------------------------------------------------------------------
(* save_checkpoint: the temporary file is synced, the primary becomes the  *)
(* backup, the temporary file becomes the primary, and only then the       *)
(* delivery ledger is acknowledged.                                        *)

\* Mutant: the primary is replaced without keeping it as the backup.
NothingRotated == backup

RotatedBackup == IF primary.exists THEN primary ELSE backup

Rotate ==
  /\ main = "rotate"
  /\ backup' = RotatedBackup
  /\ primary' = NoFile
  /\ main' = "publish"
  /\ UNCHANGED <<finalized, staged, committed, stopFile, last, engine, bar, closing,
                 stop, queue, feedVars, watchVars, budget>>

Publish ==
  /\ main = "publish"
  /\ primary' = Saved(last, engine)
  /\ main' = "acknowledge"
  /\ UNCHANGED <<finalized, staged, committed, backup, stopFile, last, engine, bar,
                 closing, stop, queue, feedVars, watchVars, budget>>

\* A write, a replacement or an append to the ledger fails and the exception
\* leaves _process, or, in the finally block, the process.
SaveFails ==
  /\ main \in {"rotate", "publish", "acknowledge"}
  /\ budget.saves < MaxSaveFailures
  /\ budget' = [budget EXCEPT !.saves = @ + 1]
  /\ IF closing
       THEN ProcessEnds
       ELSE /\ main' = "close" /\ bar' = 0
            /\ UNCHANGED <<last, engine, closing, stop, queue, feedVars, watchVars>>
  /\ UNCHANGED durable

Acknowledge ==
  /\ main = "acknowledge"
  /\ AcknowledgeOne
  /\ UNCHANGED <<finalized, staged, primary, backup, stopFile, mainVars, stop, queue,
                 feedVars, watchVars, budget>>

\* Everything covered is acknowledged: back to the bar that had to wait for a
\* backfilled one, or to the queue, or out of the finally block.
Acknowledged ==
  /\ main = "acknowledge"
  /\ Eligible(last) = {}
  /\ IF closing
       THEN ProcessEnds
       ELSE /\ main' = IF last = bar THEN "get" ELSE "process"
            /\ bar' = IF last = bar THEN 0 ELSE bar
            /\ UNCHANGED <<last, engine, closing, stop, queue, feedVars, watchVars>>
  /\ UNCHANGED <<durable, budget>>

\* The finally block: stop the other threads (the joins time out, so they may
\* still be running) and checkpoint once more if any bar was ever processed.
Close ==
  /\ main = "close"
  /\ IF last > 0
       THEN /\ main' = "rotate" /\ closing' = TRUE /\ stop' = TRUE
            /\ UNCHANGED <<last, engine, bar, queue, feedVars, watchVars>>
       ELSE ProcessEnds
  /\ UNCHANGED <<durable, budget>>

MainNext ==
  \/ Reconcile \/ SubscribeStage \/ Subscribe \/ SubscribeFails
  \/ Get \/ RefuseBar \/ ProcessBar \/ EngineRejects
  \/ Rotate \/ Publish \/ Acknowledge \/ Acknowledged \/ Close

-----------------------------------------------------------------------------
(* The feed thread: IBKRFinalizedLedgerSource.bars inside _produce.        *)

\* Mutant: a queue that takes one more item.
QueueHasRoom == Len(queue) <= QueueSize

\* queue.put succeeds: the queue is bounded by feed_queue_size.
QueueHasSpace == Len(queue) < QueueSize

Unchanged(others) == UNCHANGED others /\ UNCHANGED <<mainVars, watchVars, budget>>

\* The loop of bars() ends once the source is stopped; _produce then enqueues
\* the sentinel.
FeedStops ==
  /\ feed = "emit"
  /\ stop
  /\ feed' = "sentinel" /\ plan' = {}
  /\ Unchanged(<<durable, stop, queue, after, cursor, item, cutoff, transport>>)

FeedStage ==
  /\ feed = "stage"
  /\ StageOne
  /\ Unchanged(<<finalized, committed, primary, backup, stopFile, stop, queue,
                 feedVars>>)

\* The committed cursor is read first and compared in a later step; the main
\* thread may acknowledge a bar in between.
FeedReadCursor ==
  /\ \/ feed = "stage" /\ Unstaged = {} /\ feed' = "gapcheck"
     \/ feed = "list" /\ feed' = "listcheck"
     \/ feed = "put" /\ ~QueueHasSpace /\ feed' = "putcheck"
  /\ cutoff' = CommittedCursor
  /\ Unchanged(<<durable, stop, queue, after, cursor, plan, item, transport>>)

\* The cutoff is not older than any acknowledgment and nothing is missing.
FeedGapCheck ==
  /\ feed = "gapcheck"
  /\ ~RefusesRollback(cutoff) /\ ~HasGap(cutoff)
  /\ feed' = "list"
  /\ Unchanged(<<durable, stop, queue, after, cursor, plan, item, cutoff, transport>>)

\* Mutant: emit every pending row again.
PlanFromScratch == PendingAfter(cutoff)

\* Rows at or before the last emitted minute are skipped.
Plan == {b \in PendingAfter(cutoff) : b > cursor}

FeedList ==
  /\ feed = "listcheck"
  /\ ~RefusesRollback(cutoff)
  /\ plan' = Plan
  /\ feed' = "emit"
  /\ Unchanged(<<durable, stop, queue, after, cursor, item, cutoff, transport>>)

\* An exception in bars(), or in _put while a bar is enqueued, is handed to the
\* main thread; one raised while _put enqueues an exception is lost.
FeedRaises ==
  /\ IF feed = "putcheck" /\ item = Exception
       THEN feed' = "sentinel" /\ item' = Sentinel
       ELSE feed' = "put" /\ item' = Exception
  /\ plan' = {}
  /\ Unchanged(<<durable, stop, queue, after, cursor, cutoff, transport>>)

FeedRefuses ==
  /\ \/ feed \in {"gapcheck", "listcheck", "putcheck"} /\ RefusesRollback(cutoff)
     \/ feed = "gapcheck" /\ HasGap(cutoff)
  /\ FeedRaises

FeedEmit ==
  /\ feed = "emit"
  /\ ~stop
  /\ plan # {}
  /\ cursor' = Min(plan)
  /\ plan' = plan \ {Min(plan)}
  /\ item' = BarItem(Min(plan))
  /\ feed' = "put"
  /\ Unchanged(<<durable, stop, queue, after, cutoff, transport>>)

FeedEmitted ==
  /\ feed = "emit"
  /\ ~stop
  /\ plan = {}
  /\ feed' = "refresh"
  /\ Unchanged(<<durable, stop, queue, after, cursor, plan, item, cutoff, transport>>)

\* _put: a bar goes back to the loop, an exception is followed by the sentinel.
\* A stop drops whatever was to be enqueued, unless the thread was already
\* blocked in queue.put.
FeedPut ==
  /\ feed = "put"
  /\ \/ /\ QueueHasSpace
        /\ queue' = Append(queue, item)
        /\ feed' = IF item = Exception THEN "sentinel" ELSE "emit"
        /\ UNCHANGED plan
     \/ /\ stop
        /\ feed' = "sentinel" /\ plan' = {}
        /\ UNCHANGED queue
  /\ item' = Sentinel
  /\ Unchanged(<<durable, stop, after, cursor, cutoff, transport>>)

\* The queue stayed full and health() answered: retry while the transport is not
\* reported down; otherwise try to enqueue an error and give up.
FeedHealth ==
  /\ feed = "putcheck"
  /\ ~RefusesRollback(cutoff)
  /\ IF transport /\ ~stop
       THEN feed' = "put" /\ UNCHANGED <<queue, plan, item>>
       ELSE /\ feed' = "sentinel" /\ plan' = {} /\ item' = Sentinel
            /\ queue' = IF QueueHasSpace THEN Append(queue, Exception)
                        ELSE queue
  /\ Unchanged(<<durable, stop, after, cursor, cutoff, transport>>)

FeedSentinel ==
  /\ feed = "sentinel"
  /\ QueueHasSpace
  /\ queue' = Append(queue, Sentinel)
  /\ feed' = "off"
  /\ Unchanged(<<durable, stop, after, cursor, plan, item, cutoff, transport>>)

\* refresh runs on the feed thread.  It appends finalized minutes (the finalizer
\* delivers in order and passes over reviewed gaps only) and returns whether the
\* transport is up.
NextFinal ==
  {b \in Bars \ (finalized \union ReviewedGaps) :
     \A m \in Bars : m < b => m \in finalized \union ReviewedGaps}

RefreshFinalizes ==
  /\ feed = "refresh"
  /\ \E b \in NextFinal : finalized' = finalized \union {b}
  /\ Unchanged(<<staged, committed, primary, backup, stopFile, stop, queue, feedVars>>)

RefreshReturns ==
  /\ feed = "refresh"
  /\ transport' \in BOOLEAN
  /\ feed' = IF stop THEN "sentinel" ELSE "stage"
  /\ Unchanged(<<durable, stop, queue, after, cursor, plan, item, cutoff>>)

\* Everything the acquisition controller treats as fatal.
RefreshRaises == feed = "refresh" /\ FeedRaises

FeedNext ==
  \/ FeedStops \/ FeedStage \/ FeedReadCursor \/ FeedGapCheck \/ FeedList
  \/ FeedRefuses \/ FeedEmit \/ FeedEmitted \/ FeedPut \/ FeedHealth
  \/ FeedSentinel \/ RefreshFinalizes \/ RefreshReturns \/ RefreshRaises
-----------------------------------------------------------------------------
(* The watchdog thread: _watch_feed, once a second until a stop.           *)

OnlyWatch == UNCHANGED <<finalized, staged, committed, primary, backup, mainVars,
                         queue, feedVars, budget>>

WatchEnds ==
  /\ watch = "idle"
  /\ stop
  /\ watch' = "off"
  /\ UNCHANGED <<stop, stopFile, watchCutoff>> /\ OnlyWatch

\* stop.request is consumed and becomes a stop of the service and the source.
WatchStopFile ==
  /\ watch = "idle"
  /\ ~stop /\ stopFile
  /\ stopFile' = FALSE /\ stop' = TRUE /\ watch' = "off"
  /\ UNCHANGED watchCutoff /\ OnlyWatch

\* health() reads the committed cursor ...
WatchReadCursor ==
  /\ watch = "idle"
  /\ ~stop /\ ~stopFile
  /\ watch' = "check" /\ watchCutoff' = CommittedCursor
  /\ UNCHANGED <<stop, stopFile>> /\ OnlyWatch

\* ... and compares it; a refusal is not caught and ends the thread.
WatchCheck ==
  /\ watch = "check"
  /\ watch' = IF RefusesRollback(watchCutoff) THEN "dead" ELSE "idle"
  /\ watchCutoff' = 0
  /\ UNCHANGED <<stop, stopFile>> /\ OnlyWatch

WatchNext == WatchEnds \/ WatchStopFile \/ WatchReadCursor \/ WatchCheck

-----------------------------------------------------------------------------
(* The environment.                                                        *)

\* The process is killed, at any point.
Crash ==
  /\ main # "down"
  /\ budget.crashes < MaxCrashes
  /\ budget' = [budget EXCEPT !.crashes = @ + 1]
  /\ ProcessEnds
  /\ UNCHANGED durable

\* The primary checkpoint becomes unreadable while the process is down.
CorruptPrimary ==
  /\ main = "down"
  /\ primary.valid
  /\ budget.corruptions < MaxCorruptions
  /\ budget' = [budget EXCEPT !.corruptions = @ + 1]
  /\ primary' = [primary EXCEPT !.valid = FALSE]
  /\ UNCHANGED <<finalized, staged, committed, backup, stopFile, mainVars, stop,
                 queue, feedVars, watchVars>>

\* The stop command writes stop.request, only for a running service; a signal
\* sets the stop directly.
RequestStop ==
  /\ watch # "off"
  /\ budget.stops < MaxStops
  /\ budget' = [budget EXCEPT !.stops = @ + 1]
  /\ \/ stopFile' = TRUE /\ UNCHANGED stop
     \/ stop' = TRUE /\ UNCHANGED stopFile
  /\ UNCHANGED <<finalized, staged, committed, primary, backup, mainVars, queue,
                 feedVars, watchVars>>

Next ==
  \/ Restore \/ MainNext \/ SaveFails \/ EngineFails
  \/ FeedNext \/ WatchNext
  \/ Crash \/ CorruptPrimary \/ RequestStop

Spec == Init /\ [][Next]_vars

\* Each thread keeps running, and a stopped process is resumed.
Fairness ==
  /\ WF_vars(Restore) /\ WF_vars(MainNext)
  /\ WF_vars(FeedNext) /\ WF_vars(WatchNext)

FairSpec == Spec /\ Fairness

-----------------------------------------------------------------------------
(* Properties.                                                             *)

EngineImages == [context : Seq(Bars), hmm : Cursors, clock : Cursors]
CheckpointFiles ==
  [exists : BOOLEAN, valid : BOOLEAN, last : Cursors, engine : EngineImages]
Budgets ==
  [crashes : Nat, saves : Nat, failures : Nat, corruptions : Nat, stops : Nat]

DurableTypes ==
  /\ finalized \subseteq Bars /\ staged \subseteq Bars /\ committed \subseteq Bars
  /\ primary \in CheckpointFiles /\ backup \in CheckpointFiles
  /\ stopFile \in BOOLEAN
MainTypes ==
  /\ main \in {"down", "reconcile", "subscribe", "get", "process", "rotate",
               "publish", "acknowledge", "close"}
  /\ last \in Cursors /\ bar \in Cursors /\ engine \in EngineImages
  /\ closing \in BOOLEAN /\ stop \in BOOLEAN
QueueTypes == queue \in Seq(Items) /\ Len(queue) <= QueueSize
FeedTypes ==
  /\ feed \in {"off", "stage", "gapcheck", "list", "listcheck", "emit", "put",
               "putcheck", "refresh", "sentinel"}
  /\ after \in Cursors /\ cursor \in Cursors /\ cutoff \in Cursors
  /\ plan \subseteq Bars /\ item \in Items /\ transport \in BOOLEAN
WatchTypes ==
  /\ watch \in {"off", "idle", "check", "dead"} /\ watchCutoff \in Cursors
  /\ budget \in Budgets

\* Every variable stays in its domain (the files of AtomicCheckpointStore, the
\* thread states of RealtimePaperService, the cursors of the source), and no
\* thread overfills the bounded queue.
TypeOK == DurableTypes /\ MainTypes /\ QueueTypes /\ FeedTypes /\ WatchTypes

\* At every point where the process could die, the checkpoint a restart would
\* load covers every acknowledged minute: save_checkpoint acknowledges last.
AcksCovered == \A b \in committed : b <= Loadable.last

\* The checkpoint a restart would load contains minutes 1..last, each exactly
\* once and completely: no bar is lost, repeated or half applied by a crash, a
\* failed save or a redelivery.
ExactlyOnce ==
  /\ Loadable.engine.context = [i \in 1..Loadable.last |-> i]
  /\ Loadable.engine.hmm = Loadable.last
  /\ Loadable.engine.clock = Loadable.last

\* The ledger acknowledges minutes in order, without skipping one, and never a
\* minute that was not finalized.
CommitsArePrefix ==
  /\ committed \subseteq finalized
  /\ \A b \in committed : 1..b \subseteq committed

\* Between redeliveries, restarts and lost queue contents the main thread only
\* ever dequeues the minute right after the last one it processed: the
\* duplicate, out-of-order and backfill branches of _process stay unused.
StreamContiguous == main = "process" => bar = last + 1

\* The minute a restart would resume from never moves backwards, whatever
\* happens between the two replacements of a save.
FrontierNeverRegresses == [][Loadable'.last >= Loadable.last]_vars

\* A minute the ledger has acknowledged is never processed a second time, even
\* when the checkpoint that was loaded is older than the acknowledgment:
\* pending_after refuses the rollback at the next bar.
AcknowledgedNeverReprocessed ==
  [][main = "process" /\ main' = "rotate" => last' \notin committed]_vars

\* Every finalized minute is eventually acknowledged, across crashes, failed
\* saves, transport outages, lost queue contents and refusals of the feed
\* thread, as long as the process keeps being resumed.
EveryMinuteCommits == \A b \in Bars : b \in finalized ~> b \in committed

\* The promise, seen through the durable state alone: the engine image a restart
\* would load is what has been applied.
Promise == INSTANCE ExactlyOnceDelivery
             WITH available <- finalized, applied <- Loadable.engine.context,
                  acked <- committed

\* Threads, crashes and failed saves implement exactly-once delivery.
ImplementsExactlyOnce == Promise!Spec

=============================================================================
