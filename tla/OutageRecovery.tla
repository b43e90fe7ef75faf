---------------------------- MODULE OutageRecovery ----------------------------
(***************************************************************************)
(* Outages of the delayed feed: losing TWS, reconnecting with a backoff,   *)
(* catching up from the first minute that was not delivered, and closing   *)
(* the outage.                                                             *)
(*                                                                         *)
(* The feed thread runs request cycles (refresh).  The watchdog thread     *)
(* asks for the health of the source once a second and, when everything    *)
(* looks reconciled, closes the outage (mark_recovery_verified); it takes  *)
(* no lock.  A step of a thread ends where it calls the network or writes  *)
(* a file.  The cursor file is written in every step that changes what it  *)
(* holds, so that a restart finds the outage and the backfill as they were.*)
(*                                                                         *)
(* Sources: src/paper/ibkr_paper_runner.py (controller), the planner and   *)
(* the pacer of src/paper/ibkr_delayed_acquisition.py, and the loop and    *)
(* the health of IBKRFinalizedLedgerSource in                              *)
(* src/paper/ibkr_paper_recovery.py.  Which candidate is stable is the     *)
(* matter of DelayedAcquisition: here a minute is stable when it was       *)
(* observed twice.                                                         *)
(***************************************************************************)
EXTENDS Integers, FiniteSetsExt

CONSTANTS
  Minutes,      \* minutes the provider will ever publish (bound)
  Closed,       \* minutes at which the calendar has the market closed
  Reach,        \* minutes one request covers (1800 s)
  Pace,         \* ticks between two cycles (30 s); a tick is the first delay
  MaxDelay,     \* longest retry delay, in ticks
  MaxOutages,   \* how often TWS goes down (bound)
  MaxTroubles,  \* pacing and no-data answers (bound)
  MaxRestarts   \* restarts of the process (bound)

ASSUME MinutesAssumption ==
  /\ Minutes \in Nat /\ Closed \subseteq 1..Minutes /\ Reach \in Nat \ {0}
ASSUME BoundsAssumption ==
  /\ Pace \in Nat \ {0} /\ MaxDelay \in Nat \ {0}
  /\ MaxOutages \in Nat /\ MaxTroubles \in Nat /\ MaxRestarts \in Nat

VARIABLES
  \* The provider.
  tws,         \* whether TWS answers
  socket,      \* whether the client is connected to it
  frontier,    \* last minute published
  left,        \* what the environment may still do: outages, troubles, restarts
  \* The acquisition cursor and the ledgers.
  seen,        \* minutes in the observation ledger
  stable,      \* those observed twice
  delivered,   \* last finalized minute
  next,        \* bootstrap_backfill_next_start
  target,      \* bootstrap_backfill_target_end, 0 for none
  complete,    \* bootstrap_backfill_complete
  \* The controller.
  connection,  \* connection_state
  incident,    \* _incident_active
  retry,       \* ticks until next_retry_at, or None
  failures,    \* backoff.failures
  rest,        \* ticks until the pacer allows the next cycle
  feed,        \* where the feed thread is
  covered,     \* minutes the planned confirmation covers, {} for none
  rotation,    \* pending_confirmation_offset
  \* The source and the watchdog.
  available,   \* _transport_available of the source
  paper,       \* last minute the Paper service committed
  watchdog     \* where the watchdog thread is

provider == <<tws, socket, frontier, left>>
minutes == <<seen, stable, delivered>>
backfill == <<next, target, complete>>
link == <<connection, incident, retry, failures>>
asked == <<covered, rotation>>
source == <<available, paper>>
vars == <<provider, minutes, backfill, link, rest, feed, asked, source, watchdog>>

-----------------------------------------------------------------------------
(* Minutes.                                                                *)

None == -1
Open(a, b) == (a .. b) \ Closed

\* Mutant: the minute right after the delivered one counts as confirmed.
PendingLater == {m \in seen : m > delivered + 1}

Pending == {m \in seen : m > delivered}

\* The first open minute from m on, or the limit.
OpenFrom(m, limit) == Min(Open(m, limit) \union {limit})

\* finalize_ready: stable minutes in order, up to the first hole.
Finalize(steady) ==
  Max({delivered} \union
      {m \in steady : Open(delivered + 1, m) \subseteq steady})

\* A response is written down; what was seen before is stable now.
Ingest(rows) ==
  /\ seen' = seen \union rows
  /\ stable' = stable \union (rows \intersect seen)
  /\ delivered' = Finalize(stable')

-----------------------------------------------------------------------------
(* Outages and retries.                                                    *)

\* DISCONNECTED is never reached: a process starts with a connection or not at
\* all (delayed_paper_cli.py).
Down == {"RECONNECTING"}
Due == retry \in {None, 0}

\* Mutant: the delay has no maximum.
DelayGrows == failures + 1

Delay == IF failures < MaxDelay THEN failures + 1 ELSE MaxDelay

\* _schedule_retry.
ScheduleRetry ==
  /\ retry' = Delay
  /\ failures' = IF failures < MaxDelay THEN failures + 1 ELSE failures

\* Mutant: a lost link joins the outage on record, if there is one.
ScheduleReconnectOnly ==
  /\ UNCHANGED incident /\ connection' = "RECONNECTING"
  /\ ScheduleRetry

ScheduleReconnect ==
  /\ incident' = TRUE /\ connection' = "RECONNECTING"
  /\ ScheduleRetry

\* begin_catchup, from the first minute that was not delivered.
BeginCatchup ==
  IF complete \/ next <= delivered
    THEN next' = delivered + 1 /\ target' = 0 /\ complete' = FALSE
    ELSE UNCHANGED backfill

Init ==
  /\ tws = TRUE /\ socket = TRUE /\ frontier = 0
  /\ left = [outages |-> MaxOutages, troubles |-> MaxTroubles, restarts |-> MaxRestarts]
  /\ seen = {} /\ stable = {} /\ delivered = 0
  /\ next = 1 /\ target = 0 /\ complete = FALSE
  /\ connection = "CONNECTED" /\ incident = FALSE
  /\ retry = None /\ failures = 0 /\ rest = 0
  /\ feed = "idle" /\ covered = {} /\ rotation = 0
  /\ available = "unknown" /\ paper = 0
  /\ watchdog = "idle"

-----------------------------------------------------------------------------
(* The feed thread: one call of refresh.                                   *)

\* Mutant: a completed cycle leaves the last transport error in place.
CycleReturnsError(answer) ==
  feed' = "idle" /\ available' = IF answer = "yes" THEN available ELSE "no"

\* The result of the cycle tells the source whether the transport works.
CycleReturns(answer) == feed' = "idle" /\ available' = answer

\* Not yet time to retry, on a working link or on a lost one.
Held ==
  /\ feed = "idle" /\ ~Due
  /\ available' = IF connection \in Down THEN "no" ELSE "yes"
  /\ UNCHANGED <<provider, minutes, backfill, link, rest, feed, asked, paper, watchdog>>

ReconnectFails ==
  /\ feed = "idle" /\ Due /\ connection \in Down /\ ~tws
  /\ ScheduleReconnect
  /\ CycleReturns("no")
  /\ UNCHANGED <<provider, minutes, backfill, rest, asked, paper, watchdog>>

Reconnect ==
  /\ feed = "idle" /\ Due /\ connection \in Down /\ tws
  /\ socket' = TRUE
  /\ connection' = "RECOVERING" /\ retry' = None
  /\ feed' = "linked"
  /\ UNCHANGED <<tws, frontier, left, minutes, backfill, incident, failures, rest, asked,
                 source, watchdog>>

\* The loop calls at the end of its poll interval, which is not shorter than the
\* pacer's, at a retry time, and once when it begins.
Linked ==
  /\ feed = "idle" /\ Due /\ connection \notin Down
  /\ rest = 0 \/ retry = 0 \/ available = "unknown"
  /\ retry' = None
  /\ feed' = "linked"
  /\ UNCHANGED <<provider, minutes, backfill, connection, incident, failures, rest,
                 asked, source, watchdog>>

\* While recovering, the cycle waits for the pacer instead of asking it.
WaitForPacer ==
  /\ feed = "linked" /\ connection = "RECOVERING" /\ rest > 0
  /\ retry' = rest
  /\ CycleReturns("yes")
  /\ UNCHANGED <<provider, minutes, backfill, connection, incident, failures, rest,
                 asked, paper, watchdog>>

\* The backfill skips a proven closure, and ends at its target.
SkipTo == OpenFrom(next, IF target = 0 THEN Minutes + 1 ELSE target)
Reached == target # 0 /\ SkipTo >= target
Advance ==
  /\ next' = IF complete THEN next ELSE SkipTo
  /\ complete' = (complete \/ Reached)
  /\ UNCHANGED target

\* Confirmation asks for one group of pending minutes: during catch-up the
\* oldest, later each in turn.
Group(m) == {p \in Pending : p >= m /\ p < m + Reach}
GroupStarts ==
  LET from[m \in 1..(Minutes + Reach)] ==
        LET later == {p \in Pending : p >= m}
        IN IF later = {} THEN {} ELSE {Min(later)} \union from[Min(later) + Reach]
  IN from[1]
Index(m) == Cardinality({g \in GroupStarts : g < m})

\* The group of this cycle; the turn moves on even if the pacer refuses.
Confirm(catchup) ==
  LET count == Cardinality(GroupStarts)
  IN IF Pending = {} THEN covered' = {} /\ UNCHANGED rotation
     ELSE \E m \in GroupStarts :
            /\ Index(m) = IF catchup THEN 0 ELSE rotation % count
            /\ covered' = Group(m)
            /\ rotation' = IF catchup THEN 0 ELSE (Index(m) + 1) % count

\* The cycle is planned: first backfill or discovery, then confirmation.
Plan ==
  /\ feed = "linked" /\ rest = 0
  /\ Advance
  /\ feed' = IF complete' \/ target = 0 THEN "discover" ELSE "backfill"
  /\ Confirm(~complete')
  /\ rest' = Pace
  /\ UNCHANGED <<provider, minutes, link, source, watchdog>>

\* begin_cycle refuses; the retry is never before the pacer would allow it.
PacerRefuses ==
  /\ feed = "linked" /\ rest > 0 /\ connection # "RECOVERING"
  /\ Advance
  /\ Confirm(~complete')
  /\ ScheduleRetry
  /\ feed' = "deferring"
  /\ UNCHANGED <<provider, minutes, connection, incident, rest,
                 source, watchdog>>

Asking == feed \in {"discover", "backfill", "confirm"}
EndOfCycle ==
  /\ connection' = IF incident THEN "RECOVERING" ELSE "CONNECTED"
  /\ CycleReturns("yes")
\* The first answer leads to the confirmation, if there is one.
Continue ==
  IF covered = {} THEN EndOfCycle
  ELSE feed' = "confirm" /\ UNCHANGED <<connection, available>>

\* recent_discovery: the last minutes the provider has; during catch-up they
\* give the backfill its target.
Discovered ==
  /\ feed = "discover" /\ socket
  /\ LET rows == Open(Max({1, frontier - Reach + 1}), frontier)
         fresh == {m \in rows : m >= next}
     IN /\ Ingest(rows)
        /\ target' = IF ~complete /\ fresh # {} THEN Max(fresh) + 1 ELSE target
  /\ Continue
  /\ UNCHANGED <<provider, next, complete, incident, retry, failures, rest, asked,
                 paper, watchdog>>

\* Mutant: the cursor moves behind the range that was asked for.
BehindRange(last, end) == end

\* The cursor moves behind the last row the provider sent.
BehindLast(last, end) == last + 1

\* bootstrap_backfill: the provider may leave out the end of the range.
Backfilled ==
  /\ feed = "backfill" /\ socket
  /\ LET end == Min({next + Reach, target})
     IN \E last \in Open(next, end - 1) :
          LET rows == Open(next, last)
          IN /\ Ingest(rows)
             /\ next' = BehindLast(last, end)
             /\ complete' = (next' >= target)
  /\ Continue
  /\ UNCHANGED <<provider, target, incident, retry, failures, rest, asked, paper,
                 watchdog>>

Confirmed ==
  /\ feed = "confirm" /\ socket
  /\ Ingest(covered)
  /\ EndOfCycle
  /\ UNCHANGED <<provider, backfill, incident, retry, failures, rest, asked, paper,
                 watchdog>>

\* A transport failure: a new outage first seeds the catch-up.
TransportLost ==
  /\ Asking /\ ~socket
  /\ IF incident THEN UNCHANGED backfill ELSE BeginCatchup
  /\ ScheduleReconnect
  /\ CycleReturns("no")
  /\ UNCHANGED <<provider, minutes, rest, asked, paper, watchdog>>

\* The provider answers that requests come too fast, or that it has no data in
\* a range that should have some.
Troubled ==
  /\ Asking /\ socket /\ left.troubles > 0
  /\ left' = [left EXCEPT !.troubles = @ - 1]
  /\ BeginCatchup \/ UNCHANGED backfill
  /\ ScheduleRetry
  /\ feed' = "deferring"
  /\ UNCHANGED <<tws, socket, frontier, minutes, connection, incident, rest, asked,
                 source, watchdog>>

\* Any other error, or rows outside the range asked for, ends the service.
Refused ==
  /\ Asking /\ socket /\ left.troubles > 0
  /\ left' = [left EXCEPT !.troubles = @ - 1]
  /\ feed' = "failed"
  /\ UNCHANGED <<tws, socket, frontier, minutes, backfill, link, rest, asked,
                 source, watchdog>>

\* max(self.next_retry_at_utc, now + 60 s): no number to compare when the
\* watchdog has cleared the retry time meanwhile.
Defer ==
  /\ feed = "deferring"
  /\ IF retry = None THEN feed' = "broken" /\ UNCHANGED <<retry, available>>
     ELSE /\ retry' = Max({retry, Pace})
          /\ CycleReturns(IF connection \in Down THEN "no" ELSE "yes")
  /\ UNCHANGED <<provider, minutes, backfill, connection, incident, failures, rest,
                 asked, paper, watchdog>>

-----------------------------------------------------------------------------
(* The Paper service, the watchdog, restarts and the environment.          *)

\* The service checkpoints and acknowledges the next finalized minute.
Commit ==
  /\ paper < delivered
  /\ paper' = OpenFrom(paper + 1, delivered)
  /\ UNCHANGED <<provider, minutes, backfill, link, rest, feed, asked, available,
                 watchdog>>

\* health: is everything reconciled?
Healthy ==
  /\ watchdog = "idle" /\ incident
  /\ available = "yes" /\ complete /\ paper = delivered /\ Pending = {}
  /\ watchdog' = "verified"
  /\ UNCHANGED <<provider, minutes, backfill, link, rest, feed, asked, source>>

\* mark_recovery_verified looks again at what it can see itself.
Recheck ==
  /\ watchdog = "verified"
  /\ watchdog' = IF incident /\ complete /\ Pending = {} THEN "closing" ELSE "idle"
  /\ UNCHANGED <<provider, minutes, backfill, link, rest, feed, asked, source>>

CloseOutage ==
  /\ watchdog = "closing"
  /\ incident' = FALSE /\ connection' = "CONNECTED"
  /\ retry' = None /\ failures' = 0
  /\ watchdog' = "idle"
  /\ UNCHANGED <<provider, minutes, backfill, rest, feed, asked, source>>

\* A new process connects, then reads cursor and ledgers; the retry time it finds
\* may be older than the last one in memory.  subscribe begins the catch-up.
Restart ==
  /\ left.restarts > 0 /\ tws
  /\ left' = [left EXCEPT !.restarts = @ - 1]
  /\ connection' = "CONNECTED" /\ socket' = TRUE
  /\ retry' \in {None, retry}
  /\ BeginCatchup
  /\ feed' = "idle" /\ covered' = {} /\ available' = "unknown" /\ watchdog' = "idle"
  /\ UNCHANGED <<tws, frontier, minutes, incident, failures, rest, rotation, paper>>

Tick ==
  /\ retry > 0 \/ rest > 0
  /\ retry' = IF retry > 0 THEN retry - 1 ELSE retry
  /\ rest' = IF rest > 0 THEN rest - 1 ELSE 0
  /\ UNCHANGED <<provider, minutes, backfill, connection, incident, failures, feed,
                 asked, source, watchdog>>

Publish ==
  /\ frontier < Minutes
  /\ frontier' = frontier + 1
  /\ UNCHANGED <<tws, socket, left, minutes, backfill, link, rest, feed, asked, source, watchdog>>

GoDown ==
  /\ tws /\ left.outages > 0
  /\ tws' = FALSE /\ socket' = FALSE
  /\ left' = [left EXCEPT !.outages = @ - 1]
  /\ UNCHANGED <<frontier, minutes, backfill, link, rest, feed, asked, source, watchdog>>

ComeBack ==
  /\ ~tws /\ tws' = TRUE
  /\ UNCHANGED <<socket, frontier, left, minutes, backfill, link, rest, feed, asked,
                 source, watchdog>>

FeedStep ==
  \/ Held \/ ReconnectFails \/ Reconnect \/ Linked \/ WaitForPacer \/ Plan
  \/ PacerRefuses \/ Discovered \/ Backfilled \/ Confirmed \/ TransportLost
  \/ Defer
WatchdogStep == Healthy \/ Recheck \/ CloseOutage

Next ==
  \/ FeedStep \/ Troubled \/ Refused \/ WatchdogStep \/ Commit \/ Restart \/ Tick
  \/ Publish \/ GoDown \/ ComeBack

Spec == Init /\ [][Next]_vars

\* Both threads run, the service commits, time passes and minutes are published.
FairSpec ==
  /\ Spec
  /\ WF_vars(FeedStep) /\ WF_vars(WatchdogStep) /\ WF_vars(Commit)
  /\ WF_vars(Tick) /\ WF_vars(Publish)

-----------------------------------------------------------------------------
(* Properties.                                                             *)

TypeOK ==
  /\ tws \in BOOLEAN /\ socket \in BOOLEAN /\ frontier \in 0..Minutes
  /\ left \in [outages : 0..MaxOutages, troubles : 0..MaxTroubles,
               restarts : 0..MaxRestarts]
  /\ seen \subseteq 1..Minutes /\ stable \subseteq seen
  /\ delivered \in 0..Minutes /\ paper \in 0..delivered
  /\ next \in 1..(Minutes + 1) /\ target \in 0..(Minutes + 1)
  /\ complete \in BOOLEAN
  /\ connection \in Down \union {"CONNECTED", "RECOVERING"}
  /\ incident \in BOOLEAN
  /\ retry \in None..Max({MaxDelay, Pace}) /\ failures \in 0..MaxDelay /\ rest \in 0..Pace
  /\ feed \in {"idle", "linked", "discover", "backfill", "confirm", "deferring",
              "failed", "broken"}
  /\ covered \subseteq seen /\ rotation \in 0..Minutes
  /\ available \in {"unknown", "yes", "no"}
  /\ watchdog \in {"idle", "verified", "closing"}

\* The backfill never moves past a minute that should have been there and was
\* not received, whatever the provider left out at the end of a response and
\* wherever the catch-up was begun anew.
BackfillLeavesNoHole ==
  ~complete => Open(delivered + 1, next - 1) \subseteq seen

\* Minutes that neither the backfill nor the rolling discovery will ask for.
Unreachable == complete /\ ~(Open(delivered + 1, frontier - Reach) \subseteq seen)
Stopped == feed \in {"failed", "broken"}

\* A catch-up that began at the frontier gets its target from the next minute.
AwaitsMinute == ~complete /\ target = 0 /\ Open(next, frontier) = {}

\* Once TWS stays up, no minute got out of reach and a minute arrives for the
\* catch-up to end at, every outage is closed ...
OutageEnds ==
  <>[](tws /\ ~Unreachable /\ ~AwaitsMinute /\ ~Stopped) => []<>(~incident)

\* ... and every published minute is delivered to the Paper service.
DeliveryResumes ==
  <>[](tws /\ ~Unreachable /\ ~Stopped) => <>[](Open(paper + 1, frontier) = {})

\* A lost connection is on record as an outage, also when the watchdog closed
\* the previous one too late.
LostLinkIsNoticed ==
  <>[](~tws /\ ~Stopped) => <>[]incident
=============================================================================
