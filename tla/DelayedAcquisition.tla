------------------------- MODULE DelayedAcquisition -------------------------
(***************************************************************************)
(* Acquisition of delayed IBKR minutes: every bar of every response is     *)
(* appended to an observation ledger, candidates are stabilized in memory, *)
(* and a candidate that was observed twice unchanged, is old enough and    *)
(* leaves no hole before it is appended to the finalization journal.  A    *)
(* restart rebuilds the candidates from the two journals.                  *)
(*                                                                         *)
(* Sources: src/paper/ibkr_delayed_market_data.py (finalizer, journal),    *)
(* src/paper/ibkr_delayed_acquisition.py (session, planner, rehydration),  *)
(* src/paper/ibkr_observation_ledger.py, and the request cycle of          *)
(* src/paper/ibkr_paper_runner.py.                                         *)
(*                                                                         *)
(* A minute is its position among the minutes the calendar expects.  Time  *)
(* counts ticks; minute m is complete at tick m * MinuteTicks.             *)
(***************************************************************************)
EXTENDS Integers, Sequences, FiniteSetsExt

CONSTANTS
  Minutes,         \* minutes the calendar expects (bound)
  Cutoff,          \* the bootstrap cutoff: minutes up to it are not Paper's
  ClassifiedGaps,  \* minutes an operator classified as missing data
  MinuteTicks,     \* ticks of one minute
  MinimumAge,      \* minimum_age_seconds, in ticks
  Spacing,         \* minimum_observation_spacing_seconds, in ticks
  MaxTime,         \* bound on the clock
  MaxPolls,        \* bound on request cycles
  MaxRevisions,    \* bound on provider revisions of a minute
  MaxOmissions,    \* bound on minutes left out of responses
  MaxCrashes       \* bound on process deaths

ASSUME MinutesAssumption == Minutes \in Nat \ {0} /\ Cutoff \in 0..Minutes
ASSUME GapsAssumption == ClassifiedGaps \subseteq 1..Minutes
ASSUME PolicyAssumption ==
  MinuteTicks \in Nat \ {0} /\ MinimumAge \in Nat \ {0} /\ Spacing \in Nat \ {0}
ASSUME BoundsAssumption ==
  /\ MaxTime \in Nat /\ MaxPolls \in Nat /\ MaxRevisions \in Nat
  /\ MaxOmissions \in Nat /\ MaxCrashes \in Nat

Bars == 1..Minutes
NoMinute == -1

\* required_identical_observations.
Required == 2

VARIABLES
  now,        \* the clock
  provider,   \* the provider's current version of each minute
  \* Durable.
  log,        \* observation ledger
  journal,    \* finalization journal
  cursor,     \* the saved acquisition cursor
  \* Memory of the process.
  phase,      \* what the acquisition does next
  poll,       \* poll_number
  candidates, \* _pending
  delivered,  \* last_delivered
  replayed,   \* observations already rehydrated
  covered,    \* covered_pending_starts of the planned confirmation
  response,   \* the response being ingested
  unsaved,    \* its rows not yet in the observation ledger
  emitted,    \* the last minute this response finalized
  budget      \* how often the environment interfered

files == <<log, journal, cursor>>
request == <<covered, response, unsaved, emitted>>
vars == <<now, provider, files, phase, poll, candidates, delivered, replayed,
          request, budget>>

-----------------------------------------------------------------------------
(* Observations and candidates.                                            *)

\* A candidate: value, last counted observation, and how many were counted.
\* Only "fewer than required" matters, so the count stops at Required.
NoCandidate == [value |-> 0, last |-> 0, poll |-> 0, count |-> 0]
Pending == {m \in Bars : candidates[m].count > 0}

NoEntry == [value |-> -1, at |-> 0, seen |-> 0]
Finalized == {m \in Bars : journal[m] # NoEntry}

\* Mutant: resume after the minute the cursor file names, which may lag behind
\* the journal.
LatestInCursor == cursor.delivered

\* Mutant: resume behind the end of the latest minute instead of its start.
EndOfLatest == IF Finalized = {} THEN NoMinute ELSE Max(Finalized) + 1

LatestFinalized == IF Finalized = {} THEN NoMinute ELSE Max(Finalized)

\* The minute has ended when it is observed.
End(m) == m * MinuteTicks
CompleteAt(m, time) == End(m) <= time

\* A bar that is still forming has a value of its own.
Partial == MaxRevisions + 1
Versions == 0..Partial
ValueAt(m, time) == IF CompleteAt(m, time) THEN provider[m] ELSE Partial

\* DelayedBarFinalizer.observe: what an observation makes of a candidate.
Counted(c, time, number) ==
  [c EXCEPT !.last = time, !.poll = number,
            !.count = IF c.count < Required THEN c.count + 1 ELSE c.count]

\* Mutant: a revision replaces the value and keeps the count.
ObservedKeepsCount(c, value, time, number) ==
  IF c.count = 0
    THEN [value |-> value, last |-> time, poll |-> number, count |-> 1]
  ELSE IF number # c.poll /\ time - c.last >= Spacing
    THEN [Counted(c, time, number) EXCEPT !.value = value]
  ELSE [c EXCEPT !.value = value]

Observed(c, value, time, number) ==
  IF c.count = 0 \/ c.value # value
    THEN [value |-> value, last |-> time, poll |-> number, count |-> 1]
  ELSE IF number # c.poll /\ time - c.last >= Spacing
    THEN Counted(c, time, number)
  ELSE c

\* Incomplete bars and minutes already behind the delivery point are ignored.
Admitted(m, time) == CompleteAt(m, time) /\ m > delivered

\* Mutant: rehydration replays rows that were recorded for audit only.
ReplaysAudited(r) == Admitted(r.minute, r.at)

\* Which recorded observations rehydration hands to the finalizer.
Replays(r) == r.eligible /\ Admitted(r.minute, r.at)

-----------------------------------------------------------------------------
(* Finalization.                                                           *)

Ready(m, time) ==
  /\ candidates[m].last <= time
  /\ candidates[m].count >= Required
  /\ time - End(m) >= MinimumAge

\* Every expected minute since the last delivered one is a candidate or was
\* classified by an operator.
\* Mutant: the scan starts one minute late.
GapScanStartsLate(m) ==
  \A g \in (delivered + 2)..(m - 1) : g \in Pending \union ClassifiedGaps

NoUnresolvedGap(m) ==
  \/ delivered = NoMinute
  \/ \A g \in (delivered + 1)..(m - 1) : g \in Pending \union ClassifiedGaps

\* Mutant: deliver whatever is ready, past an older candidate that is not.
DeliverableOutOfOrder(m, time) ==
  m \in Pending /\ Ready(m, time) /\ m > delivered /\ NoUnresolvedGap(m)

\* The loop over sorted candidates stops at the first that is not ready, passes
\* over those behind the delivery point, and delivers m next.
Deliverable(m, time) ==
  /\ m \in Pending /\ Ready(m, time) /\ m > delivered /\ NoUnresolvedGap(m)
  /\ \A p \in Pending : p < m => Ready(p, time) /\ p <= delivered

\* AppendOnlyFinalizationLedger.append ignores a row it already holds and raises
\* on a revision and out of order.
JournalHolds(m) == m \in Finalized /\ journal[m].value = candidates[m].value
JournalAccepts(m) == \A f \in Finalized : f < m

\* The journal row; seen is how many observations had been recorded by then,
\* which only the properties use.
JournalEntry(m) ==
  [value |-> candidates[m].value, at |-> response.at, seen |-> Len(log)]

-----------------------------------------------------------------------------
(* Requests and responses.                                                 *)

Started(time) == {m \in Bars : (m - 1) * MinuteTicks <= time}

\* recent_discovery: the last minutes up to the provider's delayed frontier.
DiscoveryResponses ==
  {[kind |-> "open", rows |-> rows, eligible |-> rows] :
     rows \in {1..f : f \in {0} \union Started(now)}}

\* bootstrap_backfill up to an exclusive end: a row exactly at the end is only
\* recorded.
BackfillResponses ==
  {[kind |-> "open", rows |-> 1..e, eligible |-> 1..(e - 1)] :
     e \in {m \in Bars : CompleteAt(m, now)}}

\* pending_confirmation: the window of the covered candidates, with the minutes
\* next to it that the provider may add.  Only covered minutes count.
ConfirmationResponses ==
  {[kind |-> "confirm", rows |-> rows, eligible |-> rows \intersect covered] :
     rows \in {Min(covered)..Max(covered),
               ((Min(covered) - 1)..(Max(covered) + 1)) \intersect Started(now)}}

Responses == IF phase = "open" THEN DiscoveryResponses \union BackfillResponses
             ELSE ConfirmationResponses

\* before: how many observations were recorded when the response arrived.
NoResponse == [kind |-> "open", rows |-> {}, eligible |-> {},
               values |-> [m \in Bars |-> 0], at |-> 0, before |-> 0]

-----------------------------------------------------------------------------
(* Start and restart.                                                      *)

Init ==
  /\ now = 0
  /\ provider = [m \in Bars |-> 0]
  /\ log = <<>>
  /\ journal = [m \in Bars |-> NoEntry]
  /\ cursor = [delivered |-> NoMinute, pending |-> {}]
  /\ phase = "down"
  /\ poll = 0
  /\ candidates = [m \in Bars |-> NoCandidate]
  /\ delivered = NoMinute
  /\ replayed = 0
  /\ covered = {} /\ response = NoResponse /\ unsaved = {} /\ emitted = NoMinute
  /\ budget = [revisions |-> 0, omissions |-> 0, crashes |-> 0]

\* DelayedBarFinalizer.__init__ with its journal; the poll number continues
\* after the largest recorded one.
Start ==
  /\ phase = "down"
  /\ phase' = "rehydrate"
  /\ delivered' = LatestFinalized
  /\ poll' = IF log = <<>> THEN 0 ELSE log[Len(log)].poll
  /\ UNCHANGED <<now, provider, files, candidates, replayed, request, budget>>

\* rehydrate_pending_from_observations, one record at a time.
Rehydrate ==
  /\ phase = "rehydrate"
  /\ replayed < Len(log)
  /\ replayed' = replayed + 1
  /\ LET r == log[replayed + 1] IN
       candidates' =
         IF Replays(r)
           THEN [candidates EXCEPT ![r.minute] =
                   Observed(candidates[r.minute], r.value, r.at, r.poll)]
           ELSE candidates
  /\ UNCHANGED <<now, provider, files, phase, poll, delivered, request, budget>>

\* pending_confirmation_starts rewrites the cursor from the live candidates.
Rehydrated ==
  /\ phase = "rehydrate"
  /\ replayed = Len(log)
  /\ cursor' = [cursor EXCEPT !.pending = Pending]
  /\ phase' = "subscribe"
  /\ UNCHANGED <<now, provider, log, journal, poll, candidates, delivered,
                 replayed, request, budget>>

\* begin_catchup, called by subscribe before the feed thread starts: without a
\* journal the delivery point is the Paper cursor.
Subscribe ==
  /\ phase = "subscribe"
  /\ delivered' = IF delivered = NoMinute THEN Cutoff ELSE delivered
  /\ phase' = "idle"
  /\ UNCHANGED <<now, provider, files, poll, candidates, replayed, request, budget>>

-----------------------------------------------------------------------------
(* One request cycle.                                                      *)

\* refresh up to the first request: the candidates to confirm are planned now,
\* the discovery or backfill request that may precede them answers first.
BeginCycle ==
  /\ phase = "idle"
  /\ poll < MaxPolls
  /\ poll' = poll + 1
  /\ covered' = Pending
  /\ cursor' = [cursor EXCEPT !.pending = Pending]
  /\ phase' \in {"open"} \union (IF Pending = {} THEN {} ELSE {"confirm"})
  /\ UNCHANGED <<now, provider, log, journal, candidates, delivered, replayed,
                 response, unsaved, emitted, budget>>

\* A response arrives, possibly without some of the minutes it should hold.
Respond ==
  /\ phase \in {"open", "confirm"}
  /\ \E r \in Responses, missing \in {{}} \union {{m} : m \in Bars} :
       /\ missing \subseteq r.rows
       /\ budget.omissions + Cardinality(missing) <= MaxOmissions
       /\ budget' = [budget EXCEPT !.omissions = @ + Cardinality(missing)]
       /\ response' = [kind |-> r.kind, rows |-> r.rows \ missing,
                       eligible |-> r.eligible \ missing,
                       values |-> [m \in Bars |-> ValueAt(m, now)],
                       at |-> now, before |-> Len(log)]
       /\ unsaved' = r.rows \ missing
  /\ phase' = "append"
  /\ UNCHANGED <<now, provider, files, poll, candidates, delivered, replayed,
                 covered, emitted>>

\* A disconnect, a pacing refusal or no data: the cycle ends.
RequestFails ==
  /\ phase \in {"open", "confirm"}
  /\ phase' = "idle"
  /\ covered' = {}
  /\ UNCHANGED <<now, provider, files, poll, candidates, delivered, replayed,
                 response, unsaved, emitted, budget>>

\* AppendOnlyBarObservationLedger.append, one fsynced row in exchange order.
AppendObservation ==
  /\ phase = "append"
  /\ \E m \in unsaved :
       /\ \A n \in unsaved : m <= n
       /\ unsaved' = unsaved \ {m}
       /\ log' = Append(log, [minute |-> m, value |-> response.values[m],
                              at |-> response.at, poll |-> poll,
                              eligible |-> m \in response.eligible])
  /\ UNCHANGED <<now, provider, journal, cursor, phase, poll, candidates,
                 delivered, replayed, covered, response, emitted, budget>>

\* The finalizer observes the recorded rows; there is one per minute.
ObserveResponse ==
  /\ phase = "append"
  /\ unsaved = {}
  /\ candidates' =
       [m \in Bars |->
          IF m \in response.eligible /\ Admitted(m, response.at)
            THEN Observed(candidates[m], response.values[m], response.at, poll)
            ELSE candidates[m]]
  /\ phase' = "finalize"
  /\ UNCHANGED <<now, provider, files, poll, delivered, replayed, request, budget>>

\* One iteration of finalize_ready that delivers: journal first, memory after.
\* A refusal of the journal is an exception that ends the feed.
FinalizeOne ==
  /\ phase = "finalize"
  /\ \E m \in Bars :
       /\ Deliverable(m, response.at)
       /\ IF JournalHolds(m) \/ JournalAccepts(m)
            THEN /\ journal' = IF JournalHolds(m) THEN journal
                               ELSE [journal EXCEPT ![m] = JournalEntry(m)]
                 /\ delivered' = m
                 /\ candidates' = [candidates EXCEPT ![m] = NoCandidate]
                 /\ emitted' = m
                 /\ UNCHANGED phase
            ELSE /\ phase' = "failed"
                 /\ UNCHANGED <<journal, delivered, candidates, emitted>>
  /\ UNCHANGED <<now, provider, log, cursor, poll, replayed, covered, response,
                 unsaved, budget>>

\* finalize_ready returns; ingest_response saves the cursor last.
SaveCursor ==
  /\ phase = "finalize"
  /\ \A m \in Bars : ~Deliverable(m, response.at)
  /\ cursor' = [delivered |-> IF emitted = NoMinute THEN cursor.delivered ELSE emitted,
                pending |-> Pending]
  /\ LET confirming == response.kind = "open" /\ covered # {} IN
       /\ phase' = IF confirming THEN "confirm" ELSE "idle"
       /\ covered' = IF confirming THEN covered ELSE {}
  /\ response' = NoResponse /\ emitted' = NoMinute
  /\ UNCHANGED <<now, provider, log, journal, poll, candidates, delivered,
                 replayed, unsaved, budget>>

-----------------------------------------------------------------------------
(* The environment.  The clock and the provider are read only when a       *)
(* response arrives, so it is enough that they change between responses.   *)

Waiting == phase \in {"idle", "open", "confirm"}

Tick ==
  /\ Waiting
  /\ now < MaxTime
  /\ now' = now + 1
  /\ UNCHANGED <<provider, files, phase, poll, candidates, delivered, replayed,
                 request, budget>>

\* The provider revises a complete minute.
Revise ==
  /\ Waiting
  /\ budget.revisions < MaxRevisions
  /\ budget' = [budget EXCEPT !.revisions = @ + 1]
  /\ \E m \in Bars : CompleteAt(m, now) /\ provider' = [provider EXCEPT ![m] = @ + 1]
  /\ UNCHANGED <<now, files, phase, poll, candidates, delivered, replayed, request>>

\* The process dies: memory is lost, the files stay.
Crash ==
  /\ phase # "down"
  /\ budget.crashes < MaxCrashes
  /\ budget' = [budget EXCEPT !.crashes = @ + 1]
  /\ phase' = "down"
  /\ poll' = 0
  /\ candidates' = [m \in Bars |-> NoCandidate]
  /\ delivered' = NoMinute
  /\ replayed' = 0
  /\ covered' = {} /\ response' = NoResponse /\ unsaved' = {} /\ emitted' = NoMinute
  /\ UNCHANGED <<now, provider, files>>

Next ==
  \/ Start \/ Rehydrate \/ Rehydrated \/ Subscribe
  \/ BeginCycle \/ Respond \/ RequestFails
  \/ AppendObservation \/ ObserveResponse
  \/ FinalizeOne \/ SaveCursor
  \/ Tick \/ Revise \/ Crash

Spec == Init /\ [][Next]_vars

-----------------------------------------------------------------------------
(* Properties.                                                             *)

Phases == {"down", "rehydrate", "subscribe", "idle", "open", "confirm",
           "append", "finalize", "failed"}
Observation == [minute : Bars, value : Versions, at : Nat, poll : Nat,
                eligible : BOOLEAN]
Candidate == [value : Versions, last : Nat, poll : Nat, count : 0..Required]
Entry == [value : Versions, at : Nat, seen : Nat] \union {NoEntry}

SavedCursors == [delivered : Bars \union {NoMinute}, pending : SUBSET Bars]
ResponseRecords ==
  [kind : {"open", "confirm"}, rows : SUBSET Bars, eligible : SUBSET Bars,
   values : [Bars -> Versions], at : Nat, before : Nat]
Budgets == [revisions : 0..MaxRevisions, omissions : 0..MaxOmissions,
            crashes : 0..MaxCrashes]

EnvironmentTypes ==
  now \in Nat /\ provider \in [Bars -> 0..MaxRevisions] /\ budget \in Budgets
FileTypes ==
  log \in Seq(Observation) /\ journal \in [Bars -> Entry] /\ cursor \in SavedCursors
FinalizerTypes ==
  /\ candidates \in [Bars -> Candidate]
  /\ delivered \in Bars \union {NoMinute, 0}
  /\ replayed \in 0..Len(log)
CycleTypes ==
  /\ phase \in Phases /\ poll \in Nat
  /\ covered \in SUBSET Bars /\ response \in ResponseRecords
  /\ unsaved \in SUBSET Bars /\ emitted \in Bars \union {NoMinute}

\* Every variable stays in its domain.
TypeOK == EnvironmentTypes /\ FileTypes /\ FinalizerTypes /\ CycleTypes

\* An observation that counted towards minute m: eligible and complete.
Counts(i, m) == log[i].minute = m /\ log[i].eligible /\ CompleteAt(m, log[i].at)

\* Every finalized value was observed in two different polls, far enough apart,
\* with no other value of the minute recorded since, and old enough: whatever
\* revisions, omissions and restarts came between (observe, finalize_ready and
\* rehydrate_pending_from_observations together).
FinalizedIsStable ==
  \A m \in Finalized :
    /\ journal[m].at - End(m) >= MinimumAge
    /\ \E i, j \in 1..Len(log) :
         /\ i < j /\ j <= journal[m].seen
         /\ Counts(i, m) /\ Counts(j, m)
         /\ log[i].poll # log[j].poll /\ log[j].at - log[i].at >= Spacing
         /\ \A k \in i..Len(log) :
              k <= journal[m].seen /\ Counts(k, m) => log[k].value = journal[m].value

\* Acquisition implements the ordered stream of finalized minutes the delivery
\* side relies on: AppendOnlyFinalizationLedger never has a hole, an order
\* violation or a rewritten minute, across restarts.
Stream == INSTANCE FinalizedStream
            WITH Values <- Versions, Absent <- -1,
                 stream <- [m \in Bars |-> journal[m].value]
ImplementsStream == Stream!Spec

\* What the finalizer remembers is never behind its journal: no minute it is
\* about to deliver is one that AppendOnlyFinalizationLedger.append would refuse,
\* or would skip as a repetition while it is emitted a second time.
JournalTakesEveryOffer ==
  phase = "finalize" =>
    \A m \in Bars : Deliverable(m, response.at) => JournalAccepts(m)

\* The candidates a restart would rebuild from the observations recorded so far.
Replay[i \in Nat] ==
  IF i = 0 THEN [m \in Bars |-> NoCandidate]
  ELSE LET before == Replay[i - 1]
           r == log[i]
       IN IF Replays(r)
            THEN [before EXCEPT ![r.minute] =
                    Observed(before[r.minute], r.value, r.at, r.poll)]
            ELSE before

\* Between cycles, a process that crashed and restarted would hold exactly the
\* candidates beyond the delivery point that the running one holds: ingestion
\* in memory and rehydration from the ledger agree.
RestartLosesNothing ==
  phase = "idle" => \A m \in Bars : m > delivered => candidates[m] = Replay[Len(log)][m]

=============================================================================
