------------------------- MODULE OutageRecoveryProofs -------------------------
(***************************************************************************)
(* Proofs about OutageRecovery, for every number of minutes, outages,      *)
(* troubles and restarts and every set of closed minutes: the backfill     *)
(* leaves no hole behind its cursor, every pending minute belongs to a     *)
(* group that gets its turn, and delays, turns and cursors keep their      *)
(* bounds.                                                                 *)
(***************************************************************************)
EXTENDS OutageRecovery, NaturalSets

USE MinutesAssumption

-----------------------------------------------------------------------------
(* The inductive invariant.                                                *)

CursorTypes ==
  /\ frontier \in 0..Minutes
  /\ seen \subseteq 1..Minutes /\ stable \subseteq seen
  /\ delivered \in 0..Minutes
  /\ next \in 1..(Minutes + 1) /\ target \in 0..(Minutes + 1)
  /\ complete \in BOOLEAN
  /\ covered \subseteq seen

\* A backfill is only asked for while the catch-up lasts.
BackfillIsOpen == feed = "backfill" => ~complete

CursorInv == CursorTypes /\ BackfillIsOpen /\ BackfillLeavesNoHole

LEMMA CursorInit == Init => CursorInv
<1> SUFFICES ASSUME Init PROVE CursorInv
  OBVIOUS
<1>1. /\ frontier = 0 /\ seen = {} /\ stable = {} /\ delivered = 0 /\ next = 1
      /\ target = 0 /\ complete = FALSE /\ covered = {} /\ feed = "idle"
  BY DEF Init
<1>2. Open(delivered + 1, next - 1) = {}
  BY <1>1 DEF Open
<1>3. CursorTypes
  <2>1. complete \in BOOLEAN
    BY <1>1, Zenon
  <2>2. /\ frontier \in 0..Minutes /\ delivered \in 0..Minutes
        /\ next \in 1..(Minutes + 1) /\ target \in 0..(Minutes + 1)
    BY <1>1
  <2>3. QED
    BY <1>1, <2>1, <2>2, Zenon DEF CursorTypes
<1>4. QED
  BY <1>1, <1>2, <1>3 DEF CursorInv, BackfillIsOpen, BackfillLeavesNoHole

-----------------------------------------------------------------------------
(* The helpers of the steps.                                               *)

LEMMA OpenShrinks ==
  ASSUME NEW a \in Nat, NEW b \in Nat, NEW c \in Int, a <= b
  PROVE  Open(b + 1, c) \subseteq Open(a + 1, c)
BY DEF Open

\* The first open minute from m on: nothing open lies before it.
LEMMA OpenFromIsFirst ==
  ASSUME NEW m \in Nat, NEW limit \in Nat
  PROVE  /\ OpenFrom(m, limit) \in Open(m, limit) \union {limit}
         /\ OpenFrom(m, limit) <= limit
         /\ Open(m, OpenFrom(m, limit) - 1) = {}
<1> DEFINE S == Open(m, limit) \union {limit}
<1>1. S \in SUBSET Nat /\ S # {}
  BY DEF Open
<1>2. Min(S) \in S /\ \A y \in S : Min(S) <= y
  BY <1>1, MinOfNaturals
<1>3. OpenFrom(m, limit) = Min(S)
  BY DEF OpenFrom
<1> HIDE DEF S
<1>4. Min(S) \in Nat /\ Min(S) <= limit
  BY <1>1, <1>2 DEF S
<1>5. Open(m, Min(S) - 1) = {}
  <2>1. SUFFICES ASSUME NEW y \in Open(m, Min(S) - 1) PROVE FALSE
    OBVIOUS
  <2>2. y \in Int /\ y < Min(S) /\ y \in Open(m, limit)
    BY <2>1, <1>4 DEF Open
  <2>3. QED
    BY <2>2, <1>2, <1>4 DEF S
<1>6. QED
  BY <1>2, <1>3, <1>4, <1>5 DEF S

\* What is recorded stays recorded, and the delivery point does not move back.
LEMMA IngestGrows ==
  ASSUME CursorTypes, NEW rows \in SUBSET (1..Minutes), Ingest(rows)
  PROVE  /\ seen' \subseteq 1..Minutes /\ stable' \subseteq seen'
         /\ seen' = seen \union rows
         /\ delivered' \in 0..Minutes /\ delivered <= delivered'
<1>1. /\ seen' = seen \union rows /\ seen' \subseteq 1..Minutes
      /\ stable' \subseteq seen'
  BY DEF Ingest, CursorTypes
<1> DEFINE S == {delivered} \union
                {m \in stable' : Open(delivered + 1, m) \subseteq stable'}
<1>2. S \in SUBSET (0..Minutes) /\ S # {} /\ delivered \in S
  <2>1. delivered \in 0..Minutes /\ 1..Minutes \subseteq 0..Minutes
    BY DEF CursorTypes
  <2>2. stable' \subseteq 0..Minutes
    BY <1>1, <2>1
  <2>3. QED
    BY <2>1, <2>2, Zenon
<1>3. Max(S) \in S /\ \A y \in S : y <= Max(S)
  BY <1>2, MaxOfInterval
<1>4. delivered' = Max(S)
  BY DEF Ingest, Finalize
<1> HIDE DEF S
<1>5. QED
  BY <1>1, <1>2, <1>3, <1>4

\* A catch-up begun anew begins at the first minute not delivered.
LEMMA BeginKeepsCursor ==
  ASSUME CursorInv, BeginCatchup
  PROVE  /\ next' \in 1..(Minutes + 1) /\ target' \in 0..(Minutes + 1)
         /\ complete' \in BOOLEAN
         /\ ~complete' => Open(delivered + 1, next' - 1) \subseteq seen
<1>1. CASE complete \/ next <= delivered
  <2>1. next' = delivered + 1 /\ target' = 0 /\ complete' = FALSE
    BY <1>1 DEF BeginCatchup
  <2>2. Open(delivered + 1, next' - 1) = {}
    BY <2>1 DEF Open, CursorInv, CursorTypes
  <2>3. delivered + 1 \in 1..(Minutes + 1) /\ 0 \in 0..(Minutes + 1)
    BY DEF CursorInv, CursorTypes
  <2>4. QED
    BY <2>1, <2>2, <2>3
<1>2. CASE ~(complete \/ next <= delivered)
  BY <1>2 DEF BeginCatchup, backfill, CursorInv, CursorTypes, BackfillLeavesNoHole
<1>3. QED
  BY <1>1, <1>2

\* Skipping a closure passes no open minute.
LEMMA AdvanceKeepsCursor ==
  ASSUME CursorInv, Advance
  PROVE  /\ next' \in 1..(Minutes + 1) /\ target' = target
         /\ complete' \in BOOLEAN
         /\ ~complete' => ~complete /\ Open(delivered + 1, next' - 1) \subseteq seen
<1> DEFINE limit == IF target = 0 THEN Minutes + 1 ELSE target
<1>1. limit \in 1..(Minutes + 1) /\ next \in 1..(Minutes + 1)
  BY DEF CursorInv, CursorTypes
<1>2. SkipTo = OpenFrom(next, limit)
  BY DEF SkipTo
<1> HIDE DEF limit
<1>3. /\ SkipTo \in Open(next, limit) \union {limit} /\ SkipTo <= limit
      /\ Open(next, SkipTo - 1) = {}
  BY <1>1, <1>2, OpenFromIsFirst
<1>4. SkipTo \in 1..(Minutes + 1)
  BY <1>1, <1>3 DEF Open
<1>5. /\ next' = IF complete THEN next ELSE SkipTo
      /\ complete' = (complete \/ Reached) /\ target' = target
  BY DEF Advance
<1>6. complete \in BOOLEAN /\ Reached \in BOOLEAN
  BY DEF CursorInv, CursorTypes, Reached
<1>7. ASSUME ~complete PROVE Open(delivered + 1, SkipTo - 1) \subseteq seen
  <2>1. SUFFICES ASSUME NEW m \in Open(delivered + 1, SkipTo - 1)
                 PROVE  m \in seen
    OBVIOUS
  <2>2. m \in Int /\ delivered + 1 <= m /\ m <= SkipTo - 1 /\ m \notin Closed
    BY <1>4 DEF Open, CursorInv, CursorTypes
  <2>3. CASE m < next
    <3>1. m \in Open(delivered + 1, next - 1)
      BY <1>1, <2>2, <2>3 DEF Open, CursorInv, CursorTypes
    <3>2. QED
      BY <1>7, <3>1 DEF CursorInv, BackfillLeavesNoHole
  <2>4. CASE m >= next
    <3>1. m \in Open(next, SkipTo - 1)
      BY <1>1, <1>4, <2>2, <2>4 DEF Open
    <3>2. QED
      BY <1>3, <3>1
  <2>5. QED
    BY <1>1, <2>2, <2>3, <2>4
<1>8. QED
  BY <1>1, <1>4, <1>5, <1>6, <1>7

\* A confirmation asks for minutes that were observed.
LEMMA ConfirmCovers ==
  ASSUME CursorInv, NEW catchup \in BOOLEAN, Confirm(catchup)
  PROVE  covered' \subseteq seen
BY DEF Confirm, Group, Pending

-----------------------------------------------------------------------------
(* The steps.                                                              *)

\* Steps that leave cursor and ledgers alone and ask for nothing.
LEMMA QuietStep ==
  ASSUME CursorInv,
         \/ Held \/ ReconnectFails \/ Reconnect \/ Linked \/ WaitForPacer \/ Defer
         \/ Refused \/ WatchdogStep \/ Commit \/ Tick \/ GoDown \/ ComeBack
         \/ UNCHANGED vars
  PROVE  CursorInv'
<1>1. /\ frontier' = frontier /\ UNCHANGED <<minutes, backfill, covered>>
      /\ feed' = feed \/ feed' # "backfill"
  BY DEF Held, ReconnectFails, Reconnect, Linked, WaitForPacer, Defer, Refused,
         WatchdogStep, Healthy, Recheck, CloseOutage, Commit, Tick, GoDown, ComeBack,
         CycleReturns, vars, provider, minutes, backfill, link, asked, source
<1>2. QED
  BY <1>1 DEF CursorInv, CursorTypes, BackfillIsOpen, BackfillLeavesNoHole, Open,
              minutes, backfill

LEMMA PublishStep == CursorInv /\ Publish => CursorInv'
BY DEF Publish, CursorInv, CursorTypes, BackfillIsOpen, BackfillLeavesNoHole, Open,
       minutes, backfill, asked

LEMMA PlanStep ==
  ASSUME CursorInv, Plan \/ PacerRefuses
  PROVE  CursorInv'
<1>1. Advance /\ Confirm(~complete')
  BY DEF Plan, PacerRefuses
<1>2. UNCHANGED <<minutes, provider>>
  BY DEF Plan, PacerRefuses
<1>3. feed' = "backfill" => ~complete'
  BY DEF Plan, PacerRefuses
<1>4. covered' \subseteq seen
  BY <1>1, AdvanceKeepsCursor, ConfirmCovers
<1>5. QED
  BY <1>1, <1>2, <1>3, <1>4, AdvanceKeepsCursor
  DEF CursorInv, CursorTypes, BackfillIsOpen, BackfillLeavesNoHole, Open, minutes,
      provider

\* An answer adds to what was observed; the end of the cycle follows, or the
\* confirmation.
LEMMA AnswerKeepsCursor ==
  ASSUME CursorInv, NEW rows \in SUBSET (1..Minutes), Ingest(rows),
         next' = next, complete' = complete, target' \in 0..(Minutes + 1),
         UNCHANGED <<frontier, covered>>, feed' # "backfill"
  PROVE  CursorInv'
<1>1. /\ seen' \subseteq 1..Minutes /\ stable' \subseteq seen'
      /\ seen' = seen \union rows
      /\ delivered' \in 0..Minutes /\ delivered <= delivered'
  BY IngestGrows DEF CursorInv
<1>2. Open(delivered' + 1, next - 1) \subseteq Open(delivered + 1, next - 1)
  <2>1. delivered \in Nat /\ delivered' \in Nat /\ next - 1 \in Int
    BY <1>1 DEF CursorInv, CursorTypes
  <2>2. QED
    BY <1>1, <2>1, OpenShrinks, Zenon
<1>3. BackfillLeavesNoHole'
  BY <1>1, <1>2 DEF CursorInv, BackfillLeavesNoHole, Open
<1>4. QED
  BY <1>1, <1>3 DEF CursorInv, CursorTypes, BackfillIsOpen

LEMMA DiscoveredStep == CursorInv /\ Discovered => CursorInv'
<1> SUFFICES ASSUME CursorInv, Discovered PROVE CursorInv'
  OBVIOUS
<1> DEFINE from == Max({1, frontier - Reach + 1})
           rows == Open(from, frontier)
           fresh == {m \in rows : m >= next}
<1>1. /\ Ingest(rows)
      /\ target' = IF ~complete /\ fresh # {} THEN Max(fresh) + 1 ELSE target
  BY DEF Discovered
<1>2. /\ next' = next /\ complete' = complete /\ UNCHANGED <<frontier, covered>>
      /\ feed' # "backfill"
  BY DEF Discovered, Continue, EndOfCycle, CycleReturns, provider, asked
<1>3. /\ frontier \in 0..Minutes /\ next \in 1..(Minutes + 1)
      /\ Minutes \in Nat /\ Reach \in Nat \ {0} /\ frontier - Reach + 1 \in Int
  BY DEF CursorInv, CursorTypes
<1>4. rows \in SUBSET (1..Minutes)
  <2>1. CASE frontier - Reach + 1 >= 1
    <3>1. {1, frontier - Reach + 1} \in SUBSET (0..Minutes)
      BY <1>3, <2>1
    <3>2. from \in {1, frontier - Reach + 1}
      BY <3>1, MaxOfInterval
    <3>3. QED
      BY <1>3, <2>1, <3>2 DEF Open
  <2>2. CASE frontier - Reach + 1 < 1
    <3>1. \A y \in {1, frontier - Reach + 1} : y <= 1
      BY <1>3, <2>2
    <3>2. \A x \in {1, frontier - Reach + 1} :
            (\A y \in {1, frontier - Reach + 1} : y <= x) <=> x = 1
      BY <1>3, <2>2
    <3>3. from \in {1, frontier - Reach + 1}
      BY <3>1, Zenon DEF Max
    <3>4. \A y \in {1, frontier - Reach + 1} : y <= from
      BY <3>1, Zenon DEF Max
    <3>5. from = 1
      BY <3>2, <3>3, <3>4
    <3>6. QED
      BY <1>3, <3>5 DEF Open
  <2>3. QED
    BY <1>3, <2>1, <2>2
<1>5. target' \in 0..(Minutes + 1)
  <2>1. CASE ~complete /\ fresh # {}
    <3>1. fresh \in SUBSET (0..Minutes)
      BY <1>4
    <3>2. Max(fresh) \in fresh
      BY <2>1, <3>1, MaxOfInterval
    <3>3. Max(fresh) \in 0..Minutes
      BY <3>1, <3>2
    <3>4. target' = Max(fresh) + 1
      BY <1>1, <2>1
    <3>5. QED
      BY <1>3, <3>3, <3>4
  <2>2. CASE ~(~complete /\ fresh # {})
    BY <1>1, <2>2 DEF CursorInv, CursorTypes
  <2>3. QED
    BY <2>1, <2>2
<1> HIDE DEF rows, fresh
<1>6. QED
  BY <1>1, <1>2, <1>4, <1>5, AnswerKeepsCursor

LEMMA ConfirmedStep == CursorInv /\ Confirmed => CursorInv'
<1> SUFFICES ASSUME CursorInv, Confirmed PROVE CursorInv'
  OBVIOUS
<1>1. covered \in SUBSET (1..Minutes) /\ Ingest(covered)
  BY DEF Confirmed, CursorInv, CursorTypes
<1>2. /\ next' = next /\ complete' = complete /\ target' = target
      /\ UNCHANGED <<frontier, covered>> /\ feed' # "backfill"
  BY DEF Confirmed, EndOfCycle, CycleReturns, provider, backfill, asked
<1>3. target' \in 0..(Minutes + 1)
  BY <1>2 DEF CursorInv, CursorTypes
<1>4. QED
  BY <1>1, <1>2, <1>3, AnswerKeepsCursor

\* The cursor moves over the rows received and nothing else.
LEMMA BackfilledStep == CursorInv /\ Backfilled => CursorInv'
<1> SUFFICES ASSUME CursorInv, Backfilled PROVE CursorInv'
  OBVIOUS
<1> DEFINE end == Min({next + Reach, target})
<1>1. PICK last \in Open(next, end - 1) :
        /\ Ingest(Open(next, last))
        /\ next' = last + 1 /\ complete' = (next' >= target)
  BY DEF Backfilled, BehindLast
<1>2. /\ ~complete /\ target' = target /\ UNCHANGED <<frontier, covered>>
      /\ feed' # "backfill"
  BY DEF Backfilled, Continue, EndOfCycle, CycleReturns, provider, asked, CursorInv,
         BackfillIsOpen
<1>3. /\ next \in 1..(Minutes + 1) /\ target \in 0..(Minutes + 1)
      /\ delivered \in 0..Minutes
  BY DEF CursorInv, CursorTypes
<1>4. end \in Nat /\ end <= target
  <2>1. {next + Reach, target} \in SUBSET Nat
    BY <1>3
  <2>2. QED
    BY <2>1, MinOfNaturals
<1> HIDE DEF end
<1>5. last \in Int /\ next <= last /\ last <= end - 1
  BY <1>3, <1>4 DEF Open
<1>6. last \in 1..Minutes /\ next' \in 1..(Minutes + 1)
  BY <1>1, <1>3, <1>4, <1>5
<1>7. Open(next, last) \in SUBSET (1..Minutes)
  BY <1>3, <1>6 DEF Open
<1>8. /\ seen' \subseteq 1..Minutes /\ stable' \subseteq seen'
      /\ seen' = seen \union Open(next, last)
      /\ delivered' \in 0..Minutes /\ delivered <= delivered'
  BY <1>1, <1>7, IngestGrows DEF CursorInv
<1>9. Open(delivered' + 1, next' - 1) \subseteq seen'
  <2>1. SUFFICES ASSUME NEW m \in Open(delivered' + 1, next' - 1)
                 PROVE  m \in seen'
    OBVIOUS
  <2>2. m \in Int /\ delivered + 1 <= m /\ m <= last /\ m \notin Closed
    <3>1. m \in Open(delivered' + 1, last)
      <4>1. next' - 1 = last
        BY <1>1, <1>5
      <4>2. QED
        BY <4>1
    <3>2. delivered \in Nat /\ delivered' \in Nat /\ last \in Int
      BY <1>3, <1>6, <1>8
    <3>3. m \in Open(delivered + 1, last)
      BY <1>8, <3>1, <3>2, OpenShrinks, Zenon
    <3>4. QED
      BY <3>2, <3>3 DEF Open
  <2>3. CASE m < next
    <3>1. m \in Open(delivered + 1, next - 1)
      BY <1>3, <2>2, <2>3 DEF Open
    <3>2. QED
      BY <1>2, <1>8, <3>1 DEF CursorInv, BackfillLeavesNoHole
  <2>4. CASE m >= next
    <3>1. m \in Open(next, last)
      BY <1>3, <1>6, <2>2, <2>4 DEF Open
    <3>2. QED
      BY <1>8, <3>1
  <2>5. QED
    BY <1>3, <2>2, <2>3, <2>4
<1>10. BackfillLeavesNoHole'
  BY <1>9 DEF BackfillLeavesNoHole, Open
<1>11. QED
  BY <1>1, <1>2, <1>6, <1>8, <1>10 DEF CursorInv, CursorTypes, BackfillIsOpen

\* Steps that may begin the catch-up anew.
LEMMA BeginStep ==
  ASSUME CursorInv, TransportLost \/ Troubled \/ Restart
  PROVE  CursorInv'
<1>1. BeginCatchup \/ UNCHANGED backfill
  BY DEF TransportLost, Troubled, Restart
<1>2. /\ UNCHANGED <<minutes, frontier>> /\ feed' # "backfill"
      /\ covered' = covered \/ covered' = {}
  BY DEF TransportLost, Troubled, Restart, CycleReturns, provider, asked
<1>3. /\ next' \in 1..(Minutes + 1) /\ target' \in 0..(Minutes + 1)
      /\ complete' \in BOOLEAN
      /\ ~complete' => Open(delivered + 1, next' - 1) \subseteq seen
  <2>1. CASE BeginCatchup
    BY <2>1, BeginKeepsCursor
  <2>2. CASE UNCHANGED backfill
    BY <2>2 DEF backfill, CursorInv, CursorTypes, BackfillLeavesNoHole
  <2>3. QED
    BY <1>1, <2>1, <2>2
<1>4. QED
  BY <1>2, <1>3 DEF CursorInv, CursorTypes, BackfillIsOpen, BackfillLeavesNoHole, Open,
                    minutes

LEMMA CursorStep == CursorInv /\ [Next]_vars => CursorInv'
<1> SUFFICES ASSUME CursorInv, [Next]_vars PROVE CursorInv'
  OBVIOUS
<1>1. CASE Plan \/ PacerRefuses
  BY <1>1, PlanStep
<1>2. CASE Discovered
  BY <1>2, DiscoveredStep
<1>3. CASE Backfilled
  BY <1>3, BackfilledStep
<1>4. CASE Confirmed
  BY <1>4, ConfirmedStep
<1>5. CASE TransportLost \/ Troubled \/ Restart
  BY <1>5, BeginStep
<1>6. CASE Publish
  BY <1>6, PublishStep
<1>7. CASE \/ Held \/ ReconnectFails \/ Reconnect \/ Linked \/ WaitForPacer \/ Defer
           \/ Refused \/ WatchdogStep \/ Commit \/ Tick \/ GoDown \/ ComeBack
           \/ UNCHANGED vars
  BY <1>7, QuietStep
<1>8. QED
  BY <1>1, <1>2, <1>3, <1>4, <1>5, <1>6, <1>7 DEF Next, FeedStep

\* The backfill never moves past an open minute it did not receive, however often
\* it is begun anew and however early a response ends (ibkr_paper_runner.py).
THEOREM BackfillLeavesNoHoleCorrect == Spec => []BackfillLeavesNoHole
<1>1. CursorInv => BackfillLeavesNoHole
  BY DEF CursorInv
<1>2. QED
  BY CursorInit, CursorStep, <1>1, PTL DEF Spec

-----------------------------------------------------------------------------
(* The groups a confirmation asks for.  GroupStarts is computed by a       *)
(* recursive function: that there is one is shown first, from the last     *)
(* minute backwards.                                                       *)

\* The starts of the groups from m on, when g has those of later minutes.
Later(P, m) == {p \in P : p >= m}
StartsStep(P, g, m) ==
  IF Later(P, m) = {} THEN {} ELSE {Min(Later(P, m))} \union g[Min(Later(P, m)) + Reach]

Steps == 1..(Minutes + Reach)
Starts(P, g) == g = [m \in Steps |-> StartsStep(P, g, m)]

\* The next group begins at or after m, and the one behind it later than m.
LEMMA LaterFacts ==
  ASSUME NEW P \in SUBSET (1..Minutes), NEW m \in Nat, Later(P, m) # {}
  PROVE  /\ Min(Later(P, m)) \in P /\ m <= Min(Later(P, m))
         /\ \A p \in P : p >= m => Min(Later(P, m)) <= p
         /\ Min(Later(P, m)) + Reach \in Steps /\ m < Min(Later(P, m)) + Reach
<1>1. \A p \in P : p \in Nat /\ p <= Minutes
  OBVIOUS
<1>2. Later(P, m) \in SUBSET Nat
  BY <1>1 DEF Later
<1>3. Min(Later(P, m)) \in Later(P, m) /\ \A y \in Later(P, m) : Min(Later(P, m)) <= y
  BY <1>2, MinOfNaturals
<1>4. PICK first \in P : /\ first = Min(Later(P, m)) /\ first >= m
                         /\ \A p \in P : p >= m => first <= p
  BY <1>3, Zenon DEF Later
<1>5. first + Reach \in 1..(Minutes + Reach) /\ m < first + Reach /\ m <= first
  BY <1>1, <1>4
<1>6. QED
  BY <1>4, <1>5 DEF Steps

LEMMA StartsExist ==
  ASSUME NEW P \in SUBSET (1..Minutes)
  PROVE  \E g : Starts(P, g)
<1> DEFINE From(g, n) ==
             g = [m \in Steps |-> IF m + n > Minutes + Reach THEN StartsStep(P, g, m) ELSE {}]
           T == {n \in Nat : \E g : From(g, n)}
<1>1. 0 \in T
  <2>1. PICK g : g = [m \in Steps |-> {}]
    OBVIOUS
  <2>2. From(g, 0)
    BY <2>1 DEF Steps
  <2> HIDE DEF From
  <2>3. QED
    BY <2>2
<1>2. ASSUME NEW n \in Nat, n \in T PROVE n + 1 \in T
  <2>1. PICK g : From(g, n)
    BY <1>2
  <2>2. PICK h : h = [m \in Steps |-> IF m + (n + 1) > Minutes + Reach
                                        THEN StartsStep(P, g, m) ELSE {}]
    OBVIOUS
  <2>3. ASSUME NEW m \in Steps, m + (n + 1) > Minutes + Reach
        PROVE  StartsStep(P, g, m) = StartsStep(P, h, m)
    <3>1. CASE Later(P, m) = {}
      BY <3>1 DEF StartsStep
    <3>2. CASE Later(P, m) # {}
      <4>1. m \in Nat
        BY DEF Steps
      <4>2. PICK k \in Steps : k = Min(Later(P, m)) + Reach /\ m < k
        BY <3>2, <4>1, LaterFacts
      <4>3. k + n > Minutes + Reach /\ k + (n + 1) > Minutes + Reach
        BY <2>3, <4>1, <4>2 DEF Steps
      <4>4. g[k] = StartsStep(P, g, k) /\ h[k] = StartsStep(P, g, k)
        BY <2>1, <2>2, <4>3
      <4>5. QED
        BY <3>2, <4>2, <4>4 DEF StartsStep
    <3>3. QED
      BY <3>1, <3>2
  <2>4. From(h, n + 1)
    BY <2>2, <2>3
  <2> HIDE DEF From
  <2>5. QED
    BY <2>4
<1>3. \A n \in Nat : n \in T
  <2> HIDE DEF T
  <2>1. QED
    BY <1>1, <1>2, InductionOnSet
<1>4. PICK g : From(g, Minutes + Reach)
  <2>1. Minutes + Reach \in Nat
    OBVIOUS
  <2> HIDE DEF From
  <2>2. QED
    BY <1>3, <2>1
<1>5. Starts(P, g)
  BY <1>4 DEF Starts, Steps
<1>6. QED
  BY <1>5

\* Groups start at pending minutes, and every pending minute lies in one.
LEMMA StartsFacts ==
  ASSUME NEW P \in SUBSET (1..Minutes), NEW g, Starts(P, g)
  PROVE  /\ g[1] \subseteq P
         /\ \A p \in P : \E s \in g[1] : s <= p /\ p < s + Reach
<1> DEFINE Good(m) == /\ g[m] \subseteq P
                      /\ \A p \in P : p >= m => \E s \in g[m] : s <= p /\ p < s + Reach
           T == {n \in Nat : \A m \in Steps : m + n > Minutes + Reach => Good(m)}
<1>1. 0 \in T
  BY DEF Steps
<1>2. ASSUME NEW n \in Nat, n \in T PROVE n + 1 \in T
  <2>1. ASSUME NEW m \in Steps, m + (n + 1) > Minutes + Reach
        PROVE  Good(m)
    <3>1. g[m] = StartsStep(P, g, m) /\ m \in Nat
      BY DEF Starts, Steps
    <3>2. CASE Later(P, m) = {}
      BY <3>1, <3>2 DEF StartsStep, Later
    <3>3. CASE Later(P, m) # {}
      <4>1. PICK first \in P : /\ first = Min(Later(P, m)) /\ m <= first
                               /\ \A p \in P : p >= m => first <= p
                               /\ first + Reach \in Steps /\ m < first + Reach
        BY <3>1, <3>3, LaterFacts
      <4>2. PICK k \in Steps : k = first + Reach
        BY <4>1
      <4>3. k + n > Minutes + Reach
        BY <2>1, <3>1, <4>1, <4>2 DEF Steps
      <4>4. Good(k)
        BY <1>2, <4>3
      <4>5. g[m] = {first} \union g[k]
        BY <3>1, <3>3, <4>1, <4>2 DEF StartsStep
      <4>6. ASSUME NEW p \in P, p >= m
            PROVE  \E s \in g[m] : s <= p /\ p < s + Reach
        <5>1. first <= p
          BY <4>1, <4>6
        <5>2. CASE p < first + Reach
          BY <4>5, <5>1, <5>2
        <5>3. CASE ~(p < first + Reach)
          <6>1. p >= k
            BY <4>2, <5>3
          <6>2. QED
            BY <4>4, <4>5, <6>1
        <5>4. QED
          BY <5>2, <5>3
      <4>7. QED
        BY <4>4, <4>5, <4>6
    <3>4. QED
      BY <3>2, <3>3
  <2> HIDE DEF Good
  <2>2. QED
    BY <2>1
<1>3. \A n \in Nat : n \in T
  <2> HIDE DEF T
  <2>1. QED
    BY <1>1, <1>2, InductionOnSet
<1>4. Good(1)
  <2> HIDE DEF Good
  <2>1. 1 \in Steps /\ Minutes + Reach \in Nat /\ 1 + (Minutes + Reach) > Minutes + Reach
    BY DEF Steps
  <2>2. QED
    BY <1>3, <2>1
<1>5. QED
  BY <1>4

LEMMA GroupStartsFacts ==
  ASSUME seen \subseteq 1..Minutes
  PROVE  /\ GroupStarts \subseteq Pending
         /\ \A p \in Pending : \E s \in GroupStarts : p \in Group(s)
<1>1. PICK P \in SUBSET (1..Minutes) : P = Pending
  BY DEF Pending
<1>2. GroupStarts = (CHOOSE g : Starts(P, g))[1]
  BY <1>1 DEF GroupStarts, Starts, Steps, StartsStep, Later
<1>3. Starts(P, CHOOSE g : Starts(P, g))
  BY StartsExist
<1>4. /\ GroupStarts \subseteq P
      /\ \A p \in P : \E s \in GroupStarts : s <= p /\ p < s + Reach
  BY <1>2, <1>3, StartsFacts
<1>5. QED
  BY <1>1, <1>4 DEF Group

\* Whatever offset the cycle has reached, one group has its turn.
LEMMA TurnsExist ==
  ASSUME seen \subseteq 1..Minutes, NEW n \in 0..(Cardinality(GroupStarts) - 1)
  PROVE  \E m \in GroupStarts : Index(m) = n
<1>1. PICK S \in SUBSET (0..Minutes) : S = GroupStarts
  BY GroupStartsFacts DEF Pending
<1>2. Cardinality(S) \in Nat /\ n \in Nat /\ n < Cardinality(S)
  <2>1. Cardinality(S) \in Nat
    BY RankExists
  <2>2. n \in 0..(Cardinality(S) - 1)
    BY <1>1
  <2>3. QED
    BY <2>1, <2>2
<1>3. PICK m \in S : Cardinality(Smaller(S, m)) = n
  BY <1>2, RankExists
<1>4. QED
  BY <1>1, <1>3 DEF Index, Smaller

\* Wherever the service is, each minute that waits for its confirmation lies in
\* a group, and every offset of the rotation gives some group the turn: the
\* planner never finds nothing to ask for while something is pending
\* (ibkr_delayed_acquisition.py).
THEOREM PendingMinutesGetATurn ==
  Spec => [](/\ \A p \in Pending : \E s \in GroupStarts : p \in Group(s)
             /\ \A n \in 0..(Cardinality(GroupStarts) - 1) :
                  \E m \in GroupStarts : Index(m) = n)
<1>1. CursorInv => /\ \A p \in Pending : \E s \in GroupStarts : p \in Group(s)
                   /\ \A n \in 0..(Cardinality(GroupStarts) - 1) :
                        \E m \in GroupStarts : Index(m) = n
  BY GroupStartsFacts, TurnsExist DEF CursorInv, CursorTypes
<1>2. QED
  BY CursorInit, CursorStep, <1>1, PTL DEF Spec

-----------------------------------------------------------------------------
(* Types, and with them the bounds of the retry delay, of the turn of the  *)
(* confirmation and of what Paper has committed.                           *)

Limit == Max({MaxDelay, Pace})
Clock == retry \in None..Limit /\ failures \in 0..MaxDelay /\ rest \in 0..Pace
Provider ==
  /\ tws \in BOOLEAN /\ socket \in BOOLEAN
  /\ left \in [outages : 0..MaxOutages, troubles : 0..MaxTroubles,
               restarts : 0..MaxRestarts]
Modes ==
  /\ connection \in Down \union {"CONNECTED", "RECOVERING"}
  /\ incident \in BOOLEAN
  /\ feed \in {"idle", "linked", "discover", "backfill", "confirm", "deferring",
              "failed", "broken"}
  /\ available \in {"unknown", "yes", "no"}
  /\ watchdog \in {"idle", "verified", "closing"}
Progress == paper \in 0..delivered
Turn == rotation \in 0..Minutes

OutageInv == CursorInv /\ Clock /\ Provider /\ Modes /\ Progress /\ Turn

LEMMA LimitFacts == Limit \in Nat /\ MaxDelay <= Limit /\ Pace <= Limit
<1>1. MaxDelay \in Nat /\ Pace \in Nat
  BY BoundsAssumption
<1>2. PICK n \in Nat : MaxDelay <= n /\ Pace <= n
  BY <1>1
<1>3. {MaxDelay, Pace} \in SUBSET (0..n)
  BY <1>1, <1>2
<1>4. Limit \in {MaxDelay, Pace} /\ \A y \in {MaxDelay, Pace} : y <= Limit
  BY <1>2, <1>3, MaxOfInterval DEF Limit
<1>5. QED
  BY <1>1, <1>4

LEMMA OutageInit == Init => OutageInv
<1> SUFFICES ASSUME Init PROVE OutageInv
  OBVIOUS
<1>1. Clock
  BY LimitFacts, BoundsAssumption DEF Init, Clock, None
<1>2. Provider
  <2>1. tws \in BOOLEAN /\ socket \in BOOLEAN
    BY Zenon DEF Init
  <2>2. left \in [outages : 0..MaxOutages, troubles : 0..MaxTroubles,
                  restarts : 0..MaxRestarts]
    BY BoundsAssumption DEF Init
  <2>3. QED
    BY <2>1, <2>2 DEF Provider
<1>3. Modes
  BY Zenon DEF Init, Modes
<1>4. Progress /\ Turn
  BY DEF Init, Progress, Turn
<1>5. QED
  BY <1>1, <1>2, <1>3, <1>4, CursorInit DEF OutageInv

\* The delay of the next attempt never exceeds the longest one.
LEMMA RetryScheduled ==
  ASSUME Clock, ScheduleRetry
  PROVE  retry' \in 0..Limit /\ failures' \in 0..MaxDelay
BY LimitFacts, BoundsAssumption DEF Clock, ScheduleRetry, Delay

LEMMA ClockStep ==
  ASSUME Clock, [Next]_vars
  PROVE  Clock'
<1>0. None = -1 /\ Limit \in Nat /\ Pace \in Nat /\ Pace <= Limit /\ MaxDelay \in Nat
  BY LimitFacts, BoundsAssumption DEF None
<1>1. ASSUME ScheduleRetry, rest' = rest PROVE Clock'
  BY <1>0, <1>1, RetryScheduled DEF Clock
<1>2. ASSUME retry' \in {retry, None}, failures' \in {failures, 0}, rest' \in {rest, Pace}
      PROVE  Clock'
  BY <1>0, <1>2 DEF Clock
<1>3. CASE WaitForPacer
  <2>1. retry' = rest /\ UNCHANGED <<failures, rest>>
    BY <1>3 DEF WaitForPacer
  <2>2. QED
    BY <1>0, <2>1 DEF Clock
<1>4. CASE Tick
  <2>1. /\ failures' = failures
        /\ retry' = IF retry > 0 THEN retry - 1 ELSE retry
        /\ rest' = IF rest > 0 THEN rest - 1 ELSE 0
    BY <1>4 DEF Tick
  <2>2. QED
    BY <1>0, <2>1 DEF Clock
<1>5. CASE Defer
  <2>1. UNCHANGED <<failures, rest>>
    BY <1>5 DEF Defer
  <2>2. CASE retry = None
    BY <1>2, <1>5, <2>1, <2>2 DEF Defer
  <2>3. CASE retry # None
    <3>1. retry' = Max({retry, Pace})
      BY <1>5, <2>3 DEF Defer
    <3>2. {retry, Pace} \in SUBSET (0..Limit)
      BY <1>0, <2>3 DEF Clock
    <3>3. retry' \in 0..Limit
      BY <1>0, <3>1, <3>2, MaxOfInterval
    <3>4. QED
      BY <1>0, <2>1, <3>3 DEF Clock
  <2>4. QED
    BY <2>2, <2>3
<1>6. CASE ReconnectFails \/ PacerRefuses \/ TransportLost \/ Troubled
  <2>1. ScheduleRetry /\ rest' = rest
    BY <1>6 DEF ReconnectFails, PacerRefuses, TransportLost, Troubled, ScheduleReconnect
  <2>2. QED
    BY <1>1, <2>1
<1>7. CASE \/ Held \/ Reconnect \/ Linked \/ Plan \/ Discovered \/ Backfilled \/ Confirmed
           \/ Refused \/ WatchdogStep \/ Commit \/ Restart \/ Publish \/ GoDown \/ ComeBack
           \/ UNCHANGED vars
  <2>1. retry' \in {retry, None} /\ failures' \in {failures, 0} /\ rest' \in {rest, Pace}
    BY <1>7 DEF Held, Reconnect, Linked, Plan, Discovered, Backfilled, Confirmed, Refused,
       WatchdogStep, Healthy, Recheck, CloseOutage, Commit, Restart, Publish, GoDown,
       ComeBack, vars, link
  <2>2. QED
    BY <1>2, <2>1
<1>8. QED
  BY <1>3, <1>4, <1>5, <1>6, <1>7 DEF Next, FeedStep

LEMMA ProviderStep ==
  ASSUME Provider, [Next]_vars
  PROVE  Provider'
<1>1. CASE UNCHANGED provider
  BY <1>1 DEF Provider, provider
<1>2. CASE Publish \/ ComeBack \/ Reconnect
  <2>1. UNCHANGED left /\ tws' \in {TRUE, tws} /\ socket' \in {TRUE, socket}
    BY <1>2, Zenon DEF Publish, ComeBack, Reconnect
  <2>2. QED
    BY <2>1, Zenon DEF Provider
<1>3. CASE Troubled \/ Refused \/ Restart \/ GoDown
  <2>1. tws' \in BOOLEAN /\ socket' \in BOOLEAN
    BY <1>3, Zenon DEF Troubled, Refused, Restart, GoDown, Provider
  <2>2. /\ left.outages \in 0..MaxOutages /\ left.troubles \in 0..MaxTroubles
        /\ left.restarts \in 0..MaxRestarts
        /\ left = [outages |-> left.outages, troubles |-> left.troubles,
                   restarts |-> left.restarts]
    BY DEF Provider
  <2>3. CASE left.troubles > 0 /\ left' = [left EXCEPT !.troubles = @ - 1]
    <3>1. left.troubles - 1 \in 0..MaxTroubles
      BY <2>2, <2>3, BoundsAssumption
    <3>2. QED
      BY <2>1, <2>2, <2>3, <3>1 DEF Provider
  <2>4. CASE left.restarts > 0 /\ left' = [left EXCEPT !.restarts = @ - 1]
    <3>1. left.restarts - 1 \in 0..MaxRestarts
      BY <2>2, <2>4, BoundsAssumption
    <3>2. QED
      BY <2>1, <2>2, <2>4, <3>1 DEF Provider
  <2>5. CASE left.outages > 0 /\ left' = [left EXCEPT !.outages = @ - 1]
    <3>1. left.outages - 1 \in 0..MaxOutages
      BY <2>2, <2>5, BoundsAssumption
    <3>2. QED
      BY <2>1, <2>2, <2>5, <3>1 DEF Provider
  <2>6. QED
    BY <1>3, <2>3, <2>4, <2>5 DEF Troubled, Refused, Restart, GoDown
<1>4. QED
  BY <1>1, <1>2, <1>3 DEF Next, FeedStep, Held, ReconnectFails, Linked, WaitForPacer, Plan,
     PacerRefuses, Discovered, Backfilled, Confirmed, TransportLost, Defer, WatchdogStep,
     Healthy, Recheck, CloseOutage, Commit, Tick, vars

LEMMA ModesStep ==
  ASSUME Modes, [Next]_vars
  PROVE  Modes'
<1>1. /\ connection' \in {connection, "CONNECTED", "RECOVERING", "RECONNECTING"}
      /\ feed' \in {feed, "idle", "linked", "discover", "backfill", "confirm", "deferring",
                    "failed", "broken"}
      /\ available' \in {available, "unknown", "yes", "no"}
      /\ watchdog' \in {watchdog, "idle", "verified", "closing"}
  BY DEF Next, FeedStep, Held, ReconnectFails, Reconnect, Linked, WaitForPacer, Plan,
     PacerRefuses, Discovered, Backfilled, Confirmed, TransportLost, Defer, WatchdogStep,
     Healthy, Recheck, CloseOutage, Commit, Tick, Troubled, Refused, Restart, Publish,
     GoDown, ComeBack, ScheduleReconnect, CycleReturns, EndOfCycle, Continue,
     vars, link, source
<1>2. incident' \in {incident, TRUE, FALSE}
  BY DEF Next, FeedStep, Held, ReconnectFails, Reconnect, Linked, WaitForPacer, Plan,
     PacerRefuses, Discovered, Backfilled, Confirmed, TransportLost, Defer, WatchdogStep,
     Healthy, Recheck, CloseOutage, Commit, Tick, Troubled, Refused, Restart, Publish,
     GoDown, ComeBack, ScheduleReconnect, vars, link
<1>3. connection' \in Down \union {"CONNECTED", "RECOVERING"}
  BY <1>1 DEF Modes, Down
<1>4. /\ feed' \in {"idle", "linked", "discover", "backfill", "confirm", "deferring",
                   "failed", "broken"}
      /\ available' \in {"unknown", "yes", "no"}
      /\ watchdog' \in {"idle", "verified", "closing"}
  BY <1>1 DEF Modes
<1>5. incident' \in BOOLEAN
  BY <1>2, Zenon DEF Modes
<1>6. QED
  BY <1>3, <1>4, <1>5 DEF Modes, Down

\* Finalizing more never moves the delivery point back.
LEMMA DeliveryGrows ==
  ASSUME CursorInv, CursorInv', NEW rows, Ingest(rows)
  PROVE  delivered <= delivered'
<1> DEFINE S == {delivered} \union
                {m \in stable' : Open(delivered + 1, m) \subseteq stable'}
<1>1. S \in SUBSET (0..Minutes) /\ S # {} /\ delivered \in S
  <2>1. delivered \in 0..Minutes /\ 1..Minutes \subseteq 0..Minutes
    BY DEF CursorInv, CursorTypes
  <2>2. stable' \subseteq 0..Minutes
    BY <2>1 DEF CursorInv, CursorTypes
  <2>3. QED
    BY <2>1, <2>2, Zenon
<1>2. \A y \in S : y <= Max(S)
  BY <1>1, MaxOfInterval
<1>3. delivered' = Max(S)
  BY DEF Ingest, Finalize
<1> HIDE DEF S
<1>4. QED
  BY <1>1, <1>2, <1>3

\* Paper never commits what is not delivered, and the delivery point does not
\* move back.
LEMMA ProgressStep ==
  ASSUME CursorInv, CursorInv', Progress, [Next]_vars
  PROVE  Progress'
<1>0. delivered \in 0..Minutes /\ paper \in 0..delivered /\ paper \in Nat
  BY DEF CursorInv, CursorTypes, Progress
<1>1. CASE Commit
  <2>1. paper < delivered /\ paper' = OpenFrom(paper + 1, delivered) /\ delivered' = delivered
    BY <1>1 DEF Commit, minutes
  <2>2. /\ OpenFrom(paper + 1, delivered) \in Open(paper + 1, delivered) \union {delivered}
        /\ OpenFrom(paper + 1, delivered) <= delivered
    BY <1>0, OpenFromIsFirst
  <2>3. OpenFrom(paper + 1, delivered) \in 0..delivered
    BY <1>0, <2>2 DEF Open
  <2>4. QED
    BY <2>1, <2>3 DEF Progress
<1>2. CASE Discovered \/ Backfilled \/ Confirmed
  <2>1. paper' = paper
    BY <1>2 DEF Discovered, Backfilled, Confirmed
  <2>2. PICK rows : Ingest(rows)
    BY <1>2 DEF Discovered, Backfilled, Confirmed
  <2>3. delivered' \in 0..Minutes /\ delivered <= delivered'
    BY <2>2, DeliveryGrows DEF CursorInv, CursorTypes
  <2>4. QED
    BY <1>0, <2>1, <2>3 DEF Progress
<1>3. CASE UNCHANGED <<minutes, paper>>
  BY <1>3 DEF Progress, minutes
<1>4. QED
  BY <1>1, <1>2, <1>3 DEF Next, FeedStep, Held, ReconnectFails, Reconnect, Linked, WaitForPacer,
     Plan, PacerRefuses, TransportLost, Defer, WatchdogStep, Healthy, Recheck, CloseOutage, Tick,
     Troubled, Refused, Restart, Publish, GoDown, ComeBack, vars, source

\* The turn is taken among the groups there are, which are no more than the
\* minutes.
LEMMA TurnStep ==
  ASSUME CursorInv, Turn, [Next]_vars
  PROVE  Turn'
<1>1. ASSUME NEW catchup \in BOOLEAN, Confirm(catchup) PROVE Turn'
  <2>1. GroupStarts \subseteq 1..Minutes
    BY GroupStartsFacts DEF CursorInv, CursorTypes, Pending
  <2>2. /\ IsFiniteSet(GroupStarts) /\ Cardinality(GroupStarts) \in Nat
        /\ Cardinality(GroupStarts) <= Minutes
    <3>1. IsFiniteSet(1..Minutes) /\ Cardinality(1..Minutes) = Minutes
      BY FS_Interval
    <3>2. QED
      BY <2>1, <3>1, FS_Subset, FS_CardinalityType
  <2>3. CASE Pending = {} \/ catchup
    BY <1>1, <2>3 DEF Confirm, Turn
  <2>4. CASE Pending # {} /\ ~catchup
    <3>1. PICK m \in GroupStarts : rotation' = (Index(m) + 1) % Cardinality(GroupStarts)
      BY <1>1, <2>4 DEF Confirm
    <3>2. Cardinality(GroupStarts) # 0
      BY <2>2, <3>1, FS_EmptySet
    <3>3. Index(m) \in Nat
      <4>1. {g \in GroupStarts : g < m} \subseteq GroupStarts
        OBVIOUS
      <4>2. QED
        BY <2>2, <4>1, FS_Subset, FS_CardinalityType DEF Index
    <3>4. PICK count \in Nat \ {0} : count = Cardinality(GroupStarts) /\ count <= Minutes
      BY <2>2, <3>2
    <3>5. (Index(m) + 1) % count \in 0..(count - 1)
      BY <3>3, <3>4
    <3>6. QED
      BY <3>1, <3>4, <3>5 DEF Turn
  <2>5. QED
    BY <2>3, <2>4
<1>2. CASE Plan \/ PacerRefuses
  <2>1. Confirm(~complete') /\ (~complete') \in BOOLEAN
    BY <1>2 DEF Plan, PacerRefuses
  <2>2. QED
    BY <1>1, <2>1
<1>3. CASE UNCHANGED rotation
  BY <1>3 DEF Turn
<1>4. QED
  BY <1>2, <1>3 DEF Next, FeedStep, Held, ReconnectFails, Reconnect, Linked, WaitForPacer,
     Discovered, Backfilled, Confirmed, TransportLost, Defer, WatchdogStep, Healthy, Recheck,
     CloseOutage, Commit, Tick, Troubled, Refused, Restart, Publish, GoDown, ComeBack, vars, asked

LEMMA OutageStep == OutageInv /\ [Next]_vars => OutageInv'
BY CursorStep, ClockStep, ProviderStep, ModesStep, ProgressStep, TurnStep DEF OutageInv

\* Every variable stays in its domain: the retry delay never exceeds its maximum,
\* the turn of the confirmation is always among the groups, and Paper never gets
\* ahead of what was delivered.
THEOREM OutageTypeCorrect == Spec => []TypeOK
<1>1. OutageInv => TypeOK
  BY DEF OutageInv, CursorInv, CursorTypes, Clock, Limit, Provider, Modes, Progress, Turn,
         TypeOK
<1>2. QED
  BY OutageInit, OutageStep, <1>1, PTL DEF Spec
=============================================================================
