---------------------- MODULE DelayedAcquisitionProofs ----------------------
(***************************************************************************)
(* Proofs about DelayedAcquisition, for every number of minutes, polls,    *)
(* revisions, omissions and crashes: types, the journal that takes every   *)
(* offer, the ordered stream, what a restart rebuilds from the ledger, and *)
(* that a finalized value had been observed twice and stayed.              *)
(***************************************************************************)
EXTENDS DelayedAcquisition, NaturalSets, FiniteSetTheorems

USE MinutesAssumption, GapsAssumption, PolicyAssumption, BoundsAssumption
    DEF Required, files, request

\* Minutes and versions are naturals, NoMinute is none of them.
LEMMA MinuteFacts ==
  /\ Bars \subseteq Nat /\ Bars \subseteq 0..Minutes
  /\ NoMinute \notin Nat /\ NoMinute \in Int /\ \A m \in Bars : m > NoMinute
  /\ Cutoff \in Bars \union {0}
  /\ \A m \in Bars : m > 0
  /\ \A m \in Nat : m < NoMinute => FALSE
BY DEF Bars, NoMinute

LEMMA VersionFacts ==
  /\ Versions \subseteq Nat /\ Partial \in Versions
  /\ 0..MaxRevisions \subseteq Versions /\ 0 \in 0..MaxRevisions
BY DEF Versions, Partial

-----------------------------------------------------------------------------
(* Types.                                                                  *)

\* No minute was revised more often than revisions happened, and a confirmation
\* covers at least one minute.
TypeInv ==
  /\ TypeOK
  /\ \A m \in Bars : provider[m] <= budget.revisions
  /\ phase = "confirm" => covered # {}

\* The latest finalized minute is one of them and the greatest.
LEMMA LatestIsMinute ==
  ASSUME TypeOK
  PROVE  /\ LatestFinalized \in Bars \union {NoMinute}
         /\ LatestFinalized = NoMinute => Finalized = {}
         /\ Finalized = {} => LatestFinalized = NoMinute
         /\ Finalized # {} => LatestFinalized \in Finalized
         /\ \A f \in Finalized : f <= LatestFinalized
<1>1. Finalized \in SUBSET (0..Minutes) /\ Finalized \subseteq Bars
  BY MinuteFacts DEF Finalized
<1>2. CASE Finalized = {}
  BY <1>2 DEF LatestFinalized
<1>3. CASE Finalized # {}
  <2>1. Max(Finalized) \in Finalized /\ \A y \in Finalized : y <= Max(Finalized)
    BY <1>1, <1>3, MaxOfInterval
  <2>2. LatestFinalized = Max(Finalized)
    BY <1>3 DEF LatestFinalized
  <2>3. LatestFinalized \in Bars /\ LatestFinalized # NoMinute
    BY <1>1, <2>1, <2>2, MinuteFacts
  <2>4. QED
    BY <1>3, <2>1, <2>2, <2>3
<1>4. QED
  BY <1>2, <1>3

\* Whatever is requested, a response holds expected minutes, and every eligible
\* one is a row.
LEMMA ResponsesAreMinutes ==
  ASSUME TypeInv, phase \in {"open", "confirm"}, NEW r \in Responses
  PROVE  /\ r.kind \in {"open", "confirm"}
         /\ r.rows \in SUBSET Bars
         /\ r.eligible \in SUBSET Bars
         /\ r.eligible \subseteq r.rows
<1>1. ASSUME r \in DiscoveryResponses
      PROVE  /\ r.kind = "open" /\ r.rows \subseteq Bars /\ r.eligible = r.rows
  <2>1. PICK f \in {0} \union Started(now) :
          r = [kind |-> "open", rows |-> 1..f, eligible |-> 1..f]
    BY <1>1 DEF DiscoveryResponses
  <2>2. 1..f \subseteq Bars
    BY MinuteFacts DEF Started, Bars
  <2>3. QED
    BY <2>1, <2>2
<1>2. ASSUME r \in BackfillResponses
      PROVE  /\ r.kind = "open" /\ r.rows \subseteq Bars /\ r.eligible \subseteq r.rows
  <2>1. PICK e \in Bars : r = [kind |-> "open", rows |-> 1..e, eligible |-> 1..(e - 1)]
    BY <1>2 DEF BackfillResponses
  <2>2. 1..e \subseteq Bars /\ 1..(e - 1) \subseteq 1..e
    BY MinuteFacts DEF Bars
  <2>3. QED
    BY <2>1, <2>2
<1>3. ASSUME r \in ConfirmationResponses, phase = "confirm"
      PROVE  /\ r.kind = "confirm" /\ r.rows \subseteq Bars /\ r.eligible \subseteq r.rows
  <2>1. covered \in SUBSET Nat /\ covered \in SUBSET (0..Minutes) /\ covered # {}
        /\ covered \subseteq Bars
    BY <1>3, MinuteFacts DEF TypeInv, TypeOK, CycleTypes
  <2>2. Min(covered) \in Bars /\ Max(covered) \in Bars
    <3>1. Min(covered) \in covered
      BY <2>1, MinOfNaturals
    <3>2. Max(covered) \in covered
      BY <2>1, MaxOfInterval
    <3>3. QED
      BY <2>1, <3>1, <3>2
  <2>3. Min(covered)..Max(covered) \subseteq Bars
    BY <2>2 DEF Bars
  <2>4. PICK rows \in {Min(covered)..Max(covered),
                ((Min(covered) - 1)..(Max(covered) + 1)) \intersect Started(now)} :
          r = [kind |-> "confirm", rows |-> rows, eligible |-> rows \intersect covered]
    BY <1>3 DEF ConfirmationResponses
  <2>5. rows \subseteq Bars
    BY <2>3, <2>4 DEF Started
  <2>6. QED
    BY <2>4, <2>5
<1>4. QED
  BY <1>1, <1>2, <1>3 DEF Responses

\* observe keeps a candidate a candidate.
LEMMA ObservedIsCandidate ==
  ASSUME NEW c \in Candidate, NEW v \in Versions, NEW t \in Nat, NEW n \in Nat
  PROVE  Observed(c, v, t, n) \in Candidate
<1>1. [value |-> v, last |-> t, poll |-> n, count |-> 1] \in Candidate
  BY DEF Candidate
<1>2. c.count \in 0..Required
  BY DEF Candidate
<1>3. Counted(c, t, n) \in Candidate
  <2>1. PICK k \in 0..Required :
          Counted(c, t, n) = [c EXCEPT !.last = t, !.poll = n, !.count = k]
    <3>1. CASE c.count < Required
      <4>1. c.count + 1 \in 0..Required
        BY <1>2, <3>1
      <4>2. Counted(c, t, n) = [c EXCEPT !.last = t, !.poll = n, !.count = c.count + 1]
        BY <3>1 DEF Counted, Candidate
      <4>3. QED
        BY <4>1, <4>2
    <3>2. CASE ~(c.count < Required)
      BY <1>2, <3>2 DEF Counted, Candidate
    <3>3. QED
      BY <3>1, <3>2
  <2>2. QED
    BY <2>1 DEF Candidate
<1>4. QED
  BY <1>1, <1>3 DEF Observed

LEMMA NoCandidateType == NoCandidate \in Candidate /\ NoEntry \in Entry
BY VersionFacts DEF NoCandidate, Candidate, Entry

LEMMA NoResponseType == NoResponse \in ResponseRecords
BY VersionFacts DEF NoResponse, ResponseRecords

LEMMA PendingType == Pending \in SUBSET Bars
BY DEF Pending

\* Counting one more interference keeps the budget a budget.
LEMMA BudgetType ==
  ASSUME NEW b \in Budgets, NEW n \in Nat
  PROVE  /\ b.revisions < MaxRevisions => [b EXCEPT !.revisions = @ + 1] \in Budgets
         /\ b.omissions + n <= MaxOmissions => [b EXCEPT !.omissions = @ + n] \in Budgets
         /\ b.crashes < MaxCrashes => [b EXCEPT !.crashes = @ + 1] \in Budgets
<1>1. b.revisions \in 0..MaxRevisions /\ b.omissions \in 0..MaxOmissions
      /\ b.crashes \in 0..MaxCrashes
  BY DEF Budgets
<1>2. b.revisions < MaxRevisions => [b EXCEPT !.revisions = @ + 1] \in Budgets
  BY <1>1 DEF Budgets
<1>3. b.omissions + n <= MaxOmissions => [b EXCEPT !.omissions = @ + n] \in Budgets
  BY <1>1 DEF Budgets
<1>4. b.crashes < MaxCrashes => [b EXCEPT !.crashes = @ + 1] \in Budgets
  BY <1>1 DEF Budgets
<1>5. QED
  BY <1>2, <1>3, <1>4

\* The initial state is well typed.
LEMMA InitTypes == Init => TypeInv
<1> SUFFICES ASSUME Init PROVE TypeInv
  OBVIOUS
<1>1. EnvironmentTypes /\ \A m \in Bars : provider[m] <= budget.revisions
  BY DEF Init, EnvironmentTypes, Budgets
<1>2. FileTypes
  BY NoCandidateType DEF Init, FileTypes, SavedCursors
<1>3. FinalizerTypes
  BY NoCandidateType DEF Init, FinalizerTypes
<1>4. CycleTypes /\ phase # "confirm"
  BY NoResponseType DEF Init, CycleTypes, Phases
<1>5. QED
  BY <1>1, <1>2, <1>3, <1>4 DEF TypeInv, TypeOK

\* Every step keeps the state well typed.
LEMMA StepTypes == TypeInv /\ [Next]_vars => TypeInv'
<1> SUFFICES ASSUME TypeInv, [Next]_vars PROVE TypeInv'
  OBVIOUS
<1> USE DEF TypeInv, TypeOK
<1>1. CASE Start
  <2>1. log # <<>> => log[Len(log)] \in Observation
    BY DEF FileTypes
  <2>2. poll' \in Nat
    BY <1>1, <2>1 DEF Start, Observation
  <2>3. delivered' \in Bars \union {NoMinute, 0}
    BY <1>1, LatestIsMinute DEF Start
  <2>4. EnvironmentTypes' /\ FileTypes'
    BY <1>1 DEF Start, EnvironmentTypes, FileTypes
  <2>5. FinalizerTypes' /\ CycleTypes'
    BY <1>1, <2>2, <2>3 DEF Start, FinalizerTypes, CycleTypes, Phases
  <2>6. QED
    BY <1>1, <2>4, <2>5 DEF Start
<1>2. CASE Rehydrate
  <2> DEFINE r == log[replayed + 1]
  <2>1. r \in Observation /\ replayed' \in 0..Len(log)
    BY <1>2 DEF Rehydrate, FileTypes, FinalizerTypes
  <2>2. Observed(candidates[r.minute], r.value, r.at, r.poll) \in Candidate
    BY <2>1, ObservedIsCandidate DEF Observation, FinalizerTypes
  <2>3. candidates' \in [Bars -> Candidate]
    BY <1>2, <2>1, <2>2 DEF Rehydrate, Observation, FinalizerTypes
  <2>4. EnvironmentTypes' /\ FileTypes' /\ CycleTypes'
    BY <1>2 DEF Rehydrate, EnvironmentTypes, FileTypes, CycleTypes
  <2>5. FinalizerTypes'
    BY <1>2, <2>1, <2>3 DEF Rehydrate, FinalizerTypes
  <2>6. QED
    BY <1>2, <2>4, <2>5 DEF Rehydrate
<1>3. CASE Rehydrated
  <2>1. EnvironmentTypes' /\ FinalizerTypes' /\ CycleTypes'
    BY <1>3 DEF Rehydrated, EnvironmentTypes, FinalizerTypes, CycleTypes, Phases
  <2>2. FileTypes'
    BY <1>3, PendingType DEF Rehydrated, FileTypes, SavedCursors
  <2>3. QED
    BY <1>3, <2>1, <2>2 DEF Rehydrated
<1>4. CASE Subscribe
  <2>1. EnvironmentTypes' /\ FileTypes' /\ CycleTypes'
    BY <1>4 DEF Subscribe, EnvironmentTypes, FileTypes, CycleTypes, Phases
  <2>2. FinalizerTypes'
    BY <1>4, MinuteFacts DEF Subscribe, FinalizerTypes
  <2>3. QED
    BY <1>4, <2>1, <2>2 DEF Subscribe
<1>5. CASE BeginCycle
  <2>1. EnvironmentTypes' /\ FinalizerTypes'
    BY <1>5 DEF BeginCycle, EnvironmentTypes, FinalizerTypes
  <2>2. FileTypes'
    BY <1>5, PendingType DEF BeginCycle, FileTypes, SavedCursors
  <2>3. CycleTypes' /\ (phase' = "confirm" => covered' # {})
    BY <1>5, PendingType DEF BeginCycle, CycleTypes, Phases
  <2>4. QED
    BY <1>5, <2>1, <2>2, <2>3 DEF BeginCycle
<1>6. CASE Respond
  <2>1. PICK r \in Responses, missing \in {{}} \union {{m} : m \in Bars} :
           /\ missing \subseteq r.rows
           /\ budget.omissions + Cardinality(missing) <= MaxOmissions
           /\ budget' = [budget EXCEPT !.omissions = @ + Cardinality(missing)]
           /\ response' = [kind |-> r.kind, rows |-> r.rows \ missing,
                           eligible |-> r.eligible \ missing,
                           values |-> [m \in Bars |-> ValueAt(m, now)],
                           at |-> now, before |-> Len(log)]
           /\ unsaved' = r.rows \ missing
    BY <1>6 DEF Respond
  <2>2. Cardinality(missing) \in Nat
    <3>1. Cardinality({}) = 0 /\ \A m \in Bars : Cardinality({m}) = 1
      BY FS_EmptySet, FS_Singleton
    <3>2. CASE missing = {}
      BY <3>1, <3>2
    <3>3. CASE \E m \in Bars : missing = {m}
      BY <3>1, <3>3
    <3>4. QED
      BY <3>2, <3>3
  <2>3. phase \in {"open", "confirm"}
    BY <1>6 DEF Respond
  <2>4. r.kind \in {"open", "confirm"} /\ r.rows \in SUBSET Bars /\ r.eligible \in SUBSET Bars
    BY <2>3, ResponsesAreMinutes
  <2>5. \A m \in Bars : ValueAt(m, now) \in Versions
    BY VersionFacts DEF ValueAt, EnvironmentTypes
  <2>6. response' \in ResponseRecords
    BY <2>1, <2>4, <2>5 DEF ResponseRecords, EnvironmentTypes, FileTypes
  <2>7. budget' \in Budgets
    BY <2>1, <2>2, BudgetType DEF EnvironmentTypes
  <2>8. budget'.revisions = budget.revisions
    BY <2>1 DEF EnvironmentTypes, Budgets
  <2>9. EnvironmentTypes' /\ FileTypes' /\ FinalizerTypes'
    BY <1>6, <2>7 DEF Respond, EnvironmentTypes, FileTypes, FinalizerTypes
  <2>10. CycleTypes'
    BY <1>6, <2>1, <2>4, <2>6 DEF Respond, CycleTypes, Phases
  <2>11. QED
    BY <1>6, <2>8, <2>9, <2>10 DEF Respond
<1>7. CASE RequestFails
  <2>1. EnvironmentTypes' /\ FileTypes' /\ FinalizerTypes'
    BY <1>7 DEF RequestFails, EnvironmentTypes, FileTypes, FinalizerTypes
  <2>2. CycleTypes'
    BY <1>7 DEF RequestFails, CycleTypes, Phases
  <2>3. QED
    BY <1>7, <2>1, <2>2 DEF RequestFails
<1>8. CASE AppendObservation
  <2>1. PICK m \in unsaved :
          /\ unsaved' = unsaved \ {m}
          /\ log' = Append(log, [minute |-> m, value |-> response.values[m],
                                 at |-> response.at, poll |-> poll,
                                 eligible |-> m \in response.eligible])
    BY <1>8 DEF AppendObservation
  <2>2. [minute |-> m, value |-> response.values[m], at |-> response.at,
         poll |-> poll, eligible |-> m \in response.eligible] \in Observation
    BY DEF Observation, CycleTypes, ResponseRecords
  <2>3. log' \in Seq(Observation) /\ Len(log') = Len(log) + 1
    BY <2>1, <2>2 DEF FileTypes
  <2>4. EnvironmentTypes' /\ FileTypes'
    BY <1>8, <2>3 DEF AppendObservation, EnvironmentTypes, FileTypes
  <2>5. FinalizerTypes'
    BY <1>8, <2>3 DEF AppendObservation, FinalizerTypes, FileTypes
  <2>6. CycleTypes'
    BY <1>8, <2>1 DEF AppendObservation, CycleTypes
  <2>7. QED
    BY <1>8, <2>4, <2>5, <2>6 DEF AppendObservation
<1>9. CASE ObserveResponse
  <2>1. \A m \in Bars :
          Observed(candidates[m], response.values[m], response.at, poll) \in Candidate
    BY ObservedIsCandidate DEF FinalizerTypes, CycleTypes, ResponseRecords
  <2>2. candidates' \in [Bars -> Candidate]
    BY <1>9, <2>1 DEF ObserveResponse, FinalizerTypes
  <2>3. EnvironmentTypes' /\ FileTypes' /\ FinalizerTypes'
    BY <1>9, <2>2 DEF ObserveResponse, EnvironmentTypes, FileTypes, FinalizerTypes
  <2>4. CycleTypes'
    BY <1>9 DEF ObserveResponse, CycleTypes, Phases
  <2>5. QED
    BY <1>9, <2>3, <2>4 DEF ObserveResponse
<1>10. CASE FinalizeOne
  <2>1. \A m \in Bars : JournalEntry(m) \in Entry
    BY DEF JournalEntry, Entry, Candidate, FileTypes, FinalizerTypes, CycleTypes,
           ResponseRecords
  <2>2. EnvironmentTypes'
    BY <1>10 DEF FinalizeOne, EnvironmentTypes
  <2>3. FileTypes'
    BY <1>10, <2>1 DEF FinalizeOne, FileTypes
  <2>4. FinalizerTypes'
    BY <1>10, NoCandidateType DEF FinalizeOne, FinalizerTypes
  <2>5. CycleTypes' /\ phase' # "confirm"
    BY <1>10 DEF FinalizeOne, CycleTypes, Phases
  <2>6. QED
    BY <1>10, <2>2, <2>3, <2>4, <2>5 DEF FinalizeOne
<1>11. CASE SaveCursor
  <2>1. EnvironmentTypes' /\ FinalizerTypes'
    BY <1>11 DEF SaveCursor, EnvironmentTypes, FinalizerTypes
  <2>2. FileTypes'
    BY <1>11, PendingType DEF SaveCursor, FileTypes, SavedCursors, CycleTypes
  <2>3. CycleTypes' /\ (phase' = "confirm" => covered' # {})
    BY <1>11, NoResponseType DEF SaveCursor, CycleTypes, Phases
  <2>4. QED
    BY <1>11, <2>1, <2>2, <2>3 DEF SaveCursor
<1>12. CASE Tick
  <2>1. EnvironmentTypes' /\ FileTypes' /\ FinalizerTypes' /\ CycleTypes'
    BY <1>12 DEF Tick, EnvironmentTypes, FileTypes, FinalizerTypes, CycleTypes
  <2>2. QED
    BY <1>12, <2>1 DEF Tick
<1>13. CASE Revise
  <2>1. budget' \in Budgets /\ budget'.revisions = budget.revisions + 1
    BY <1>13, BudgetType DEF Revise, EnvironmentTypes, Budgets
  <2>2. budget'.revisions \in 0..MaxRevisions
    BY <2>1 DEF Budgets
  <2>3. PICK m \in Bars : provider' = [provider EXCEPT ![m] = @ + 1]
    BY <1>13 DEF Revise
  <2>4. provider' \in [Bars -> 0..MaxRevisions]
        /\ \A n \in Bars : provider'[n] <= budget'.revisions
    <3>1. ASSUME NEW n \in Bars
          PROVE  provider'[n] \in 0..MaxRevisions /\ provider'[n] <= budget'.revisions
      <4>1. provider[n] \in 0..MaxRevisions /\ provider[n] <= budget.revisions
            /\ budget.revisions \in 0..MaxRevisions
        BY DEF EnvironmentTypes, Budgets
      <4>2. provider'[n] = IF n = m THEN provider[n] + 1 ELSE provider[n]
        BY <2>3 DEF EnvironmentTypes
      <4>3. QED
        BY <2>1, <2>2, <4>1, <4>2
    <3>2. QED
      BY <2>3, <3>1 DEF EnvironmentTypes
  <2>5. EnvironmentTypes' /\ FileTypes' /\ FinalizerTypes' /\ CycleTypes'
    BY <1>13, <2>1, <2>4 DEF Revise, EnvironmentTypes, FileTypes, FinalizerTypes, CycleTypes
  <2>6. QED
    BY <1>13, <2>4, <2>5 DEF Revise
<1>14. CASE Crash
  <2>1. budget' \in Budgets /\ budget'.revisions = budget.revisions
    BY <1>14, BudgetType DEF Crash, EnvironmentTypes, Budgets
  <2>2. EnvironmentTypes' /\ FileTypes'
    BY <1>14, <2>1 DEF Crash, EnvironmentTypes, FileTypes
  <2>3. FinalizerTypes'
    BY <1>14, NoCandidateType DEF Crash, FinalizerTypes, FileTypes
  <2>4. CycleTypes' /\ phase' # "confirm"
    BY <1>14, NoResponseType DEF Crash, CycleTypes, Phases
  <2>5. QED
    BY <1>14, <2>1, <2>2, <2>3, <2>4 DEF Crash
<1>15. CASE UNCHANGED vars
  BY <1>15 DEF vars, EnvironmentTypes, FileTypes, FinalizerTypes, CycleTypes
<1>16. QED
  BY <1>1, <1>2, <1>3, <1>4, <1>5, <1>6, <1>7, <1>8, <1>9, <1>10, <1>11, <1>12,
     <1>13, <1>14, <1>15 DEF Next

LEMMA TypeInvCorrect == Spec => []TypeInv
BY InitTypes, StepTypes, PTL DEF Spec

\* Every variable of the acquisition stays in its domain, for any number of
\* minutes, polls, revisions, omissions and crashes.
THEOREM AcquisitionTypeCorrect == Spec => []TypeOK
<1>1. TypeInv => TypeOK
  BY DEF TypeInv
<1>2. QED
  BY <1>1, TypeInvCorrect, PTL

-----------------------------------------------------------------------------
(* Order: what the process remembers as delivered agrees with its journal. *)

\* Nothing before the cutoff is finalized and nothing after a hole.
NoHoles ==
  \A m \in Finalized :
    /\ m > Cutoff
    /\ \A g \in (Cutoff + 1)..(m - 1) : g \in Finalized \union ClassifiedGaps

\* last_delivered is the end of the journal, or the cutoff.
DeliveredIsLatest ==
  /\ \A f \in Finalized : f <= delivered
  /\ delivered \in Finalized \union {NoMinute, Cutoff}

OrderInv ==
  /\ NoHoles
  /\ phase # "down" => DeliveredIsLatest
  /\ phase \notin {"down", "rehydrate", "subscribe"} => delivered # NoMinute
  /\ phase # "failed"

\* What finalize_ready delivers is accepted by the journal and leaves no hole:
\* an unclassified minute in between would be an older candidate, and the loop
\* stops at one that is not delivered.
LEMMA DeliverableIsNext ==
  ASSUME TypeInv, OrderInv, phase = "finalize",
         NEW m \in Bars, NEW t \in Nat, Deliverable(m, t)
  PROVE  /\ m > Cutoff /\ m \notin Finalized /\ JournalAccepts(m)
         /\ \A g \in (Cutoff + 1)..(m - 1) : g \in Finalized \union ClassifiedGaps
<1>1. /\ delivered # NoMinute /\ m > delivered /\ NoUnresolvedGap(m)
      /\ \A p \in Pending : p < m => p <= delivered
      /\ DeliveredIsLatest /\ NoHoles
  BY DEF OrderInv, Deliverable
<1>2. Finalized \subseteq Bars /\ Bars \subseteq Nat /\ Cutoff \in Nat /\ delivered \in Nat
  BY <1>1, MinuteFacts DEF Finalized, TypeInv, TypeOK, FinalizerTypes
<1>3. JournalAccepts(m) /\ m \notin Finalized
  BY <1>1, <1>2 DEF JournalAccepts, DeliveredIsLatest
<1>4. delivered \in Finalized \/ delivered = Cutoff
  BY <1>1 DEF DeliveredIsLatest
<1>5. Cutoff <= delivered
  BY <1>1, <1>2, <1>4 DEF NoHoles
<1>6. ASSUME NEW g \in (Cutoff + 1)..(m - 1) PROVE g \in Finalized \union ClassifiedGaps
  <2>1. g \in Nat /\ Cutoff + 1 <= g /\ g <= m - 1
    BY <1>2
  <2>2. CASE g > delivered
    <3>1. g \in (delivered + 1)..(m - 1)
      BY <1>2, <2>1, <2>2
    <3>2. g \in Pending \union ClassifiedGaps
      BY <1>1, <3>1 DEF NoUnresolvedGap
    <3>3. g \notin Pending
      BY <1>1, <1>2, <2>1, <2>2
    <3>4. QED
      BY <3>2, <3>3
  <2>3. CASE g <= delivered
    <3>1. delivered \in Finalized
      BY <1>2, <1>4, <2>1, <2>3
    <3>2. CASE g = delivered
      BY <3>1, <3>2
    <3>3. CASE g # delivered
      <4>1. g \in (Cutoff + 1)..(delivered - 1)
        BY <1>2, <2>1, <2>3, <3>3
      <4>2. QED
        BY <1>1, <3>1, <4>1 DEF NoHoles
    <3>4. QED
      BY <3>2, <3>3
  <2>4. QED
    BY <1>2, <2>1, <2>2, <2>3
<1>7. m > Cutoff
  BY <1>1, <1>2, <1>5
<1>8. QED
  BY <1>3, <1>6, <1>7

\* What the delivery does to the set of finalized minutes.
LEMMA FinalizedGrows ==
  ASSUME TypeInv, OrderInv, FinalizeOne
  PROVE  \E m \in Bars :
           /\ Deliverable(m, response.at)
           /\ journal' = [journal EXCEPT ![m] = JournalEntry(m)]
           /\ delivered' = m
           /\ candidates' = [candidates EXCEPT ![m] = NoCandidate]
           /\ phase' = phase /\ phase = "finalize"
           /\ Finalized' = Finalized \union {m}
<1>1. PICK m \in Bars : Deliverable(m, response.at) /\
        IF JournalHolds(m) \/ JournalAccepts(m)
          THEN /\ journal' = IF JournalHolds(m) THEN journal
                             ELSE [journal EXCEPT ![m] = JournalEntry(m)]
               /\ delivered' = m
               /\ candidates' = [candidates EXCEPT ![m] = NoCandidate]
               /\ UNCHANGED phase
          ELSE TRUE
  BY DEF FinalizeOne
<1>2. phase = "finalize" /\ response.at \in Nat
  BY DEF FinalizeOne, TypeInv, TypeOK, CycleTypes, ResponseRecords
<1>3. JournalAccepts(m) /\ ~JournalHolds(m)
  BY <1>1, <1>2, DeliverableIsNext DEF JournalHolds
<1>4. JournalEntry(m) # NoEntry
  <2>1. candidates[m].value \in Versions
    BY DEF TypeInv, TypeOK, FinalizerTypes, Candidate
  <2>2. candidates[m].value # -1
    BY <2>1, VersionFacts
  <2>3. QED
    BY <2>2 DEF JournalEntry, NoEntry
<1>5. Finalized' = Finalized \union {m}
  BY <1>1, <1>3, <1>4 DEF Finalized, TypeInv, TypeOK, FileTypes
<1>6. QED
  BY <1>1, <1>2, <1>3, <1>5

LEMMA InitOrder == Init => OrderInv
BY DEF Init, OrderInv, NoHoles, Finalized

LEMMA StepOrder == TypeInv /\ OrderInv /\ [Next]_vars => OrderInv'
<1> SUFFICES ASSUME TypeInv, OrderInv, [Next]_vars PROVE OrderInv'
  OBVIOUS
<1>1. CASE Start
  <2>1. Finalized' = Finalized /\ phase' = "rehydrate" /\ delivered' = LatestFinalized
    BY <1>1 DEF Start, Finalized
  <2>2. NoHoles'
    BY <2>1 DEF OrderInv, NoHoles
  <2>3. DeliveredIsLatest'
    BY <2>1, LatestIsMinute DEF DeliveredIsLatest, TypeInv
  <2>4. QED
    BY <2>1, <2>2, <2>3 DEF OrderInv
<1>2. CASE Subscribe
  <2>1. Finalized' = Finalized /\ phase' = "idle" /\ phase = "subscribe"
        /\ delivered' = IF delivered = NoMinute THEN Cutoff ELSE delivered
    BY <1>2 DEF Subscribe, Finalized
  <2>2. DeliveredIsLatest /\ NoHoles
    BY <2>1 DEF OrderInv
  <2>3. delivered = NoMinute => Finalized = {}
    <3>1. Finalized \subseteq Bars
      BY DEF Finalized
    <3>2. \A f \in Bars : ~(f <= NoMinute)
      BY MinuteFacts
    <3>3. QED
      BY <2>2, <3>1, <3>2 DEF DeliveredIsLatest
  <2>4. DeliveredIsLatest'
    BY <2>1, <2>2, <2>3 DEF DeliveredIsLatest
  <2>5. NoHoles'
    BY <2>1, <2>2 DEF NoHoles
  <2>6. delivered' # NoMinute
    BY <2>1, MinuteFacts
  <2>7. QED
    BY <2>1, <2>4, <2>5, <2>6 DEF OrderInv
<1>3. CASE FinalizeOne
  <2>1. PICK m \in Bars :
          /\ Deliverable(m, response.at) /\ delivered' = m /\ phase' = phase
          /\ phase = "finalize" /\ Finalized' = Finalized \union {m}
    BY <1>3, FinalizedGrows
  <2>2. response.at \in Nat
    BY DEF TypeInv, TypeOK, CycleTypes, ResponseRecords
  <2>3. /\ m > Cutoff /\ JournalAccepts(m)
        /\ \A g \in (Cutoff + 1)..(m - 1) : g \in Finalized \union ClassifiedGaps
    BY <2>1, <2>2, DeliverableIsNext
  <2>4. NoHoles'
    BY <2>1, <2>3 DEF OrderInv, NoHoles
  <2>5. DeliveredIsLatest'
    <3>1. \A f \in Finalized : f <= m
      BY <2>3, MinuteFacts DEF JournalAccepts, Finalized
    <3>2. m <= m
      BY MinuteFacts
    <3>3. QED
      BY <2>1, <3>1, <3>2 DEF DeliveredIsLatest
  <2>6. QED
    BY <2>1, <2>4, <2>5, MinuteFacts DEF OrderInv
<1>4. CASE Crash
  BY <1>4 DEF Crash, OrderInv, NoHoles, Finalized
<1>5. CASE Rehydrate \/ Rehydrated
  <2>1. Finalized' = Finalized /\ delivered' = delivered
        /\ phase = "rehydrate" /\ phase' \in {"rehydrate", "subscribe"}
    BY <1>5 DEF Rehydrate, Rehydrated, Finalized
  <2>2. QED
    BY <2>1 DEF OrderInv, NoHoles, DeliveredIsLatest
<1>6. CASE BeginCycle \/ Respond \/ RequestFails \/ AppendObservation
           \/ ObserveResponse \/ SaveCursor
  <2>1. Finalized' = Finalized /\ delivered' = delivered
        /\ phase \in {"idle", "open", "confirm", "append", "finalize"}
        /\ phase' \in {"idle", "open", "confirm", "append", "finalize"}
    BY <1>6 DEF BeginCycle, Respond, RequestFails, AppendObservation,
                ObserveResponse, SaveCursor, Finalized
  <2>2. QED
    BY <2>1 DEF OrderInv, NoHoles, DeliveredIsLatest
<1>7. CASE Tick \/ Revise \/ UNCHANGED vars
  <2>1. Finalized' = Finalized /\ delivered' = delivered /\ phase' = phase
    BY <1>7 DEF Tick, Revise, vars, Finalized
  <2>2. QED
    BY <2>1 DEF OrderInv, NoHoles, DeliveredIsLatest
<1>8. QED
  BY <1>1, <1>2, <1>3, <1>4, <1>5, <1>6, <1>7 DEF Next

LEMMA OrderCorrect == Spec => [](TypeInv /\ OrderInv)
BY InitTypes, InitOrder, StepTypes, StepOrder, PTL DEF Spec

\* The finalizer is never behind its journal: what it delivers is neither refused
\* nor a repetition, whatever crashes and revisions happen.
THEOREM JournalTakesEveryOfferCorrect == Spec => []JournalTakesEveryOffer
<1>1. TypeInv /\ OrderInv => JournalTakesEveryOffer
  <2>1. TypeInv => response.at \in Nat
    BY DEF TypeInv, TypeOK, CycleTypes, ResponseRecords
  <2>2. QED
    BY <2>1, DeliverableIsNext DEF JournalTakesEveryOffer
<1>2. QED
  BY <1>1, OrderCorrect, PTL

-----------------------------------------------------------------------------
(* Refinement: the journal is the ordered stream delivery relies on.       *)

\* A minute has a value in the stream exactly when it is in the journal.
LEMMA StreamIsJournal ==
  ASSUME TypeInv
  PROVE  Stream!Finished = Finalized
<1>1. ASSUME NEW m \in Bars PROVE journal[m].value # -1 <=> journal[m] # NoEntry
  <2>1. journal[m] \in Entry
    BY DEF TypeInv, TypeOK, FileTypes
  <2>2. journal[m] # NoEntry => journal[m].value \in Versions
    BY <2>1 DEF Entry
  <2>3. NoEntry.value = -1
    BY DEF NoEntry
  <2>4. -1 \notin Versions
    BY VersionFacts
  <2>5. QED
    BY <2>2, <2>3, <2>4
<1>2. QED
  BY <1>1 DEF Stream!Finished, Finalized, Bars

LEMMA InitStream == Init => Stream!Init
BY DEF Init, Stream!Init, NoEntry, Bars

LEMMA StepStream ==
  ASSUME TypeInv, OrderInv, [Next]_vars
  PROVE  [Stream!Next]_([m \in Bars |-> journal[m].value])
<1>1. CASE FinalizeOne
  <2>1. PICK m \in Bars :
          /\ Deliverable(m, response.at)
          /\ journal' = [journal EXCEPT ![m] = JournalEntry(m)]
          /\ phase = "finalize"
    BY <1>1, FinalizedGrows
  <2>2. response.at \in Nat /\ candidates[m].value \in Versions
    BY DEF TypeInv, TypeOK, CycleTypes, ResponseRecords, FinalizerTypes, Candidate
  <2>3. /\ m > Cutoff /\ JournalAccepts(m)
        /\ \A g \in (Cutoff + 1)..(m - 1) : g \in Finalized \union ClassifiedGaps
    BY <2>1, <2>2, DeliverableIsNext
  <2>4. [n \in Bars |-> journal'[n].value]
          = [[n \in Bars |-> journal[n].value] EXCEPT ![m] = candidates[m].value]
    <3>1. \A n \in Bars :
            journal'[n].value = IF n = m THEN candidates[m].value ELSE journal[n].value
      BY <2>1 DEF JournalEntry, TypeInv, TypeOK, FileTypes
    <3>2. QED
      BY <3>1
  <2>5. Stream!Next
    BY <2>2, <2>3, <2>4, StreamIsJournal DEF Stream!Next, JournalAccepts, Bars
  <2>6. QED
    BY <2>5
<1>2. CASE ~FinalizeOne
  <2>1. journal' = journal
    BY <1>2 DEF Next, vars, files, Start, Rehydrate, Rehydrated, Subscribe, BeginCycle,
       Respond, RequestFails, AppendObservation, ObserveResponse, SaveCursor,
       Tick, Revise, Crash
  <2>2. QED
    BY <2>1
<1>3. QED
  BY <1>1, <1>2

\* Acquisition implements the ordered stream of finalized minutes: appended in
\* exchange order, no unreviewed hole, never rewritten, across crashes.
THEOREM ImplementsStreamCorrect == Spec => ImplementsStream
BY OrderCorrect, InitStream, StepStream, PTL DEF Spec, ImplementsStream, Stream!Spec

-----------------------------------------------------------------------------
(* What a restart rebuilds.  Replay is a recursive function, so that it     *)
(* satisfies its defining equation has to be proved before it can be used: *)
(* there is a function for every length of the ledger, and they agree.     *)

Empty == [m \in Bars |-> NoCandidate]

\* One more recorded observation r is rehydrated.
Rebuilt(before, r) ==
  IF Replays(r)
    THEN [before EXCEPT ![r.minute] =
            Observed(before[r.minute], r.value, r.at, r.poll)]
    ELSE before

RebuiltAt(g, i) == IF i = 0 THEN Empty ELSE Rebuilt(g[i - 1], log[i])
ReplaysTo(g, n) == g = [i \in 0..n |-> RebuiltAt(g, i)]

LEMMA ReplaysAgree ==
  ASSUME NEW n \in Nat, NEW k \in Nat, NEW g, NEW h, ReplaysTo(g, n), ReplaysTo(h, k)
  PROVE  \A i \in Nat : i <= n /\ i <= k => g[i] = h[i]
<1> DEFINE T == {i \in Nat : i <= n /\ i <= k => g[i] = h[i]}
<1>1. 0 \in T
  <2>1. g[0] = Empty /\ h[0] = Empty
    BY DEF ReplaysTo, RebuiltAt
  <2>2. QED
    BY <2>1
<1>2. ASSUME NEW i \in Nat, i \in T PROVE i + 1 \in T
  <2>1. SUFFICES ASSUME i + 1 <= n, i + 1 <= k PROVE g[i + 1] = h[i + 1]
    OBVIOUS
  <2>2. g[i] = h[i]
    BY <1>2, <2>1
  <2>3. i + 1 \in 0..n /\ i + 1 \in 0..k /\ i + 1 # 0 /\ (i + 1) - 1 = i
    BY <2>1
  <2>4. g[i + 1] = Rebuilt(g[i], log[i + 1]) /\ h[i + 1] = Rebuilt(h[i], log[i + 1])
    BY <2>3 DEF ReplaysTo, RebuiltAt
  <2>5. QED
    BY <2>2, <2>4
<1>3. \A i \in Nat : i \in T
  <2> HIDE DEF T
  <2>1. QED
    BY <1>1, <1>2, InductionOnSet
<1>4. QED
  BY <1>3

LEMMA ReplayExists == \A n \in Nat : \E g : ReplaysTo(g, n)
<1> DEFINE T == {n \in Nat : \E g : ReplaysTo(g, n)}
<1>1. 0 \in T
  <2> DEFINE g == [i \in 0..0 |-> Empty]
  <2>1. g = [i \in 0..0 |-> RebuiltAt(g, i)]
    BY DEF RebuiltAt
  <2>2. QED
    BY <2>1 DEF ReplaysTo
<1>2. ASSUME NEW n \in Nat, n \in T PROVE n + 1 \in T
  <2>1. PICK g : ReplaysTo(g, n)
    BY <1>2
  <2> DEFINE h == [i \in 0..(n + 1) |-> IF i <= n THEN g[i] ELSE Rebuilt(g[n], log[i])]
  <2>2. ASSUME NEW i \in 0..(n + 1) PROVE h[i] = RebuiltAt(h, i)
    <3>1. CASE i = 0
      BY <2>1, <3>1 DEF ReplaysTo, RebuiltAt
    <3>2. CASE i # 0 /\ i <= n
      <4>1. i \in 0..n /\ i - 1 \in 0..(n + 1) /\ i - 1 <= n
        BY <3>2
      <4>2. h[i] = g[i] /\ h[i - 1] = g[i - 1]
        BY <3>2, <4>1
      <4>3. g[i] = Rebuilt(g[i - 1], log[i])
        BY <2>1, <3>2, <4>1 DEF ReplaysTo, RebuiltAt
      <4>4. QED
        BY <3>2, <4>2, <4>3 DEF RebuiltAt
    <3>3. CASE i = n + 1
      <4>1. h[i] = Rebuilt(g[n], log[i]) /\ i - 1 = n /\ h[n] = g[n] /\ i # 0
        BY <3>3
      <4>2. QED
        BY <4>1 DEF RebuiltAt
    <3>4. QED
      BY <3>1, <3>2, <3>3
  <2>3. ReplaysTo(h, n + 1)
    BY <2>2 DEF ReplaysTo
  <2>4. QED
    BY <2>3
<1>3. \A n \in Nat : n \in T
  <2> HIDE DEF T
  <2>1. QED
    BY <1>1, <1>2, InductionOnSet
<1>4. QED
  BY <1>3

LEMMA ReplayDefined == \A i \in Nat : Replay[i] = RebuiltAt(Replay, i)
<1> DEFINE f == [n \in Nat |-> (CHOOSE g : ReplaysTo(g, n))[n]]
<1>1. ASSUME NEW i \in Nat PROVE f[i] = RebuiltAt(f, i)
  <2> DEFINE g == CHOOSE g : ReplaysTo(g, i)
             h == CHOOSE h : ReplaysTo(h, i - 1)
  <2>1. ReplaysTo(g, i)
    BY ReplayExists
  <2>2. f[i] = g[i]
    OBVIOUS
  <2>3. CASE i = 0
    BY <2>1, <2>2, <2>3 DEF ReplaysTo, RebuiltAt
  <2>4. CASE i # 0
    <3>1. i - 1 \in Nat
      BY <2>4
    <3>2. ReplaysTo(h, i - 1) /\ f[i - 1] = h[i - 1]
      BY <3>1, ReplayExists
    <3>3. h[i - 1] = g[i - 1]
      <4> HIDE DEF g, h, f
      <4>1. QED
        BY <2>1, <3>1, <3>2, ReplaysAgree
    <3>4. g[i] = Rebuilt(g[i - 1], log[i])
      <4> HIDE DEF g, h, f
      <4>1. QED
        BY <2>1, <2>4 DEF ReplaysTo, RebuiltAt
    <3>5. QED
      <4> HIDE DEF g, h, f
      <4>1. QED
        BY <2>2, <2>4, <3>2, <3>3, <3>4 DEF RebuiltAt
  <2>5. QED
    BY <2>3, <2>4
<1>2. f = [i \in Nat |-> RebuiltAt(f, i)]
  <2>1. f = [i \in Nat |-> f[i]]
    OBVIOUS
  <2> HIDE DEF f
  <2>2. QED
    BY <1>1, <2>1
<1>3. \E g : g = [i \in Nat |-> RebuiltAt(g, i)]
  <2> HIDE DEF f
  <2>1. QED
    BY <1>2
<1>4. Replay = CHOOSE g : g = [i \in Nat |-> RebuiltAt(g, i)]
  BY DEF Replay, RebuiltAt, Rebuilt, Empty
<1>5. Replay = [i \in Nat |-> RebuiltAt(Replay, i)]
  BY <1>3, <1>4
<1>6. QED
  BY <1>5

\* After n recorded observations every minute has a candidate.
LEMMA ReplayIsCandidates ==
  ASSUME TypeInv
  PROVE  \A n \in 0..Len(log) : Replay[n] \in [Bars -> Candidate]
<1> DEFINE T == {n \in Nat : n <= Len(log) => Replay[n] \in [Bars -> Candidate]}
<1>1. 0 \in T
  <2>1. Replay[0] = Empty
    BY ReplayDefined DEF RebuiltAt
  <2>2. QED
    BY <2>1, NoCandidateType DEF Empty
<1>2. ASSUME NEW n \in Nat, n \in T PROVE n + 1 \in T
  <2>1. SUFFICES ASSUME n + 1 <= Len(log) PROVE Replay[n + 1] \in [Bars -> Candidate]
    OBVIOUS
  <2>2. Len(log) \in Nat /\ n + 1 \in 1..Len(log) /\ (n + 1) - 1 = n
    BY <2>1 DEF TypeInv, TypeOK, FileTypes
  <2>3. Replay[n] \in [Bars -> Candidate]
    BY <1>2, <2>2
  <2>4. log[n + 1] \in Observation
    BY <2>2 DEF TypeInv, TypeOK, FileTypes
  <2>5. Replay[n + 1] = Rebuilt(Replay[n], log[n + 1])
    BY <2>2, ReplayDefined DEF RebuiltAt
  <2>6. Rebuilt(Replay[n], log[n + 1]) \in [Bars -> Candidate]
    <3> DEFINE c == Replay[n]
               r == log[n + 1]
    <3>1. c \in [Bars -> Candidate] /\ r \in Observation
      BY <2>3, <2>4
    <3> HIDE DEF c, r
    <3>2. r.minute \in Bars /\ Observed(c[r.minute], r.value, r.at, r.poll) \in Candidate
      BY <3>1, ObservedIsCandidate DEF Observation
    <3>3. Rebuilt(c, r) \in [Bars -> Candidate]
      BY <3>1, <3>2 DEF Rebuilt
    <3>4. QED
      BY <3>3 DEF c, r
  <2>7. QED
    BY <2>5, <2>6
<1>3. \A n \in Nat : n \in T
  <2> HIDE DEF T
  <2>1. QED
    BY <1>1, <1>2, InductionOnSet
<1>4. QED
  BY <1>3

\* What the n-th recorded observation does to the candidate of minute m.
ReplayStepAt(n, m) ==
  Replay[n][m] =
    IF log[n].minute = m /\ Replays(log[n])
      THEN Observed(Replay[n - 1][m], log[n].value, log[n].at, log[n].poll)
      ELSE Replay[n - 1][m]

ReplaySteps ==
  /\ \A m \in Bars : Replay[0][m] = NoCandidate
  /\ \A n \in 1..Len(log), m \in Bars : ReplayStepAt(n, m)

LEMMA ReplayIsStepwise == TypeInv => ReplaySteps
<1> SUFFICES ASSUME TypeInv PROVE ReplaySteps
  OBVIOUS
<1>1. \A m \in Bars : Replay[0][m] = NoCandidate
  BY ReplayDefined DEF RebuiltAt, Empty
<1>2. ASSUME NEW n \in 1..Len(log), NEW m \in Bars PROVE ReplayStepAt(n, m)
  <2>1. Len(log) \in Nat
    BY DEF TypeInv, TypeOK, FileTypes
  <2>2. n \in Nat /\ n # 0 /\ n - 1 \in 0..Len(log)
    BY <2>1
  <2> DEFINE c == Replay[n - 1]
             r == log[n]
  <2>3. c \in [Bars -> Candidate]
    BY <2>2, ReplayIsCandidates
  <2>4. Replay[n] = Rebuilt(c, r)
    BY <2>2, ReplayDefined DEF RebuiltAt
  <2> HIDE DEF c, r
  <2>5. Rebuilt(c, r)[m] = IF r.minute = m /\ Replays(r)
                             THEN Observed(c[m], r.value, r.at, r.poll) ELSE c[m]
    BY <2>3 DEF Rebuilt
  <2>6. QED
    BY <2>4, <2>5 DEF ReplayStepAt, c, r
<1>3. QED
  BY <1>1, <1>2 DEF ReplaySteps

LEMMA ReplayIsStepwiseNext == TypeInv' => ReplaySteps'
BY ReplayIsStepwise, PTL

\* Neither a longer ledger nor a later delivery point changes what is rebuilt of
\* the old ledger for a minute beyond the delivery point.
LEMMA ReplayKept ==
  ASSUME TypeInv, TypeInv', Len(log) <= Len(log'),
         \A i \in 1..Len(log) : log'[i] = log[i],
         delivered <= delivered'
  PROVE  \A n \in 0..Len(log), m \in Bars : m > delivered' => Replay'[n][m] = Replay[n][m]
<1> SUFFICES ASSUME NEW m \in Bars, m > delivered'
             PROVE  \A n \in 0..Len(log) : Replay'[n][m] = Replay[n][m]
  OBVIOUS
<1> DEFINE T == {n \in Nat : n <= Len(log) => Replay'[n][m] = Replay[n][m]}
<1>0. Len(log) \in Nat /\ Len(log') \in Nat /\ m \in Nat
      /\ delivered \in Int /\ delivered' \in Int
  BY MinuteFacts DEF TypeInv, TypeOK, FileTypes, FinalizerTypes
<1>1. 0 \in T
  <2>1. Replay[0][m] = NoCandidate
    BY ReplayIsStepwise DEF ReplaySteps
  <2>2. Replay'[0][m] = NoCandidate
    BY ReplayIsStepwiseNext DEF ReplaySteps
  <2>3. QED
    BY <2>1, <2>2
<1>2. ASSUME NEW n \in Nat, n \in T PROVE n + 1 \in T
  <2>1. SUFFICES ASSUME n + 1 <= Len(log) PROVE Replay'[n + 1][m] = Replay[n + 1][m]
    OBVIOUS
  <2>2. n + 1 \in 1..Len(log) /\ n + 1 \in 1..Len(log') /\ (n + 1) - 1 = n
    BY <1>0, <2>1
  <2>3. Replay'[n][m] = Replay[n][m]
    BY <1>0, <1>2, <2>1
  <2>4. ReplayStepAt(n + 1, m)
    BY <2>2, ReplayIsStepwise DEF ReplaySteps
  <2>5. ReplayStepAt(n + 1, m)'
    BY <2>2, ReplayIsStepwiseNext DEF ReplaySteps
  <2>6. log'[n + 1] = log[n + 1] /\ log[n + 1] \in Observation
    BY <2>2 DEF TypeInv, TypeOK, FileTypes
  <2>7. log[n + 1].minute = m => (Replays(log[n + 1])' <=> Replays(log[n + 1]))
    BY <1>0, <2>6 DEF Replays, Admitted
  <2>8. QED
    BY <2>2, <2>3, <2>4, <2>5, <2>6, <2>7 DEF ReplayStepAt
<1>3. \A n \in Nat : n \in T
  <2> HIDE DEF T
  <2>1. QED
    BY <1>1, <1>2, InductionOnSet
<1>4. QED
  BY <1>0, <1>3

-----------------------------------------------------------------------------
(* Memory and ledger agree: the candidates beyond the delivery point are,   *)
(* in every phase, what a restart would rebuild from the ledger.            *)

\* What the candidate of m becomes by the rows of this response that are
\* recorded already.
Ingested(m) ==
  IF m \in response.eligible \ unsaved /\ Admitted(m, response.at)
    THEN Observed(candidates[m], response.values[m], response.at, poll)
    ELSE candidates[m]

InStep == {"subscribe", "idle", "open", "confirm", "finalize"}

MemoryInv ==
  /\ phase = "down" => replayed = 0 /\ candidates = Empty
  /\ phase = "append" =>
       unsaved \subseteq response.rows /\ response.eligible \subseteq response.rows
  /\ \A m \in Bars : m > delivered =>
       /\ phase = "rehydrate" => candidates[m] = Replay[replayed][m]
       /\ phase \in InStep => candidates[m] = Replay[Len(log)][m]
       /\ phase = "append" => Ingested(m) = Replay[Len(log)][m]

LEMMA InitMemory == Init => MemoryInv
BY DEF Init, MemoryInv, Empty, InStep

\* A step that leaves the ledger alone and does not move the delivery point back.
LEMMA ReplayKeptByOthers ==
  ASSUME TypeInv, TypeInv', log' = log, delivered <= delivered'
  PROVE  \A n \in 0..Len(log), m \in Bars : m > delivered' => Replay'[n][m] = Replay[n][m]
<1>1. Len(log) <= Len(log')
  BY DEF TypeInv, TypeOK, FileTypes
<1>2. \A i \in 1..Len(log) : log'[i] = log[i]
  OBVIOUS
<1>3. QED
  BY <1>1, <1>2, ReplayKept

LEMMA StepMemory ==
  ASSUME TypeInv, TypeInv', OrderInv, OrderInv', MemoryInv, [Next]_vars
  PROVE  MemoryInv'
<1>n. PICK n \in Nat : n = Len(log)
  BY DEF TypeInv, TypeOK, FileTypes
<1>0. /\ n = Len(log) /\ n \in 0..Len(log) /\ replayed \in 0..Len(log)
      /\ delivered \in Int /\ delivered' \in Int /\ \A m \in Bars : m \in Nat
  BY <1>n, MinuteFacts DEF TypeInv, TypeOK, FileTypes, FinalizerTypes
<1>1. CASE Start
  <2>1. /\ phase' = "rehydrate" /\ replayed' = 0 /\ candidates' = Empty
    BY <1>1 DEF Start, MemoryInv
  <2>2. \A m \in Bars : Replay'[0][m] = NoCandidate
    BY ReplayIsStepwiseNext DEF ReplaySteps
  <2>3. \A m \in Bars : candidates'[m] = NoCandidate
    BY <2>1 DEF Empty
  <2>4. QED
    BY <2>1, <2>2, <2>3 DEF MemoryInv, InStep
<1>2. CASE Rehydrate
  <2>1. /\ phase = "rehydrate" /\ phase' = "rehydrate" /\ log' = log
        /\ delivered' = delivered /\ replayed < Len(log) /\ replayed' = replayed + 1
    BY <1>2 DEF Rehydrate
  <2>2. /\ replayed + 1 \in 1..Len(log) /\ replayed + 1 \in 0..Len(log)
        /\ (replayed + 1) - 1 = replayed
    BY <1>0, <2>1
  <2>3. ASSUME NEW m \in Bars, m > delivered'
        PROVE  candidates'[m] = Replay'[replayed'][m]
    <3>1. candidates[m] = Replay[replayed][m]
      BY <2>1, <2>3 DEF MemoryInv
    <3>2. ReplayStepAt(replayed + 1, m)
      BY <2>2, ReplayIsStepwise DEF ReplaySteps
    <3>3. Replay'[replayed'][m] = Replay[replayed + 1][m]
      BY <1>0, <2>1, <2>2, <2>3, ReplayKeptByOthers
    <3> DEFINE r == log[replayed + 1]
    <3>4. candidates' = IF Replays(r)
            THEN [candidates EXCEPT ![r.minute] =
                    Observed(candidates[r.minute], r.value, r.at, r.poll)]
            ELSE candidates
      BY <1>2 DEF Rehydrate
    <3>5. candidates'[m] = IF r.minute = m /\ Replays(r)
            THEN Observed(candidates[m], r.value, r.at, r.poll) ELSE candidates[m]
      <4> HIDE DEF r
      <4>1. QED
        BY <3>4 DEF TypeInv, TypeOK, FinalizerTypes
    <3>6. QED
      BY <2>2, <3>1, <3>2, <3>3, <3>5 DEF ReplayStepAt
  <2>4. QED
    BY <2>1, <2>3 DEF MemoryInv, InStep
<1>3. CASE Rehydrated
  <2>1. /\ phase = "rehydrate" /\ phase' = "subscribe" /\ log' = log
        /\ delivered' = delivered /\ replayed = Len(log) /\ candidates' = candidates
    BY <1>3 DEF Rehydrated
  <2>2. ASSUME NEW m \in Bars, m > delivered'
        PROVE  candidates'[m] = Replay'[Len(log')][m]
    BY <1>0, <2>1, <2>2, ReplayKeptByOthers DEF MemoryInv
  <2>3. QED
    BY <2>1, <2>2 DEF MemoryInv, InStep
<1>4. CASE Respond
  <2>1. /\ phase \in InStep /\ phase' = "append" /\ log' = log
        /\ delivered' = delivered /\ candidates' = candidates
    BY <1>4 DEF Respond, InStep
  <2>2. PICK r \in Responses, missing \in SUBSET Bars :
          /\ response'.rows = r.rows \ missing
          /\ response'.eligible = r.eligible \ missing
          /\ unsaved' = r.rows \ missing
    <3>1. PICK r \in Responses, missing \in {{}} \union {{m} : m \in Bars} :
            /\ response' = [kind |-> r.kind, rows |-> r.rows \ missing,
                            eligible |-> r.eligible \ missing,
                            values |-> [m \in Bars |-> ValueAt(m, now)],
                            at |-> now, before |-> Len(log)]
            /\ unsaved' = r.rows \ missing
      BY <1>4 DEF Respond
    <3>2. missing \in SUBSET Bars
      OBVIOUS
    <3>3. QED
      BY <3>1, <3>2
  <2>3. r.eligible \subseteq r.rows
    BY <1>4, ResponsesAreMinutes DEF Respond
  <2>4. unsaved' \subseteq response'.rows /\ response'.eligible \subseteq response'.rows
        /\ response'.eligible \ unsaved' = {}
    BY <2>2, <2>3
  <2>5. ASSUME NEW m \in Bars, m > delivered'
        PROVE  Ingested(m)' = Replay'[Len(log')][m]
    <3>1. Ingested(m)' = candidates'[m]
      BY <2>4 DEF Ingested
    <3>2. candidates[m] = Replay[n][m]
      BY <1>0, <2>1, <2>5 DEF MemoryInv
    <3>3. Replay'[n][m] = Replay[n][m]
      BY <1>0, <2>1, <2>5, ReplayKeptByOthers
    <3>4. QED
      BY <1>0, <2>1, <3>1, <3>2, <3>3
  <2>6. QED
    BY <2>1, <2>4, <2>5 DEF MemoryInv, InStep
<1>5. CASE AppendObservation
  <2>1. PICK a \in unsaved :
          /\ unsaved' = unsaved \ {a}
          /\ log' = Append(log, [minute |-> a, value |-> response.values[a],
                                 at |-> response.at, poll |-> poll,
                                 eligible |-> a \in response.eligible])
    BY <1>5 DEF AppendObservation
  <2>2. /\ phase = "append" /\ phase' = "append" /\ delivered' = delivered
        /\ candidates' = candidates /\ response' = response /\ poll' = poll
    BY <1>5 DEF AppendObservation
  <2> DEFINE x == [minute |-> a, value |-> response.values[a], at |-> response.at,
                   poll |-> poll, eligible |-> a \in response.eligible]
  <2>3. /\ Len(log') = n + 1 /\ log'[n + 1] = x
        /\ \A i \in 1..Len(log) : log'[i] = log[i]
    BY <1>0, <2>1 DEF TypeInv, TypeOK, FileTypes
  <2>4. n + 1 \in 1..Len(log') /\ (n + 1) - 1 = n /\ Len(log) <= Len(log')
    BY <1>0, <2>3
  <2>5. unsaved' \subseteq response'.rows /\ response'.eligible \subseteq response'.rows
    BY <2>1, <2>2 DEF MemoryInv
  <2>6. ASSUME NEW m \in Bars, m > delivered'
        PROVE  Ingested(m)' = Replay'[Len(log')][m]
    <3>1. Ingested(m) = Replay[n][m]
      BY <1>0, <2>2, <2>6 DEF MemoryInv
    <3>2. Replay'[n][m] = Replay[n][m]
      BY <1>0, <2>2, <2>3, <2>4, <2>6, ReplayKept
    <3>3. ReplayStepAt(n + 1, m)'
      BY <2>4, ReplayIsStepwiseNext DEF ReplaySteps
    <3>4. Admitted(a, response.at)' <=> Admitted(a, response.at)
      BY <2>2 DEF Admitted
    <3>5. Replay'[n + 1][m] =
            IF a = m /\ a \in response.eligible /\ Admitted(a, response.at)
              THEN Observed(Ingested(m), response.values[m], response.at, poll)
              ELSE Ingested(m)
      <4>1. /\ log'[n + 1].minute = a /\ log'[n + 1].value = response.values[a]
            /\ log'[n + 1].at = response.at /\ log'[n + 1].poll = poll
            /\ log'[n + 1].eligible = (a \in response.eligible)
        BY <2>3
      <4>2. Replays(log[n + 1])' <=> a \in response.eligible /\ Admitted(a, response.at)
        BY <2>2, <4>1 DEF Replays, Admitted
      <4>3. QED
        BY <2>4, <3>1, <3>2, <3>3, <4>1, <4>2 DEF ReplayStepAt
    <3>6. Admitted(m, response.at)' <=> Admitted(m, response.at)
      BY <2>2 DEF Admitted
    <3>7. CASE m = a
      <4>1. Ingested(m) = candidates[m]
        BY <3>7 DEF Ingested
      <4>2. Ingested(m)' = IF m \in response.eligible /\ Admitted(m, response.at)
              THEN Observed(candidates[m], response.values[m], response.at, poll)
              ELSE candidates[m]
        BY <2>1, <2>2, <3>6, <3>7 DEF Ingested
      <4>3. QED
        BY <2>3, <3>5, <3>7, <4>1, <4>2
    <3>8. CASE m # a
      <4>1. Ingested(m)' = Ingested(m)
        BY <2>1, <2>2, <3>6, <3>8 DEF Ingested
      <4>2. QED
        BY <2>3, <3>5, <3>8, <4>1
    <3>9. QED
      BY <3>7, <3>8
  <2>7. QED
    BY <2>2, <2>5, <2>6 DEF MemoryInv, InStep
<1>6. CASE ObserveResponse
  <2>1. /\ phase = "append" /\ phase' = "finalize" /\ log' = log
        /\ delivered' = delivered /\ unsaved = {}
    BY <1>6 DEF ObserveResponse
  <2>2. ASSUME NEW m \in Bars, m > delivered'
        PROVE  candidates'[m] = Replay'[Len(log')][m]
    <3>1. Ingested(m) = Replay[n][m]
      BY <1>0, <2>1, <2>2 DEF MemoryInv
    <3>2. candidates'[m] = Ingested(m)
      BY <1>6 DEF ObserveResponse, Ingested
    <3>3. Replay'[n][m] = Replay[n][m]
      BY <1>0, <2>1, <2>2, ReplayKeptByOthers
    <3>4. QED
      BY <1>0, <2>1, <3>1, <3>2, <3>3
  <2>3. QED
    BY <2>1, <2>2 DEF MemoryInv, InStep
<1>7. CASE FinalizeOne
  <2>1. PICK f \in Bars :
           /\ Deliverable(f, response.at) /\ delivered' = f
           /\ candidates' = [candidates EXCEPT ![f] = NoCandidate]
           /\ phase' = phase /\ phase = "finalize"
    BY <1>7, FinalizedGrows
  <2>2. log' = log /\ f > delivered /\ delivered <= delivered'
    BY <1>0, <1>7, <2>1 DEF FinalizeOne, Deliverable
  <2>3. ASSUME NEW m \in Bars, m > delivered'
        PROVE  candidates'[m] = Replay'[Len(log')][m]
    <3>1. m > delivered /\ m # f
      BY <1>0, <2>1, <2>2, <2>3
    <3>2. candidates[m] = Replay[n][m]
      BY <1>0, <2>1, <3>1 DEF MemoryInv, InStep
    <3>3. candidates'[m] = candidates[m]
      BY <2>1, <3>1 DEF TypeInv, TypeOK, FinalizerTypes
    <3>4. Replay'[n][m] = Replay[n][m]
      BY <1>0, <2>2, <2>3, ReplayKeptByOthers
    <3>5. QED
      BY <1>0, <2>2, <3>2, <3>3, <3>4
  <2>4. QED
    BY <2>1, <2>3 DEF MemoryInv, InStep
<1>8. CASE Subscribe \/ BeginCycle \/ RequestFails \/ SaveCursor
  <2>1. /\ phase \in InStep /\ phase' \in InStep /\ log' = log /\ candidates' = candidates
    BY <1>8 DEF Subscribe, BeginCycle, RequestFails, SaveCursor, InStep
  <2>2. delivered <= delivered'
    <3>1. delivered' = delivered \/ (delivered = NoMinute /\ delivered' = Cutoff)
      BY <1>8 DEF Subscribe, BeginCycle, RequestFails, SaveCursor
    <3>2. NoMinute <= Cutoff
      BY DEF NoMinute
    <3>3. QED
      BY <1>0, <3>1, <3>2
  <2>3. ASSUME NEW m \in Bars, m > delivered'
        PROVE  candidates'[m] = Replay'[Len(log')][m]
    <3>1. m > delivered
      BY <1>0, <2>2, <2>3
    <3>2. candidates[m] = Replay[n][m]
      BY <1>0, <2>1, <3>1 DEF MemoryInv
    <3>3. Replay'[n][m] = Replay[n][m]
      BY <1>0, <2>1, <2>2, <2>3, ReplayKeptByOthers
    <3>4. QED
      BY <1>0, <2>1, <3>2, <3>3
  <2>4. QED
    BY <2>1, <2>3 DEF MemoryInv, InStep
<1>9. CASE Crash
  BY <1>9 DEF Crash, MemoryInv, InStep, Empty
<1>10. CASE Tick \/ Revise \/ UNCHANGED vars
  <2>1. /\ log' = log /\ delivered' = delivered /\ candidates' = candidates
        /\ phase' = phase /\ replayed' = replayed /\ response' = response
        /\ unsaved' = unsaved /\ poll' = poll
    BY <1>10 DEF Tick, Revise, vars
  <2>2. delivered <= delivered'
    BY <1>0, <2>1
  <2>3. \A k \in 0..Len(log), m \in Bars : m > delivered => Replay'[k][m] = Replay[k][m]
    BY <2>1, <2>2, ReplayKeptByOthers
  <2>4. \A m \in Bars : Ingested(m)' = Ingested(m)
    BY <2>1 DEF Ingested, Admitted
  <2>5. QED
    BY <1>0, <2>1, <2>3, <2>4 DEF MemoryInv
<1>11. QED
  BY <1>1, <1>2, <1>3, <1>4, <1>5, <1>6, <1>7, <1>8, <1>9, <1>10 DEF Next

LEMMA MemoryCorrect == Spec => [](TypeInv /\ OrderInv /\ MemoryInv)
<1>1. Init => TypeInv /\ OrderInv /\ MemoryInv
  BY InitTypes, InitOrder, InitMemory
<1>2. TypeInv /\ OrderInv /\ MemoryInv /\ [Next]_vars
      => (TypeInv /\ OrderInv /\ MemoryInv)'
  BY StepTypes, StepOrder, StepMemory
<1>3. QED
  BY <1>1, <1>2, PTL DEF Spec

\* Between cycles a process that crashed and restarted would hold exactly the
\* candidates the running one holds, for any ledger: ingestion in memory and
\* rehydration from the ledger agree.
THEOREM RestartLosesNothingCorrect == Spec => []RestartLosesNothing
<1>1. MemoryInv => RestartLosesNothing
  BY DEF MemoryInv, RestartLosesNothing, InStep
<1>2. QED
  BY <1>1, MemoryCorrect, PTL

-----------------------------------------------------------------------------
(* Stability: a candidate is backed by observations in the ledger, so that  *)
(* what is finalized was observed as often as the policy asks for.         *)

\* No other value of m was counted from observation i to n.
Steady(i, n, m, v) == \A k \in i..n : Counts(k, m) => log[k].value = v

\* The last counted observation of candidate c is in the ledger ...
LastIsRecorded(n, m, c) ==
  \E j \in 1..n :
    /\ Counts(j, m) /\ log[j].at = c.last /\ log[j].poll = c.poll
    /\ Steady(j, n, m, c.value)

\* ... and so are two observations that agree and are far enough apart.
TwiceObserved(n, m, v) ==
  \E i, j \in 1..n :
    /\ i < j /\ Counts(i, m) /\ Counts(j, m)
    /\ log[i].poll # log[j].poll /\ log[j].at - log[i].at >= Spacing
    /\ Steady(i, n, m, v)

Backed(n, m) ==
  /\ Replay[n][m].count > 0 => LastIsRecorded(n, m, Replay[n][m])
  /\ Replay[n][m].count >= Required => TwiceObserved(n, m, Replay[n][m].value)

\* One more observation that is no other value of m leaves the backing in place.
LEMMA BackingExtends ==
  ASSUME NEW n \in Nat, NEW m, NEW c,
         Counts(n + 1, m) => log[n + 1].value = c.value
  PROVE  /\ LastIsRecorded(n, m, c) => LastIsRecorded(n + 1, m, c)
         /\ TwiceObserved(n, m, c.value) => TwiceObserved(n + 1, m, c.value)
<1>1. \A i \in 1..n : Steady(i, n, m, c.value) => Steady(i, n + 1, m, c.value)
  <2>1. \A i \in 1..n : \A k \in i..(n + 1) : k \in i..n \/ k = n + 1
    OBVIOUS
  <2>2. QED
    BY <2>1 DEF Steady
<1>2. \A i \in 1..n : i \in 1..(n + 1)
  OBVIOUS
<1>3. LastIsRecorded(n, m, c) => LastIsRecorded(n + 1, m, c)
  BY <1>1, <1>2 DEF LastIsRecorded
<1>4. TwiceObserved(n, m, c.value) => TwiceObserved(n + 1, m, c.value)
  BY <1>1, <1>2 DEF TwiceObserved
<1>5. QED
  BY <1>3, <1>4

LEMMA ReplayIsBacked ==
  ASSUME TypeInv, NEW m \in Bars, m > delivered
  PROVE  \A n \in 0..Len(log) : Backed(n, m)
<1> DEFINE T == {n \in Nat : n <= Len(log) => Backed(n, m)}
<1>1. 0 \in T
  <2>1. Replay[0][m] = NoCandidate
    BY ReplayIsStepwise DEF ReplaySteps
  <2>2. QED
    BY <2>1 DEF Backed, NoCandidate
<1>2. ASSUME NEW n \in Nat, n \in T PROVE n + 1 \in T
  <2>1. SUFFICES ASSUME n + 1 <= Len(log) PROVE Backed(n + 1, m)
    OBVIOUS
  <2>2. /\ Len(log) \in Nat /\ n + 1 \in 1..Len(log) /\ n \in 0..Len(log)
        /\ n + 1 \in 0..Len(log) /\ (n + 1) - 1 = n
    BY <2>1 DEF TypeInv, TypeOK, FileTypes
  <2>3. PICK c : c = Replay[n][m]
    OBVIOUS
  <2>4. PICK d : d = Replay[n + 1][m]
    OBVIOUS
  <2>5. PICK r : r = log[n + 1]
    OBVIOUS
  <2>6. r \in Observation /\ c \in Candidate /\ d \in Candidate
    BY <2>2, <2>3, <2>4, <2>5, ReplayIsCandidates DEF TypeInv, TypeOK, FileTypes
  <2>7. /\ c.count > 0 => LastIsRecorded(n, m, c)
        /\ c.count >= Required => TwiceObserved(n, m, c.value)
    BY <1>2, <2>2, <2>3 DEF Backed
  <2>8. d = IF r.minute = m /\ Replays(r) THEN Observed(c, r.value, r.at, r.poll) ELSE c
    <3>1. ReplayStepAt(n + 1, m)
      BY <2>2, ReplayIsStepwise DEF ReplaySteps
    <3>2. QED
      BY <2>2, <2>3, <2>4, <2>5, <3>1 DEF ReplayStepAt
  <2>9. Counts(n + 1, m) <=> r.minute = m /\ Replays(r)
    BY <2>5 DEF Counts, Replays, Admitted
  <2>10. SUFFICES /\ d.count > 0 => LastIsRecorded(n + 1, m, d)
                  /\ d.count >= Required => TwiceObserved(n + 1, m, d.value)
    BY <2>4 DEF Backed
  <2>11. CASE ~Counts(n + 1, m)
    <3>1. d = c
      BY <2>8, <2>9, <2>11
    <3>2. QED
      BY <2>7, <2>11, <3>1, BackingExtends
  <2>12. CASE Counts(n + 1, m)
    <3>1. d = Observed(c, r.value, r.at, r.poll)
      BY <2>8, <2>9, <2>12
    <3>2. /\ n + 1 \in 1..(n + 1) /\ (n + 1)..(n + 1) = {n + 1}
          /\ log[n + 1].value = r.value /\ log[n + 1].at = r.at /\ log[n + 1].poll = r.poll
      BY <2>2, <2>5
    <3>3. CASE c.count = 0 \/ c.value # r.value
      <4>1. d = [value |-> r.value, last |-> r.at, poll |-> r.poll, count |-> 1]
        BY <3>1, <3>3 DEF Observed
      <4>2. Steady(n + 1, n + 1, m, d.value)
        BY <3>2, <4>1 DEF Steady
      <4>3. LastIsRecorded(n + 1, m, d)
        BY <2>12, <3>2, <4>1, <4>2 DEF LastIsRecorded
      <4>4. d.count = 1
        BY <4>1
      <4>5. QED
        BY <4>3, <4>4
    <3>4. CASE ~(c.count = 0 \/ c.value # r.value)
      <4>1. c.count > 0 /\ c.value = r.value
        BY <2>6, <3>4 DEF Candidate
      <4>2. LastIsRecorded(n, m, c)
        BY <2>7, <4>1
      <4>3. CASE r.poll # c.poll /\ r.at - c.last >= Spacing
        <5>1. d = Counted(c, r.at, r.poll)
          BY <3>1, <3>4, <4>3 DEF Observed
        <5>2. d.value = c.value /\ d.last = r.at /\ d.poll = r.poll
          BY <2>6, <5>1 DEF Counted, Candidate
        <5>3. Steady(n + 1, n + 1, m, d.value)
          BY <3>2, <4>1, <5>2 DEF Steady
        <5>4. LastIsRecorded(n + 1, m, d)
          BY <2>12, <3>2, <5>2, <5>3 DEF LastIsRecorded
        <5>5. PICK j \in 1..n :
                /\ Counts(j, m) /\ log[j].at = c.last /\ log[j].poll = c.poll
                /\ Steady(j, n, m, c.value)
          BY <4>2 DEF LastIsRecorded
        <5>6. j \in 1..(n + 1) /\ j < n + 1
          OBVIOUS
        <5>7. Steady(j, n + 1, m, d.value)
          <6>1. \A k \in j..(n + 1) : k \in j..n \/ k = n + 1
            OBVIOUS
          <6>2. QED
            BY <3>2, <4>1, <5>2, <5>5, <6>1 DEF Steady
        <5>8. TwiceObserved(n + 1, m, d.value)
          BY <2>12, <3>2, <4>3, <5>5, <5>6, <5>7 DEF TwiceObserved
        <5>9. QED
          BY <5>4, <5>8
      <4>4. CASE ~(r.poll # c.poll /\ r.at - c.last >= Spacing)
        <5>1. d = c
          BY <3>1, <3>4, <4>4 DEF Observed
        <5>2. QED
          BY <2>7, <3>2, <4>1, <5>1, BackingExtends
      <4>5. QED
        BY <4>3, <4>4
    <3>5. QED
      BY <3>3, <3>4
  <2>13. QED
    BY <2>11, <2>12
<1>3. \A n \in Nat : n \in T
  <2> HIDE DEF T
  <2>1. QED
    BY <1>1, <1>2, InductionOnSet
<1>4. QED
  BY <1>3 DEF TypeInv, TypeOK, FileTypes

\* What FinalizedIsStable says of one minute.
Stable(m) ==
  /\ journal[m].at - End(m) >= MinimumAge
  /\ \E i, j \in 1..Len(log) :
       /\ i < j /\ j <= journal[m].seen
       /\ Counts(i, m) /\ Counts(j, m)
       /\ log[i].poll # log[j].poll /\ log[j].at - log[i].at >= Spacing
       /\ \A k \in i..Len(log) :
            k <= journal[m].seen /\ Counts(k, m) => log[k].value = journal[m].value

StableInv == \A m \in Finalized : journal[m].seen <= Len(log) /\ Stable(m)

LEMMA InitStable == Init => StableInv
BY DEF Init, StableInv, Finalized

\* What was recorded before a minute was finalized is not touched afterwards.
LEMMA StableStays ==
  ASSUME TypeInv, NEW m \in Finalized, journal[m].seen <= Len(log), Stable(m),
         journal'[m] = journal[m], Len(log') \in Nat, Len(log) <= Len(log'),
         \A i \in 1..Len(log) : log'[i] = log[i]
  PROVE  journal'[m].seen <= Len(log') /\ Stable(m)'
<1>1. /\ Len(log) \in Nat /\ journal[m].seen \in Nat /\ m \in Bars
  BY DEF TypeInv, TypeOK, FileTypes, Entry, Finalized
<1>2. PICK i \in 1..Len(log), j \in 1..Len(log) :
       /\ i < j /\ j <= journal[m].seen
       /\ Counts(i, m) /\ Counts(j, m)
       /\ log[i].poll # log[j].poll /\ log[j].at - log[i].at >= Spacing
       /\ \A k \in i..Len(log) :
            k <= journal[m].seen /\ Counts(k, m) => log[k].value = journal[m].value
  BY DEF Stable
<1>3. i \in 1..Len(log') /\ j \in 1..Len(log')
  BY <1>1
<1>4. \A k \in 1..Len(log) : Counts(k, m)' <=> Counts(k, m)
  BY DEF Counts
<1>5. ASSUME NEW k \in i..Len(log'), k <= journal[m].seen, Counts(k, m)'
      PROVE  log'[k].value = journal[m].value
  <2>1. k \in 1..Len(log) /\ k \in i..Len(log)
    BY <1>1, <1>5
  <2>2. QED
    BY <1>2, <1>4, <1>5, <2>1
<1>6. log'[i] = log[i] /\ log'[j] = log[j]
  OBVIOUS
<1>7. journal'[m].at - End(m) >= MinimumAge
  BY DEF Stable
<1>8. /\ i < j /\ j <= journal'[m].seen
      /\ Counts(i, m)' /\ Counts(j, m)'
      /\ log'[i].poll # log'[j].poll /\ log'[j].at - log'[i].at >= Spacing
      /\ \A k \in i..Len(log') :
           k <= journal'[m].seen /\ Counts(k, m)' => log'[k].value = journal'[m].value
  BY <1>2, <1>4, <1>5, <1>6
<1>9. Stable(m)'
  BY <1>3, <1>7, <1>8 DEF Stable
<1>10. QED
  BY <1>1, <1>9

\* What finalize_ready delivers was observed as the policy asks for.
LEMMA DeliveredIsStable ==
  ASSUME TypeInv, MemoryInv, phase = "finalize",
         NEW m \in Bars, Deliverable(m, response.at)
  PROVE  /\ response.at - End(m) >= MinimumAge
         /\ TwiceObserved(Len(log), m, candidates[m].value)
<1>1. /\ m > delivered /\ candidates[m].count >= Required
      /\ response.at - End(m) >= MinimumAge
  BY DEF Deliverable, Ready
<1>2. candidates[m] = Replay[Len(log)][m]
  BY <1>1 DEF MemoryInv, InStep
<1>3. Len(log) \in 0..Len(log)
  BY DEF TypeInv, TypeOK, FileTypes
<1>4. Backed(Len(log), m)
  BY <1>1, <1>3, ReplayIsBacked
<1>5. QED
  BY <1>1, <1>2, <1>4 DEF Backed

LEMMA StepStable ==
  ASSUME TypeInv, TypeInv', OrderInv, MemoryInv, StableInv, [Next]_vars
  PROVE  StableInv'
<1>1. CASE FinalizeOne
  <2>1. PICK f \in Bars :
           /\ Deliverable(f, response.at)
           /\ journal' = [journal EXCEPT ![f] = JournalEntry(f)]
           /\ phase = "finalize" /\ Finalized' = Finalized \union {f}
    BY <1>1, FinalizedGrows
  <2>2. log' = log /\ Len(log) \in Nat /\ f \notin Finalized
    <3>1. response.at \in Nat
      BY DEF TypeInv, TypeOK, CycleTypes, ResponseRecords
    <3>2. QED
      BY <1>1, <2>1, <3>1, DeliverableIsNext DEF FinalizeOne, TypeInv, TypeOK, FileTypes
  <2>3. journal'[f] = JournalEntry(f)
    BY <2>1 DEF TypeInv, TypeOK, FileTypes
  <2>4. /\ journal'[f].value = candidates[f].value /\ journal'[f].at = response.at
        /\ journal'[f].seen = Len(log)
    BY <2>3 DEF JournalEntry
  <2>5. /\ response.at - End(f) >= MinimumAge
        /\ TwiceObserved(Len(log), f, candidates[f].value)
    BY <2>1, DeliveredIsStable
  <2>6. Stable(f)'
    <3>1. PICK i \in 1..Len(log), j \in 1..Len(log) :
            /\ i < j /\ Counts(i, f) /\ Counts(j, f)
            /\ log[i].poll # log[j].poll /\ log[j].at - log[i].at >= Spacing
            /\ Steady(i, Len(log), f, candidates[f].value)
      BY <2>5 DEF TwiceObserved
    <3>2. \A k \in 1..Len(log) : Counts(k, f)' <=> Counts(k, f)
      BY <2>2 DEF Counts
    <3>3. \A k \in i..Len(log) : k \in 1..Len(log)
      BY <2>2
    <3>4. QED
      BY <2>2, <2>4, <2>5, <3>1, <3>2, <3>3 DEF Stable, Steady
  <2>7. ASSUME NEW m \in Finalized PROVE journal'[m].seen <= Len(log') /\ Stable(m)'
    <3>1. journal'[m] = journal[m]
      BY <2>1, <2>2 DEF TypeInv, TypeOK, FileTypes, Finalized
    <3>2. Len(log') \in Nat /\ Len(log) <= Len(log') /\ \A i \in 1..Len(log) : log'[i] = log[i]
      BY <2>2
    <3>3. journal[m].seen <= Len(log) /\ Stable(m)
      BY DEF StableInv
    <3>4. QED
      BY <3>1, <3>2, <3>3, StableStays
  <2>8. QED
    BY <2>1, <2>2, <2>4, <2>6, <2>7 DEF StableInv
<1>2. CASE ~FinalizeOne
  <2>1. journal' = journal /\ Finalized' = Finalized
    BY <1>2 DEF Next, vars, files, Start, Rehydrate, Rehydrated, Subscribe, BeginCycle,
       Respond, RequestFails, AppendObservation, ObserveResponse, SaveCursor,
       Tick, Revise, Crash, Finalized
  <2>2. Len(log') \in Nat /\ Len(log) <= Len(log') /\ \A i \in 1..Len(log) : log'[i] = log[i]
    <3>1. CASE AppendObservation
      <4>1. PICK x \in Observation : log' = Append(log, x)
        <5>1. PICK m \in unsaved :
                log' = Append(log, [minute |-> m, value |-> response.values[m],
                                    at |-> response.at, poll |-> poll,
                                    eligible |-> m \in response.eligible])
          BY <3>1 DEF AppendObservation
        <5>2. [minute |-> m, value |-> response.values[m], at |-> response.at,
               poll |-> poll, eligible |-> m \in response.eligible] \in Observation
          BY DEF Observation, TypeInv, TypeOK, CycleTypes, ResponseRecords
        <5>3. QED
          BY <5>1, <5>2
      <4>2. QED
        BY <4>1 DEF TypeInv, TypeOK, FileTypes
    <3>2. CASE ~AppendObservation
      <4>1. log' = log
        BY <1>2, <3>2 DEF Next, vars, files, Start, Rehydrate, Rehydrated, Subscribe,
           BeginCycle, Respond, RequestFails, ObserveResponse, SaveCursor,
           Tick, Revise, Crash
      <4>2. QED
        BY <4>1 DEF TypeInv, TypeOK, FileTypes
    <3>3. QED
      BY <3>1, <3>2
  <2>3. QED
    BY <2>1, <2>2, StableStays DEF StableInv
<1>3. QED
  BY <1>1, <1>2

\* Every finalized value was observed in two polls, far enough apart, with no
\* other value of the minute recorded since, and old enough: for any number of
\* revisions, omissions and restarts.
THEOREM FinalizedIsStableCorrect == Spec => []FinalizedIsStable
<1>1. Init => TypeInv /\ OrderInv /\ MemoryInv /\ StableInv
  BY InitTypes, InitOrder, InitMemory, InitStable
<1>2. TypeInv /\ OrderInv /\ MemoryInv /\ StableInv /\ [Next]_vars
      => (TypeInv /\ OrderInv /\ MemoryInv /\ StableInv)'
  BY StepTypes, StepOrder, StepMemory, StepStable
<1>3. StableInv => FinalizedIsStable
  BY DEF StableInv, Stable, FinalizedIsStable
<1>4. QED
  BY <1>1, <1>2, <1>3, PTL DEF Spec

=============================================================================
