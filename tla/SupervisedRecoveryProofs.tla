----------------------- MODULE SupervisedRecoveryProofs -----------------------
(***************************************************************************)
(* Proofs about SupervisedRecovery for any number of supervisors, workers  *)
(* and launches, and any policy: there is one outstanding launch, one      *)
(* supervised worker, a verified launch owned the run, and launches stay   *)
(* within the budget.                                                      *)
(***************************************************************************)
EXTENDS SupervisedRecovery, NaturalSets, FiniteSetTheorems

USE PolicyAssumption, ProcessAssumption

-----------------------------------------------------------------------------
(* The history as a sequence.                                              *)

\* Replacing the last element keeps the others, the length and the type.
LEMMA UpdateLast ==
  ASSUME NEW S, NEW q \in Seq(S), q # <<>>, NEW e \in S
  PROVE  LET r == [q EXCEPT ![Len(q)] = e]
         IN /\ r \in Seq(S) /\ r # <<>> /\ Len(r) = Len(q) /\ r[Len(r)] = e
            /\ \A i \in 1..(Len(r) - 1) : r[i] = q[i]
OBVIOUS

\* Appending keeps the elements before.
LEMMA AppendLast ==
  ASSUME NEW S, NEW q \in Seq(S), NEW e \in S
  PROVE  LET r == Append(q, e)
         IN /\ r \in Seq(S) /\ r # <<>> /\ Len(r) = Len(q) + 1 /\ r[Len(r)] = e
            /\ \A i \in 1..Len(q) : r[i] = q[i]
OBVIOUS

\* LatestBecomes, spelled out.
LEMMA LatestBecomesFacts ==
  ASSUME attempts \in Seq(Attempts), attempts # <<>>,
         NEW state \in {"failed", "verified"}, LatestBecomes(state)
  PROVE  /\ attempts' \in Seq(Attempts) /\ attempts' # <<>>
         /\ Len(attempts') = Len(attempts)
         /\ Latest' = [Latest EXCEPT !.state = state]
         /\ \A i \in 1..(Len(attempts) - 1) : attempts'[i] = attempts[i]
<1>1. Latest \in Attempts
  BY DEF Latest
<1>2. [Latest EXCEPT !.state = state] \in Attempts
  BY <1>1 DEF Attempts
<1>3. attempts' = [attempts EXCEPT ![Len(attempts)] = [Latest EXCEPT !.state = state]]
  BY DEF LatestBecomes, Latest
<1> DEFINE e == [Latest EXCEPT !.state = state]
<1> HIDE DEF e
<1>4. /\ attempts' \in Seq(Attempts) /\ attempts' # <<>> /\ Len(attempts') = Len(attempts)
      /\ attempts'[Len(attempts')] = e
      /\ \A i \in 1..(Len(attempts') - 1) : attempts'[i] = attempts[i]
  <2>1. e \in Attempts /\ attempts' = [attempts EXCEPT ![Len(attempts)] = e]
    BY <1>2, <1>3 DEF e
  <2>2. QED
    BY <2>1, UpdateLast
<1>5. Latest' = e
  BY <1>4 DEF Latest
<1>6. QED
  BY <1>4, <1>5 DEF e

\* Record, spelled out.
RecordedAttempt(s) == [Latest EXCEPT !.state = "unverified", !.launcher = Identity(s)]
LEMMA RecordFacts ==
  ASSUME TypeOK, attempts # <<>>, NEW s \in Supervisors, Record(s)
  PROVE  /\ attempts' \in Seq(Attempts) /\ attempts' # <<>>
         /\ Len(attempts') = Len(attempts)
         /\ Latest' = RecordedAttempt(s)
         /\ \A i \in 1..(Len(attempts) - 1) : attempts'[i] = attempts[i]
<1>1. Latest \in Attempts /\ Identity(s) \in Workers \union {None}
  BY DEF Latest, TypeOK, Identity, Alive
<1>2. RecordedAttempt(s) \in Attempts
  BY <1>1 DEF Attempts, RecordedAttempt
<1>3. attempts' = [attempts EXCEPT ![Len(attempts)] = RecordedAttempt(s)]
  BY DEF Record, Latest, Outcome, RecordedAttempt
<1>4. QED
  BY <1>2, <1>3, UpdateLast DEF Latest, TypeOK

-----------------------------------------------------------------------------
(* Locks.                                                                  *)

\* Steps under the controller's lock, steps that hold the writer's lock to
\* probe it, and steps that follow a reservation.
Inside == {"entered", "probing", "inspected", "reserved", "launched",
           "verifying", "unproven", "proven"}
Probing == {"probing", "unproven", "peeking"}
Following == {"reserved", "launched", "verifying", "unproven", "proven"}

\* Whoever is inside holds the lock; so does whoever probes; and the running
\* worker is the one that owns the run.
LocksHeld ==
  /\ \A s \in Supervisors : at[s] \in Inside => controller = s
  /\ \A s \in Supervisors : at[s] \in Probing => writer = s
  /\ \A p \in Workers : worker[p] = "running" <=> writer = p

HasLaunch == \A s \in Supervisors : at[s] \in Following => attempts # <<>>

TypeInv == TypeOK /\ LocksHeld /\ HasLaunch

LEMMA TypeInit == Init => TypeInv
BY DEF Init, TypeInv, TypeOK, LocksHeld, HasLaunch, Steps, Lives, Inside, Probing, Following

\* The steps that leave the history alone.
LEMMA TypeQuietStep ==
  ASSUME TypeInv, NEW s \in Supervisors,
         \/ Ask(s) \/ TurnedAway(s) \/ Enter(s) \/ Decline(s)
         \/ Probe(s) \/ WriterActive(s) \/ Inspected(s) \/ Blocked(s)
         \/ Launch(s) \/ Verify(s) \/ VerifyProbe(s) \/ NotVerified(s)
         \/ OwnershipSeen(s) \/ Peek(s) \/ PeekEnds(s) \/ Crash(s)
  PROVE  TypeInv'
<1> USE DEF TypeInv, TypeOK, LocksHeld, HasLaunch, Steps, Lives, Inside, Probing,
            Following, Goto, Return, supervisors, processes
<1>1. CASE Ask(s) BY <1>1 DEF Ask
<1>2. CASE TurnedAway(s) BY <1>2 DEF TurnedAway
<1>3. CASE Enter(s) BY <1>3 DEF Enter
<1>4. CASE Decline(s) BY <1>4 DEF Decline
<1>5. CASE Probe(s) BY <1>5 DEF Probe
<1>6. CASE WriterActive(s) BY <1>6 DEF WriterActive
<1>7. CASE Inspected(s) BY <1>7 DEF Inspected
<1>8. CASE Blocked(s) BY <1>8 DEF Blocked
<1>9. CASE Launch(s) BY <1>9 DEF Launch
<1>10. CASE Verify(s) BY <1>10 DEF Verify
<1>11. CASE VerifyProbe(s) BY <1>11 DEF VerifyProbe
<1>12. CASE NotVerified(s) BY <1>12 DEF NotVerified
<1>13. CASE OwnershipSeen(s) BY <1>13 DEF OwnershipSeen
<1>14. CASE Peek(s) BY <1>14 DEF Peek
<1>15. CASE PeekEnds(s) BY <1>15 DEF PeekEnds
<1>16. CASE Crash(s) BY <1>16 DEF Crash
<1> QED
  BY <1>1, <1>2, <1>3, <1>4, <1>5, <1>6, <1>7, <1>8, <1>9, <1>10, <1>11, <1>12,
     <1>13, <1>14, <1>15, <1>16

\* The steps that write the history.
LEMMA TypeWritingStep ==
  ASSUME TypeInv, NEW s \in Supervisors,
         Reserve(s) \/ LaunchFails(s) \/ Record(s) \/ Verified(s)
  PROVE  TypeInv'
<1> USE DEF TypeInv, LocksHeld, HasLaunch, Steps, Lives, Inside, Probing, Following,
            Goto, Return, supervisors, processes
<1>1. attempts' \in Seq(Attempts) /\ attempts' # <<>>
  <2>1. CASE Reserve(s)
    <3>1. [at |-> asked[s], state |-> "reserved", launcher |-> None] \in Attempts
      BY DEF Attempts, TypeOK
    <3>2. QED
      BY <2>1, <3>1, AppendLast DEF Reserve, TypeOK
  <2>2. CASE LaunchFails(s)
    BY <2>2, LatestBecomesFacts DEF LaunchFails, TypeOK
  <2>3. CASE Record(s)
    <3>1. attempts # <<>>
      BY <2>3 DEF Record
    <3>2. QED
      BY <2>3, <3>1, RecordFacts
  <2>4. CASE Verified(s)
    BY <2>4, LatestBecomesFacts DEF Verified, TypeOK
  <2>5. QED
    BY <2>1, <2>2, <2>3, <2>4
<1>2. CASE Reserve(s) BY <1>1, <1>2 DEF Reserve, TypeOK
<1>3. CASE LaunchFails(s) BY <1>1, <1>3 DEF LaunchFails, TypeOK
<1>4. CASE Record(s) BY <1>1, <1>4 DEF Record, TypeOK
<1>5. CASE Verified(s) BY <1>1, <1>5 DEF Verified, TypeOK
<1> QED
  BY <1>2, <1>3, <1>4, <1>5

\* The steps of workers and of the clock.
LEMMA TypeWorkerStep ==
  ASSUME TypeInv, NEW p \in Workers, ManualStart(p) \/ TakeRun(p) \/ Refused(p) \/ Dies(p)
  PROVE  TypeInv'
<1> USE DEF TypeInv, TypeOK, LocksHeld, HasLaunch, Steps, Lives, Inside, Probing,
            Following, supervisors
<1>1. CASE ManualStart(p) BY <1>1 DEF ManualStart
<1>2. CASE TakeRun(p) BY <1>2 DEF TakeRun
<1>3. CASE Refused(p) BY <1>3 DEF Refused
<1>4. CASE Dies(p) BY <1>4 DEF Dies, Alive
<1> QED
  BY <1>1, <1>2, <1>3, <1>4

LEMMA TypeStep == TypeInv /\ [Next]_vars => TypeInv'
<1> SUFFICES ASSUME TypeInv, [Next]_vars PROVE TypeInv'
  OBVIOUS
<1>1. ASSUME NEW s \in Supervisors, SupervisorStep(s) PROVE TypeInv'
  BY <1>1, TypeQuietStep, TypeWritingStep DEF SupervisorStep
<1>2. ASSUME NEW p \in Workers, ManualStart(p) \/ TakeRun(p) \/ Refused(p) \/ Dies(p)
      PROVE  TypeInv'
  BY <1>2, TypeWorkerStep
<1>3. CASE Tick
  BY <1>3 DEF Tick, TypeInv, TypeOK, LocksHeld, HasLaunch, supervisors, processes
<1>4. CASE UNCHANGED vars
  BY <1>4 DEF vars, TypeInv, TypeOK, LocksHeld, HasLaunch, supervisors, processes
<1>5. QED
  BY <1>1, <1>2, <1>3, <1>4 DEF Next

\* Every variable stays in its domain, for any number of processes.
THEOREM SupervisedTypeCorrect == Spec => []TypeOK
<1>1. TypeInv => TypeOK
  BY DEF TypeInv
<1>2. QED
  BY TypeInit, TypeStep, <1>1, PTL DEF Spec

-----------------------------------------------------------------------------
(* Launches.                                                               *)

Settled == {"failed", "verified"}
Ready == {"probing", "inspected"}

\* Every launch before the last is settled, and so is the last one while a
\* supervisor is on its way to another reservation.
HistorySettled ==
  /\ OneOutstandingLaunch
  /\ \A s \in Supervisors : at[s] \in Ready => attempts = <<>> \/ Latest.state \in Settled
  /\ \A s \in Supervisors : at[s] \in {"reserved", "launched"} => Latest.state = "reserved"

\* A launch with a known worker was not given up, and the worker is one that a
\* controller started.
LaunchersKnown ==
  /\ \A i \in 1..Len(attempts) : attempts[i].launcher # None =>
       /\ attempts[i].state \in {"unverified", "verified"}
       /\ attempts[i].launcher \in byController
  /\ \A s \in Supervisors : at[s] = "launched" => started[s] \in byController
  /\ \A s \in Supervisors : at[s] \in {"verifying", "unproven", "proven"} =>
       Latest.launcher # None
  /\ \A s \in Supervisors : at[s] = "proven" =>
       worker[Latest.launcher] \in {"running", "ended"}

\* The supervised workers alive: none on the way to a launch, only the running
\* one once the last launch is settled, only the last launch's own otherwise.
NoneAlive == \A p \in byController : ~Alive(p)
WorkersKnown ==
  /\ OneSupervisedWorker
  /\ \A p \in byController : worker[p] # "unborn"
  /\ attempts = <<>> => byController = {}
  /\ \A s \in Supervisors : at[s] \in Ready \union {"reserved"} => NoneAlive
  /\ attempts # <<>> /\ Latest.state \in Settled =>
       \A p \in byController : Alive(p) => worker[p] = "running"
  /\ attempts # <<>> /\ Latest.launcher # None =>
       \A p \in byController : Alive(p) => p = Latest.launcher
  /\ \A s \in Supervisors : at[s] = "launched" =>
       \A p \in byController : Alive(p) => p = started[s]

LaunchInv == HistorySettled /\ LaunchersKnown /\ WorkersKnown /\ VerifiedOwnedTheRun

LEMMA LaunchInit == Init => LaunchInv
BY DEF Init, LaunchInv, HistorySettled, LaunchersKnown, WorkersKnown, NoneAlive, Ready,
       OneOutstandingLaunch, OneSupervisedWorker, VerifiedOwnedTheRun

\* Only one supervisor is inside.
LEMMA OneInside ==
  ASSUME TypeInv, NEW s \in Supervisors, NEW t \in Supervisors,
         at[s] \in Inside, at[t] \in Inside
  PROVE  s = t
BY DEF TypeInv, LocksHeld

\* The last launch is one of the launches.
LEMMA LatestType ==
  ASSUME TypeInv, attempts # <<>>
  PROVE  Latest \in Attempts
BY DEF TypeInv, TypeOK, Latest

\* Where a reservation may follow and nobody owns the run, no supervised worker
\* is alive.
LEMMA ProbeFindsNone ==
  ASSUME TypeInv, LaunchInv, writer = None, ~Unreconciled
  PROVE  (attempts = <<>> \/ Latest.state \in Settled) /\ NoneAlive
<1>1. attempts = <<>> \/ Latest.state \in Settled
  BY LatestType DEF Unreconciled, Settled, Attempts
<1>2. ASSUME NEW p \in byController, Alive(p) PROVE FALSE
  <2>1. p \in Workers /\ attempts # <<>>
    BY <1>2 DEF LaunchInv, WorkersKnown, TypeInv, TypeOK
  <2>2. worker[p] = "running"
    BY <1>1, <1>2, <2>1 DEF LaunchInv, WorkersKnown
  <2>3. QED
    BY <2>1, <2>2 DEF TypeInv, LocksHeld
<1>3. QED
  BY <1>1, <1>2 DEF NoneAlive

\* The owner a verification sees is the last launch's worker, and it runs.
LEMMA OwnerRuns ==
  ASSUME TypeInv, LaunchInv, NEW s \in Supervisors, at[s] = "verifying", Owner
  PROVE  worker[Latest.launcher] = "running"
<1>1. attempts # <<>> /\ Latest.launcher # None
  BY DEF TypeInv, HasLaunch, Following, LaunchInv, LaunchersKnown
<1>2. Latest.launcher \in Workers
  BY <1>1, LatestType DEF Attempts
<1>3. QED
  BY <1>2 DEF Owner, TypeInv, LocksHeld

\* Steps of supervisors that neither write the history nor start a worker.
LEMMA LaunchQuietStep ==
  ASSUME TypeInv, LaunchInv, NEW s \in Supervisors,
         \/ Ask(s) \/ TurnedAway(s) \/ Enter(s) \/ Decline(s)
         \/ Probe(s) \/ WriterActive(s) \/ Inspected(s) \/ Blocked(s)
         \/ Verify(s) \/ VerifyProbe(s) \/ NotVerified(s)
         \/ OwnershipSeen(s) \/ Peek(s) \/ PeekEnds(s) \/ Crash(s)
  PROVE  LaunchInv'
<1> USE DEF TypeInv, TypeOK, LaunchInv, HistorySettled, LaunchersKnown, WorkersKnown,
            NoneAlive, Ready, Settled, OneOutstandingLaunch, OneSupervisedWorker,
            VerifiedOwnedTheRun, Steps, Lives, Alive, Latest, Goto, Return, processes
<1>1. CASE Ask(s) BY <1>1 DEF Ask
<1>2. CASE TurnedAway(s) BY <1>2 DEF TurnedAway
<1>3. CASE Enter(s) BY <1>3 DEF Enter
<1>4. CASE Decline(s) BY <1>4 DEF Decline
<1>5. CASE Probe(s)
  <2>1. (attempts = <<>> \/ Latest.state \in Settled) /\ NoneAlive
    BY <1>5, ProbeFindsNone DEF Probe, MayTry
  <2>2. QED
    BY <1>5, <2>1 DEF Probe
<1>6. CASE WriterActive(s) BY <1>6 DEF WriterActive
<1>7. CASE Inspected(s) BY <1>7 DEF Inspected
<1>8. CASE Blocked(s) BY <1>8 DEF Blocked
<1>9. CASE Verify(s) BY <1>9 DEF Verify
<1>10. CASE VerifyProbe(s) BY <1>10 DEF VerifyProbe
<1>11. CASE NotVerified(s) BY <1>11 DEF NotVerified
<1>12. CASE OwnershipSeen(s)
  <2>1. worker[Latest.launcher] = "running"
    BY <1>12, OwnerRuns DEF OwnershipSeen
  <2>2. QED
    BY <1>12, <2>1 DEF OwnershipSeen
<1>13. CASE Peek(s) BY <1>13 DEF Peek
<1>14. CASE PeekEnds(s) BY <1>14 DEF PeekEnds
<1>15. CASE Crash(s) BY <1>15 DEF Crash
<1> QED
  BY <1>1, <1>2, <1>3, <1>4, <1>5, <1>6, <1>7, <1>8, <1>9, <1>10, <1>11, <1>12,
     <1>13, <1>14, <1>15

\* A worker starts: it is the only supervised one alive.
LEMMA LaunchLaunches ==
  ASSUME TypeInv, LaunchInv, NEW s \in Supervisors, Launch(s)
  PROVE  LaunchInv'
<1> USE DEF Launch, Goto
<1>1. PICK p \in Workers :
        /\ worker[p] = "unborn"
        /\ worker' = [worker EXCEPT ![p] = "starting"]
        /\ byController' = byController \union {p}
        /\ started' = [started EXCEPT ![s] = p]
  OBVIOUS
<1>2. at[s] = "reserved" /\ attempts # <<>> /\ Latest.state = "reserved" /\ NoneAlive
  BY DEF TypeInv, HasLaunch, Following, LaunchInv, HistorySettled, WorkersKnown
<1>3. Latest.launcher = None /\ Latest.state \notin Settled
  <2>1. Len(attempts) \in 1..Len(attempts)
    BY <1>2 DEF TypeInv, TypeOK
  <2>2. QED
    BY <1>2, <2>1 DEF LaunchInv, LaunchersKnown, Latest, Settled
<1>4. \A t \in Supervisors : at[t] \in Inside => t = s
  BY <1>2, OneInside DEF Inside
<1>5. \A q \in byController' : Alive(q)' => q = p
  BY <1>1, <1>2 DEF NoneAlive, Alive, TypeInv, TypeOK
<1>6. HistorySettled'
  BY <1>2 DEF LaunchInv, HistorySettled, OneOutstandingLaunch, Latest, Ready, TypeInv, TypeOK
<1>7. LaunchersKnown'
  BY <1>1, <1>2, <1>4 DEF LaunchInv, LaunchersKnown, Latest, Inside, TypeInv, TypeOK
<1>8. WorkersKnown'
  BY <1>1, <1>2, <1>3, <1>4, <1>5
  DEF LaunchInv, WorkersKnown, OneSupervisedWorker, NoneAlive, Ready, Inside, Latest,
      TypeInv, TypeOK
<1>9. VerifiedOwnedTheRun'
  BY <1>1, <1>2 DEF LaunchInv, VerifiedOwnedTheRun, TypeInv, TypeOK
<1>10. QED
  BY <1>6, <1>7, <1>8, <1>9 DEF LaunchInv

\* A reservation opens a launch nobody knows the outcome of; the ones before are
\* settled and no worker of theirs is alive.
LEMMA LaunchReserves ==
  ASSUME TypeInv, LaunchInv, NEW s \in Supervisors, Reserve(s)
  PROVE  LaunchInv'
<1> DEFINE e == [at |-> asked[s], state |-> "reserved", launcher |-> None]
<1>1. /\ attempts' # <<>> /\ Len(attempts') = Len(attempts) + 1 /\ Latest' = e
      /\ \A i \in 1..Len(attempts) : attempts'[i] = attempts[i]
  <2>1. e \in Attempts /\ attempts \in Seq(Attempts) /\ attempts' = Append(attempts, e)
    BY DEF TypeInv, TypeOK, Attempts, Reserve
  <2>2. QED
    BY <2>1, AppendLast DEF Latest
<1>2. at[s] = "inspected" /\ NoneAlive /\ (attempts = <<>> \/ Latest.state \in Settled)
  BY DEF Reserve, LaunchInv, WorkersKnown, HistorySettled, Ready
<1>3. \A t \in Supervisors : at[t] \in Inside => t = s
  BY <1>2, OneInside DEF Inside
<1>4. \A i \in 1..Len(attempts) : attempts[i].state \in Settled
  BY <1>2 DEF LaunchInv, HistorySettled, OneOutstandingLaunch, Latest, Settled, TypeInv, TypeOK
<1>5. HistorySettled'
  BY <1>1, <1>2, <1>3, <1>4
  DEF Reserve, Goto, HistorySettled, OneOutstandingLaunch, Settled, Ready, Inside, TypeInv, TypeOK
<1>6. LaunchersKnown'
  <2>1. Len(attempts) \in Nat /\ attempts'[Len(attempts')] = e
    BY <1>1 DEF TypeInv, TypeOK, Latest
  <2>2. QED
    BY <1>1, <1>2, <1>3, <2>1
    DEF Reserve, Goto, LaunchInv, LaunchersKnown, Inside, TypeInv, TypeOK, processes
<1>7. WorkersKnown'
  BY <1>1, <1>2, <1>3
  DEF Reserve, Goto, LaunchInv, WorkersKnown, OneSupervisedWorker, NoneAlive, Alive, Ready,
      Inside, Settled, TypeInv, TypeOK, processes
<1>8. VerifiedOwnedTheRun'
  <2>1. SUFFICES ASSUME NEW i \in 1..Len(attempts'), attempts'[i].state = "verified"
                 PROVE  /\ attempts'[i].launcher \in byController'
                        /\ worker'[attempts'[i].launcher] \in {"running", "ended"}
    BY DEF VerifiedOwnedTheRun
  <2>2. i \in 1..Len(attempts)
    BY <1>1, <2>1 DEF TypeInv, TypeOK, Latest
  <2>3. QED
    BY <1>1, <2>1, <2>2 DEF Reserve, LaunchInv, VerifiedOwnedTheRun, processes
<1>9. QED
  BY <1>5, <1>6, <1>7, <1>8 DEF LaunchInv

\* After a step that rewrites the last launch, every launch is the last one or
\* an earlier one.
LEMMA EarlierOrLast ==
  ASSUME Len(attempts) \in Nat, Len(attempts') = Len(attempts), NEW i \in 1..Len(attempts')
  PROVE  attempts'[i] = Latest' \/ i \in 1..(Len(attempts) - 1)
<1>1. CASE i = Len(attempts)
  <2>1. attempts'[i] = Latest'
    BY <1>1 DEF Latest
  <2>2. QED
    BY <2>1
<1>2. CASE i # Len(attempts)
  BY <1>2
<1>3. QED
  BY <1>1, <1>2

\* A launch that started nothing is settled as failed.
LEMMA LaunchFailed ==
  ASSUME TypeInv, LaunchInv, NEW s \in Supervisors, LaunchFails(s)
  PROVE  LaunchInv'
<1>1. at[s] = "reserved" /\ attempts # <<>> /\ Latest.state = "reserved" /\ NoneAlive
  BY DEF LaunchFails, TypeInv, HasLaunch, Following, LaunchInv, HistorySettled, WorkersKnown
<1>2. /\ attempts' # <<>> /\ Len(attempts') = Len(attempts)
      /\ Latest' = [Latest EXCEPT !.state = "failed"]
      /\ \A i \in 1..(Len(attempts) - 1) : attempts'[i] = attempts[i]
  BY <1>1, LatestBecomesFacts DEF LaunchFails, TypeInv, TypeOK
<1>3. Latest \in Attempts /\ Len(attempts) \in Nat \ {0}
  BY <1>1, LatestType DEF TypeInv, TypeOK
<1>4. Latest'.state = "failed" /\ Latest'.launcher = None
  <2>1. Latest.launcher = None
    BY <1>1, <1>3 DEF LaunchInv, LaunchersKnown, Latest
  <2>2. QED
    BY <1>2, <1>3, <2>1 DEF Attempts
<1>5. \A t \in Supervisors : at[t] \in Inside => t = s
  BY <1>1, OneInside DEF Inside
<1>6. HistorySettled'
  BY <1>1, <1>2, <1>3, <1>4, <1>5
  DEF LaunchFails, Return, Goto, LaunchInv, HistorySettled, OneOutstandingLaunch, Ready, Inside,
      Settled, TypeInv, TypeOK
<1>7. LaunchersKnown'
  <2>1. ASSUME NEW i \in 1..Len(attempts'), attempts'[i].launcher # None
        PROVE  i \in 1..(Len(attempts) - 1)
    BY <1>2, <1>3, <1>4, <2>1, EarlierOrLast
  <2>2. \A i \in 1..Len(attempts') : attempts'[i].launcher # None =>
          /\ attempts'[i].state \in {"unverified", "verified"}
          /\ attempts'[i].launcher \in byController
    BY <1>2, <1>3, <2>1 DEF LaunchInv, LaunchersKnown
  <2>3. \A t \in Supervisors : at'[t] \notin {"launched", "verifying", "unproven", "proven"}
    BY <1>5 DEF LaunchFails, Return, Goto, Inside, TypeInv, TypeOK
  <2>4. QED
    BY <2>2, <2>3 DEF LaunchFails, LaunchersKnown, processes
<1>8. WorkersKnown'
  BY <1>1, <1>2, <1>4, <1>5
  DEF LaunchFails, Return, Goto, LaunchInv, WorkersKnown, OneSupervisedWorker, NoneAlive, Alive,
      Ready, Inside, Settled, TypeInv, TypeOK, processes
<1>9. VerifiedOwnedTheRun'
  <2>1. ASSUME NEW i \in 1..Len(attempts'), attempts'[i].state = "verified"
        PROVE  i \in 1..(Len(attempts) - 1)
    BY <1>2, <1>3, <1>4, <2>1, EarlierOrLast
  <2>2. QED
    BY <1>2, <1>3, <2>1 DEF LaunchFails, LaunchInv, VerifiedOwnedTheRun, processes
<1>10. QED
  BY <1>6, <1>7, <1>8, <1>9 DEF LaunchInv

\* The launch is recorded with the worker that was started, if it still lives.
LEMMA LaunchRecorded ==
  ASSUME TypeInv, LaunchInv, NEW s \in Supervisors, Record(s)
  PROVE  LaunchInv'
<1>1. /\ at[s] = "launched" /\ attempts # <<>> /\ started[s] \in byController
      /\ started[s] \in Workers
      /\ \A p \in byController : Alive(p) => p = started[s]
  BY DEF Record, TypeInv, TypeOK, HasLaunch, Following, LaunchInv, LaunchersKnown, WorkersKnown
<1>2. /\ attempts' # <<>> /\ Len(attempts') = Len(attempts)
      /\ Latest' = RecordedAttempt(s)
      /\ \A i \in 1..(Len(attempts) - 1) : attempts'[i] = attempts[i]
  BY <1>1, RecordFacts DEF TypeInv
<1>3. Latest \in Attempts /\ Len(attempts) \in Nat \ {0}
  BY <1>1, LatestType DEF TypeInv, TypeOK
<1>4. /\ RecordedAttempt(s).state = "unverified"
      /\ RecordedAttempt(s).launcher = Identity(s)
  BY <1>3 DEF RecordedAttempt, Attempts
<1>5. /\ Identity(s) # None => Identity(s) = started[s]
      /\ Identity(s) # None => Identity(s) \in byController
      /\ \A p \in byController : Alive(p) => p = Identity(s)
  BY <1>1 DEF Identity
<1>6. \A t \in Supervisors : at[t] \in Inside => t = s
  BY <1>1, OneInside DEF Inside
<1>7. HistorySettled'
  BY <1>1, <1>2, <1>3, <1>6
  DEF Record, Return, Goto, LaunchInv, HistorySettled, OneOutstandingLaunch, Ready, Inside,
      Settled, TypeInv, TypeOK
<1>8. LaunchersKnown'
  <2>1. ASSUME NEW i \in 1..Len(attempts'), attempts'[i].launcher # None
        PROVE  /\ attempts'[i].state \in {"unverified", "verified"}
               /\ attempts'[i].launcher \in byController
    <3>1. CASE attempts'[i] = RecordedAttempt(s)
      BY <1>4, <1>5, <2>1, <3>1
    <3>2. CASE i \in 1..(Len(attempts) - 1)
      BY <1>2, <1>3, <2>1, <3>2 DEF LaunchInv, LaunchersKnown
    <3>3. QED
      BY <1>2, <1>3, <3>1, <3>2, EarlierOrLast
  <2>2. \A t \in Supervisors : at'[t] \notin {"launched", "verifying", "unproven", "proven"}
    BY <1>6 DEF Record, Return, Goto, Inside, TypeInv, TypeOK
  <2>3. QED
    BY <2>1, <2>2 DEF Record, LaunchersKnown, processes
<1>9. WorkersKnown'
  <2>1. \A t \in Supervisors : at'[t] \notin Ready \union {"reserved", "launched"}
    BY <1>6 DEF Record, Return, Goto, Inside, Ready, TypeInv, TypeOK
  <2>2. QED
    BY <1>1, <1>2, <1>4, <1>5, <2>1
    DEF Record, LaunchInv, WorkersKnown, OneSupervisedWorker, NoneAlive, Alive, Settled, processes
<1>10. VerifiedOwnedTheRun'
  <2>1. ASSUME NEW i \in 1..Len(attempts'), attempts'[i].state = "verified"
        PROVE  i \in 1..(Len(attempts) - 1)
    BY <1>2, <1>3, <1>4, <2>1, EarlierOrLast
  <2>2. QED
    BY <1>2, <1>3, <2>1 DEF Record, LaunchInv, VerifiedOwnedTheRun, processes
<1>11. QED
  BY <1>7, <1>8, <1>9, <1>10 DEF LaunchInv

\* A launch is verified: its worker runs or has run.
LEMMA LaunchVerified ==
  ASSUME TypeInv, LaunchInv, NEW s \in Supervisors, Verified(s)
  PROVE  LaunchInv'
<1>1. /\ at[s] = "proven" /\ attempts # <<>> /\ Latest.launcher # None
      /\ worker[Latest.launcher] \in {"running", "ended"}
  BY DEF Verified, TypeInv, HasLaunch, Following, LaunchInv, LaunchersKnown
<1>2. /\ attempts' # <<>> /\ Len(attempts') = Len(attempts)
      /\ Latest' = [Latest EXCEPT !.state = "verified"]
      /\ \A i \in 1..(Len(attempts) - 1) : attempts'[i] = attempts[i]
  BY <1>1, LatestBecomesFacts DEF Verified, TypeInv, TypeOK
<1>3. Latest \in Attempts /\ Len(attempts) \in Nat \ {0}
  BY <1>1, LatestType DEF TypeInv, TypeOK
<1>4. Latest.launcher \in byController
  BY <1>1, <1>3 DEF LaunchInv, LaunchersKnown, Latest
<1>5. DEFINE e == [Latest EXCEPT !.state = "verified"]
<1>6. e.state = "verified" /\ e.launcher = Latest.launcher
  BY <1>3 DEF Attempts
<1>7. \A t \in Supervisors : at[t] \in Inside => t = s
  BY <1>1, OneInside DEF Inside
<1>8. \A p \in byController : Alive(p) => p = Latest.launcher
  BY <1>1 DEF LaunchInv, WorkersKnown
<1>9. \A p \in byController : Alive(p) => worker[p] = "running"
  BY <1>1, <1>8 DEF Alive
<1>10. HistorySettled'
  BY <1>1, <1>2, <1>3, <1>7
  DEF Verified, Return, Goto, LaunchInv, HistorySettled, OneOutstandingLaunch, Ready, Inside,
      Settled, TypeInv, TypeOK
<1>11. \A i \in 1..Len(attempts') : attempts'[i] = e \/ attempts'[i] = attempts[i]
  BY <1>2, <1>3, EarlierOrLast
<1>12. LaunchersKnown'
  <2>1. ASSUME NEW i \in 1..Len(attempts'), attempts'[i].launcher # None
        PROVE  /\ attempts'[i].state \in {"unverified", "verified"}
               /\ attempts'[i].launcher \in byController
    BY <1>2, <1>4, <1>6, <1>11, <2>1 DEF LaunchInv, LaunchersKnown
  <2>2. \A t \in Supervisors : at'[t] \notin {"launched", "verifying", "unproven", "proven"}
    BY <1>7 DEF Verified, Return, Goto, Inside, TypeInv, TypeOK
  <2>3. QED
    BY <2>1, <2>2 DEF Verified, LaunchersKnown, processes
<1>13. WorkersKnown'
  <2>1. \A t \in Supervisors : at'[t] \notin Ready \union {"reserved", "launched"}
    BY <1>7 DEF Verified, Return, Goto, Inside, Ready, TypeInv, TypeOK
  <2>2. QED
    BY <1>1, <1>2, <1>6, <1>8, <1>9, <2>1
    DEF Verified, LaunchInv, WorkersKnown, OneSupervisedWorker, NoneAlive, Alive, Settled, processes
<1>14. VerifiedOwnedTheRun'
  <2>1. ASSUME NEW i \in 1..Len(attempts'), attempts'[i].state = "verified"
        PROVE  /\ attempts'[i].launcher \in byController
               /\ worker[attempts'[i].launcher] \in {"running", "ended"}
    BY <1>1, <1>2, <1>4, <1>6, <1>11, <2>1 DEF LaunchInv, VerifiedOwnedTheRun
  <2>2. QED
    BY <2>1 DEF Verified, VerifiedOwnedTheRun, processes
<1>15. QED
  BY <1>10, <1>12, <1>13, <1>14 DEF LaunchInv

\* Workers come up beside the launches, and die.
LEMMA LaunchWorkerStep ==
  ASSUME TypeInv, LaunchInv, NEW p \in Workers,
         ManualStart(p) \/ TakeRun(p) \/ Refused(p) \/ Dies(p)
  PROVE  LaunchInv'
<1>1. /\ UNCHANGED <<attempts, at, started, byController>>
      /\ \A q \in Workers : q # p => worker'[q] = worker[q]
      /\ worker' \in [Workers -> Lives]
      /\ Latest' = Latest
  BY DEF ManualStart, TakeRun, Refused, Dies, supervisors, Latest, TypeInv, TypeOK, Lives
<1>2. p \in byController => Alive(p)
  BY DEF ManualStart, TakeRun, Refused, Dies, Alive, LaunchInv, WorkersKnown
<1>3. /\ p \in byController => worker'[p] # "unborn"
      /\ Alive(p)' => Alive(p) \/ p \notin byController
      /\ Alive(p)' /\ worker[p] = "running" => worker'[p] = "running"
      /\ worker[p] \in {"running", "ended"} => worker'[p] \in {"running", "ended"}
  BY <1>2 DEF ManualStart, TakeRun, Refused, Dies, Alive, TypeInv, TypeOK
<1>4. \A q \in byController : Alive(q)' =>
        Alive(q) /\ (worker[q] = "running" => worker'[q] = "running")
  BY <1>1, <1>2, <1>3 DEF Alive, TypeInv, TypeOK
<1>5. HistorySettled'
  BY <1>1 DEF LaunchInv, HistorySettled, OneOutstandingLaunch
<1>6. LaunchersKnown'
  <2>1. ASSUME NEW t \in Supervisors, at[t] = "proven"
        PROVE  worker'[Latest.launcher] \in {"running", "ended"}
    <3>1. Latest.launcher \in Workers
      BY <2>1, LatestType DEF TypeInv, HasLaunch, Following, LaunchInv, LaunchersKnown, Attempts
    <3>2. QED
      BY <1>1, <1>3, <2>1, <3>1 DEF LaunchInv, LaunchersKnown
  <2>2. QED
    BY <1>1, <2>1 DEF LaunchInv, LaunchersKnown
<1>7. WorkersKnown'
  BY <1>1, <1>3, <1>4
  DEF LaunchInv, WorkersKnown, OneSupervisedWorker, NoneAlive, TypeInv, TypeOK
<1>8. VerifiedOwnedTheRun'
  BY <1>1, <1>3 DEF LaunchInv, VerifiedOwnedTheRun, TypeInv, TypeOK
<1>9. QED
  BY <1>5, <1>6, <1>7, <1>8 DEF LaunchInv

LEMMA LaunchStep == TypeInv /\ LaunchInv /\ [Next]_vars => LaunchInv'
<1> SUFFICES ASSUME TypeInv, LaunchInv, [Next]_vars PROVE LaunchInv'
  OBVIOUS
<1>1. ASSUME NEW s \in Supervisors, SupervisorStep(s) PROVE LaunchInv'
  BY <1>1, LaunchQuietStep, LaunchReserves, LaunchFailed, LaunchLaunches, LaunchRecorded,
     LaunchVerified DEF SupervisorStep
<1>2. ASSUME NEW p \in Workers, ManualStart(p) \/ TakeRun(p) \/ Refused(p) \/ Dies(p)
      PROVE  LaunchInv'
  BY <1>2, LaunchWorkerStep
<1>3. ASSUME UNCHANGED <<attempts, controller, writer, supervisors, processes>>
      PROVE  LaunchInv'
  BY <1>3 DEF LaunchInv, HistorySettled, LaunchersKnown, WorkersKnown, NoneAlive, Alive,
     OneOutstandingLaunch, OneSupervisedWorker, VerifiedOwnedTheRun, Latest,
     supervisors, processes
<1>4. QED
  BY <1>1, <1>2, <1>3 DEF Next, Tick, vars

\* No second launch is added to one whose outcome nobody knows.
THEOREM OneOutstandingLaunchCorrect == Spec => []OneOutstandingLaunch
<1>1. LaunchInv => OneOutstandingLaunch
  BY DEF LaunchInv, HistorySettled
<1>2. QED
  BY TypeInit, TypeStep, LaunchInit, LaunchStep, <1>1, PTL DEF Spec

\* Two processes that controllers started are never alive together.
THEOREM OneSupervisedWorkerCorrect == Spec => []OneSupervisedWorker
<1>1. LaunchInv => OneSupervisedWorker
  BY DEF LaunchInv, WorkersKnown
<1>2. QED
  BY TypeInit, TypeStep, LaunchInit, LaunchStep, <1>1, PTL DEF Spec

\* A launch counts as verified only if its own worker took the run.
THEOREM VerifiedOwnedTheRunCorrect == Spec => []VerifiedOwnedTheRun
<1>1. LaunchInv => VerifiedOwnedTheRun
  BY DEF LaunchInv
<1>2. QED
  BY TypeInit, TypeStep, LaunchInit, LaunchStep, <1>1, PTL DEF Spec

-----------------------------------------------------------------------------
(* Launches and their record.                                              *)

Possible == {i \in 1..Len(attempts) : attempts[i].state # "failed"}

\* Between a reservation and the start of its worker the record is ahead.
RecordInv ==
  /\ IsFiniteSet(byController)
  /\ LaunchesAreOnRecord
  /\ \A s \in Supervisors : at[s] = "reserved" =>
       Cardinality(byController) < Cardinality(Possible)

LEMMA PossibleFinite ==
  ASSUME TypeInv
  PROVE  IsFiniteSet(Possible) /\ Cardinality(Possible) \in Nat
<1>1. IsFiniteSet(1..Len(attempts))
  BY FS_Interval DEF TypeInv, TypeOK
<1>2. QED
  BY <1>1, FS_Subset, FS_CardinalityType DEF Possible

LEMMA RecordInit == Init => RecordInv
<1> SUFFICES ASSUME Init PROVE RecordInv
  OBVIOUS
<1>1. byController = {} /\ Possible = {}
  BY DEF Init, Possible
<1>2. IsFiniteSet(byController) /\ Cardinality(byController) = 0 /\ Cardinality(Possible) = 0
  BY <1>1, FS_EmptySet
<1>3. QED
  BY <1>2 DEF Init, RecordInv, LaunchesAreOnRecord, Possible

\* Steps that change neither the launched processes nor the possible launches.
LEMMA RecordQuietStep ==
  ASSUME TypeInv, RecordInv, Possible' = Possible, byController' = byController,
         \A s \in Supervisors : at'[s] = "reserved" => at[s] = "reserved"
  PROVE  RecordInv'
BY DEF RecordInv, LaunchesAreOnRecord, Possible

LEMMA RecordReserves ==
  ASSUME TypeInv, RecordInv, NEW s \in Supervisors, Reserve(s)
  PROVE  RecordInv'
<1> DEFINE n == Len(attempts) + 1
           e == [at |-> asked[s], state |-> "reserved", launcher |-> None]
<1>1. /\ Len(attempts') = n /\ n \in Nat \ {0} /\ attempts'[n].state = "reserved"
      /\ \A i \in 1..Len(attempts) : attempts'[i] = attempts[i]
  <2>1. e \in Attempts /\ attempts \in Seq(Attempts) /\ attempts' = Append(attempts, e)
    BY DEF TypeInv, TypeOK, Attempts, Reserve
  <2>2. QED
    BY <2>1, AppendLast
<1>2. Possible' = Possible \union {n} /\ n \notin Possible
  BY <1>1 DEF Possible
<1>3. Cardinality(Possible') = Cardinality(Possible) + 1
  BY <1>2, PossibleFinite, FS_AddElement
<1>4. IsFiniteSet(byController) /\ Cardinality(byController) \in Nat
  BY FS_CardinalityType DEF RecordInv
<1>5. Cardinality(byController) < Cardinality(Possible)'
  BY <1>3, <1>4, PossibleFinite DEF RecordInv, LaunchesAreOnRecord, Possible
<1>6. byController' = byController
  BY DEF Reserve, processes
<1>7. QED
  BY <1>3, <1>4, <1>5, <1>6, PossibleFinite DEF RecordInv, LaunchesAreOnRecord, Possible

LEMMA RecordFailed ==
  ASSUME TypeInv, LaunchInv, RecordInv, NEW s \in Supervisors, LaunchFails(s)
  PROVE  RecordInv'
<1> DEFINE n == Len(attempts)
<1>1. at[s] = "reserved" /\ attempts # <<>> /\ Latest.state = "reserved"
  BY DEF LaunchFails, TypeInv, HasLaunch, Following, LaunchInv, HistorySettled
<1>2. /\ Len(attempts') = n /\ n \in Nat \ {0} /\ attempts'[n].state = "failed"
      /\ \A i \in 1..(n - 1) : attempts'[i] = attempts[i]
  <2>1. Latest \in Attempts
    BY <1>1, LatestType
  <2>2. [Latest EXCEPT !.state = "failed"].state = "failed"
    BY <2>1 DEF Attempts
  <2>3. /\ Len(attempts') = n /\ n \in Nat \ {0} /\ Latest' = [Latest EXCEPT !.state = "failed"]
        /\ \A i \in 1..(n - 1) : attempts'[i] = attempts[i]
    BY <1>1, LatestBecomesFacts DEF LaunchFails, TypeInv, TypeOK
  <2>4. Latest' = attempts'[n]
    BY <2>3 DEF Latest
  <2>5. QED
    BY <2>2, <2>3, <2>4
<1>3. Possible' = Possible \ {n} /\ n \in Possible
  BY <1>1, <1>2 DEF Possible, Latest
<1>4. Cardinality(Possible') = Cardinality(Possible) - 1
  BY <1>3, PossibleFinite, FS_RemoveElement
<1>5. IsFiniteSet(byController) /\ Cardinality(byController) \in Nat
  BY FS_CardinalityType DEF RecordInv
<1>6. Cardinality(byController) <= Cardinality(Possible)'
  BY <1>1, <1>4, <1>5, PossibleFinite DEF RecordInv
<1>7. \A t \in Supervisors : at'[t] # "reserved"
  BY <1>1, OneInside DEF LaunchFails, Return, Goto, Inside, TypeInv, TypeOK
<1>8. QED
  BY <1>5, <1>6, <1>7 DEF LaunchFails, RecordInv, LaunchesAreOnRecord, Possible, processes

LEMMA RecordLaunches ==
  ASSUME TypeInv, LaunchInv, RecordInv, NEW s \in Supervisors, Launch(s)
  PROVE  RecordInv'
<1>1. PICK p \in Workers :
        worker[p] = "unborn" /\ byController' = byController \union {p}
  BY DEF Launch
<1>2. p \notin byController
  BY <1>1 DEF LaunchInv, WorkersKnown
<1>3. /\ IsFiniteSet(byController') /\ Cardinality(byController) \in Nat
      /\ Cardinality(byController') = Cardinality(byController) + 1
  BY <1>1, <1>2, FS_AddElement, FS_CardinalityType DEF RecordInv
<1>4. Possible' = Possible
  BY DEF Launch, Possible
<1>5. Cardinality(byController') <= Cardinality(Possible)
  BY <1>3, PossibleFinite DEF Launch, RecordInv
<1>6. \A t \in Supervisors : at'[t] # "reserved"
  BY OneInside DEF Launch, Goto, Inside, TypeInv, TypeOK
<1>7. QED
  BY <1>3, <1>4, <1>5, <1>6 DEF RecordInv, LaunchesAreOnRecord, Possible

\* A launch that is recorded or verified was possible before.
LEMMA RecordSettles ==
  ASSUME TypeInv, LaunchInv, RecordInv, NEW s \in Supervisors, Record(s) \/ Verified(s)
  PROVE  RecordInv'
<1>1. attempts # <<>> /\ Latest \in Attempts /\ Latest.state # "failed"
  <2>1. attempts # <<>>
    BY DEF Record, Verified, TypeInv, HasLaunch, Following
  <2>2. Len(attempts) \in 1..Len(attempts)
    BY <2>1 DEF TypeInv, TypeOK
  <2>3. CASE Record(s)
    BY <2>1, <2>3, LatestType DEF Record, LaunchInv, HistorySettled
  <2>4. CASE Verified(s)
    BY <2>1, <2>2, <2>4, LatestType DEF Verified, LaunchInv, LaunchersKnown, Latest
  <2>5. QED
    BY <2>3, <2>4
<1>2. /\ Len(attempts') = Len(attempts) /\ Latest'.state # "failed"
      /\ \A i \in 1..(Len(attempts) - 1) : attempts'[i] = attempts[i]
  <2>1. CASE Record(s)
    BY <1>1, <2>1, RecordFacts DEF TypeInv, RecordedAttempt, Attempts
  <2>2. CASE Verified(s)
    BY <1>1, <2>2, LatestBecomesFacts DEF Verified, TypeInv, TypeOK, Attempts
  <2>3. QED
    BY <2>1, <2>2
<1>3. Possible' = Possible
  <2>1. /\ Len(attempts) \in Nat \ {0} /\ attempts[Len(attempts)].state # "failed"
        /\ attempts'[Len(attempts)].state # "failed"
    BY <1>1, <1>2 DEF Latest, TypeInv, TypeOK
  <2>2. \A i \in 1..Len(attempts) :
          attempts'[i].state # "failed" <=> attempts[i].state # "failed"
    BY <1>2, <2>1
  <2>3. QED
    BY <1>2, <2>2 DEF Possible
<1>4. \A t \in Supervisors : at'[t] = "reserved" => at[t] = "reserved"
  BY DEF Record, Verified, Return, Goto, TypeInv, TypeOK
<1>5. byController' = byController
  BY DEF Record, Verified, processes
<1>6. QED
  BY <1>3, <1>4, <1>5, RecordQuietStep

LEMMA RecordStep == TypeInv /\ LaunchInv /\ RecordInv /\ [Next]_vars => RecordInv'
<1> SUFFICES ASSUME TypeInv, LaunchInv, RecordInv, [Next]_vars PROVE RecordInv'
  OBVIOUS
<1>1. ASSUME NEW s \in Supervisors, SupervisorStep(s) PROVE RecordInv'
  <2>1. CASE Reserve(s) BY <2>1, RecordReserves
  <2>2. CASE LaunchFails(s) BY <2>2, RecordFailed
  <2>3. CASE Launch(s) BY <2>3, RecordLaunches
  <2>4. CASE Record(s) \/ Verified(s) BY <2>4, RecordSettles
  <2>5. CASE \/ Ask(s) \/ TurnedAway(s) \/ Enter(s) \/ Decline(s)
             \/ Probe(s) \/ WriterActive(s) \/ Inspected(s) \/ Blocked(s)
             \/ Verify(s) \/ VerifyProbe(s) \/ NotVerified(s)
             \/ OwnershipSeen(s) \/ Peek(s) \/ PeekEnds(s) \/ Crash(s)
    <3>1. /\ UNCHANGED <<attempts, byController>>
          /\ \A t \in Supervisors : at'[t] = "reserved" => at[t] = "reserved"
      BY <2>5 DEF Ask, TurnedAway, Enter, Decline, Probe, WriterActive, Inspected, Blocked,
         Verify, VerifyProbe, NotVerified, OwnershipSeen, Peek, PeekEnds, Crash, Return, Goto,
         processes, TypeInv, TypeOK
    <3>2. QED
      BY <3>1, RecordQuietStep DEF Possible
  <2>6. QED
    BY <1>1, <2>1, <2>2, <2>3, <2>4, <2>5 DEF SupervisorStep
<1>2. ASSUME UNCHANGED <<attempts, supervisors, byController>> PROVE RecordInv'
  BY <1>2, RecordQuietStep DEF Possible, supervisors
<1>3. QED
  BY <1>1, <1>2 DEF Next, ManualStart, TakeRun, Refused, Dies, Tick, processes, vars

\* No launch is missing from the history.
THEOREM LaunchesAreOnRecordCorrect == Spec => []LaunchesAreOnRecord
<1>1. RecordInv => LaunchesAreOnRecord
  BY DEF RecordInv
<1>2. QED
  BY TypeInit, TypeStep, LaunchInit, LaunchStep, RecordInit, RecordStep, <1>1, PTL DEF Spec

-----------------------------------------------------------------------------
(* The budget.  The history is only ordered because a launch that is later *)
(* than the caller's clock still counts as recent.                         *)

\* A launch at time t keeps its distance from the launches so far.
InBudget(t) ==
  \A i \in 1..Len(attempts) :
    /\ t - attempts[i].at >= Cooldown
    /\ Len(attempts) + 1 - i >= MaxAttempts => t - attempts[i].at > Window

\* A supervisor that found the budget open is still alone with the history.
BudgetInv ==
  /\ LaunchesWithinBudget
  /\ \A s \in Supervisors : at[s] \in Ready => InBudget(asked[s])

LEMMA BudgetInit == Init => BudgetInv
BY DEF Init, BudgetInv, LaunchesWithinBudget, Ready

\* What attempt computes from its history: no launch within the cooldown, and
\* fewer than allowed within the window.
LEMMA MayTryInBudget ==
  ASSUME TypeInv, Cooldown <= Window, LaunchesWithinBudget,
         NEW t \in Nat, ~CoolingDown(t), ~Exhausted(t)
  PROVE  InBudget(t)
<1>0. PICK n \in Nat : n = Len(attempts)
  BY DEF TypeInv, TypeOK
<1>1. \A i \in 1..n : attempts[i].at \in Nat
  <2>1. \A i \in 1..n : attempts[i] \in Attempts
    BY <1>0 DEF TypeInv, TypeOK
  <2>2. QED
    BY <2>1 DEF Attempts
<1>2. \A i, k \in 1..n : i <= k => attempts[i].at <= attempts[k].at
  BY <1>0, <1>1 DEF LaunchesWithinBudget
<1>3. Recent(t) \in SUBSET (0..n) /\ Recent(t) \subseteq 1..n
  BY <1>0 DEF Recent
<1>4. ASSUME NEW i \in 1..n PROVE t - attempts[i].at >= Cooldown
  <2>1. CASE i \notin Recent(t)
    BY <1>0, <1>1, <2>1 DEF Recent
  <2>2. CASE i \in Recent(t)
    <3>1. Max(Recent(t)) \in Recent(t) /\ i <= Max(Recent(t))
      BY <1>3, <2>2, MaxOfInterval
    <3>2. PICK k \in 1..n : k = Max(Recent(t))
      BY <1>3, <3>1
    <3>3. t - attempts[k].at >= Cooldown
      <4>1. ~(t - attempts[k].at < Cooldown)
        BY <2>2, <3>2 DEF CoolingDown
      <4>2. QED
        BY <1>1, <4>1
    <3>4. attempts[i].at <= attempts[k].at
      BY <1>2, <3>1, <3>2
    <3>5. QED
      BY <1>1, <3>3, <3>4
  <2>3. QED
    BY <2>1, <2>2
<1>5. ASSUME NEW i \in 1..n, n + 1 - i >= MaxAttempts PROVE t - attempts[i].at > Window
  <2>1. SUFFICES ASSUME i \in Recent(t) PROVE FALSE
    BY <1>0, <1>1 DEF Recent
  <2>2. ASSUME NEW k \in i..n PROVE k \in Recent(t)
    <3>1. k \in 1..n /\ attempts[i].at <= attempts[k].at /\ t - attempts[i].at <= Window
      BY <1>2, <2>1 DEF Recent
    <3>2. attempts[i].at \in Nat /\ attempts[k].at \in Nat
      BY <1>1, <3>1
    <3>3. t - attempts[k].at <= Window
      BY <3>1, <3>2
    <3>4. QED
      BY <1>0, <3>1, <3>3 DEF Recent
  <2>3. i \in Int /\ n \in Int /\ i <= n
    OBVIOUS
  <2>4. IsFiniteSet(i..n) /\ Cardinality(i..n) = n - i + 1
    BY <2>3, FS_Interval
  <2>5. IsFiniteSet(1..n)
    BY FS_Interval
  <2>6. IsFiniteSet(Recent(t))
    BY <1>3, <2>5, FS_Subset
  <2>7. i..n \subseteq Recent(t)
    BY <2>2
  <2>8. Cardinality(i..n) <= Cardinality(Recent(t)) /\ Cardinality(Recent(t)) \in Nat
    BY <2>6, <2>7, FS_Subset, FS_CardinalityType
  <2>9. Cardinality(Recent(t)) >= MaxAttempts
    BY <1>5, <2>3, <2>4, <2>8
  <2>10. QED
    BY <2>9 DEF Exhausted
<1>6. QED
  BY <1>0, <1>4, <1>5 DEF InBudget

\* Steps after which every launch has the time it had, and whoever found the
\* budget open had found it open before.
LEMMA BudgetQuietStep ==
  ASSUME TypeInv, BudgetInv, Len(attempts') = Len(attempts),
         \A i \in 1..Len(attempts) : attempts'[i].at = attempts[i].at,
         \A s \in Supervisors : at'[s] \in Ready => at[s] \in Ready /\ asked'[s] = asked[s]
  PROVE  BudgetInv'
BY DEF BudgetInv, LaunchesWithinBudget, InBudget

\* The last launch keeps its time when its outcome is written.
LEMMA BudgetSettles ==
  ASSUME TypeInv, LaunchInv, BudgetInv, NEW s \in Supervisors,
         LaunchFails(s) \/ Record(s) \/ Verified(s)
  PROVE  BudgetInv'
<1>1. attempts # <<>>
  BY DEF LaunchFails, Record, Verified, TypeInv, HasLaunch, Following
<1>2. Latest \in Attempts
  BY <1>1, LatestType
<1>3. /\ attempts' \in Seq(Attempts) /\ Len(attempts') = Len(attempts)
      /\ Latest'.at = Latest.at
      /\ \A i \in 1..(Len(attempts) - 1) : attempts'[i] = attempts[i]
  <2>1. CASE LaunchFails(s)
    <3>1. [Latest EXCEPT !.state = "failed"].at = Latest.at
      BY <1>2 DEF Attempts
    <3>2. QED
      BY <1>1, <2>1, <3>1, LatestBecomesFacts DEF LaunchFails, TypeInv, TypeOK
  <2>2. CASE Verified(s)
    <3>1. [Latest EXCEPT !.state = "verified"].at = Latest.at
      BY <1>2 DEF Attempts
    <3>2. QED
      BY <1>1, <2>2, <3>1, LatestBecomesFacts DEF Verified, TypeInv, TypeOK
  <2>3. CASE Record(s)
    <3>1. RecordedAttempt(s).at = Latest.at
      BY <1>2 DEF Attempts, RecordedAttempt
    <3>2. QED
      BY <1>1, <2>3, <3>1, RecordFacts DEF TypeInv
  <2>4. QED
    BY <2>1, <2>2, <2>3
<1>4. PICK n \in Nat \ {0} : n = Len(attempts)
  BY <1>1 DEF TypeInv, TypeOK
<1>5. \A i \in 1..n : attempts'[i].at = attempts[i].at
  <2>1. attempts'[n].at = attempts[n].at
    BY <1>3, <1>4 DEF Latest
  <2>2. \A i \in 1..n : i \in 1..(n - 1) \/ i = n
    BY <1>4
  <2>3. QED
    BY <1>3, <1>4, <2>1, <2>2
<1>6. \A t \in Supervisors : at'[t] \in Ready => at[t] \in Ready /\ asked'[t] = asked[t]
  BY DEF LaunchFails, Record, Verified, Return, Goto, Ready, TypeInv, TypeOK
<1>7. QED
  BY <1>3, <1>4, <1>5, <1>6, BudgetQuietStep

LEMMA BudgetReserves ==
  ASSUME TypeInv, BudgetInv, NEW s \in Supervisors, Reserve(s)
  PROVE  BudgetInv'
<1>0. PICK n \in Nat : n = Len(attempts)
  BY DEF TypeInv, TypeOK
<1>1. InBudget(asked[s]) /\ asked[s] \in Nat
  BY DEF Reserve, BudgetInv, Ready, TypeInv, TypeOK
<1>2. /\ Len(attempts') = n + 1 /\ attempts'[n + 1].at = asked[s]
      /\ \A i \in 1..n : attempts'[i] = attempts[i]
  <2> DEFINE e == [at |-> asked[s], state |-> "reserved", launcher |-> None]
  <2>1. e \in Attempts /\ e.at = asked[s]
    BY <1>1 DEF Attempts
  <2>2. attempts \in Seq(Attempts) /\ attempts' = Append(attempts, e)
    BY DEF Reserve, TypeInv, TypeOK
  <2> HIDE DEF e
  <2>3. QED
    BY <1>0, <2>1, <2>2, AppendLast
<1>3. ASSUME NEW i \in 1..(n + 1), NEW j \in 1..(n + 1), i < j
      PROVE  /\ attempts'[j].at - attempts'[i].at >= Cooldown
             /\ j - i >= MaxAttempts => attempts'[j].at - attempts'[i].at > Window
  <2>1. CASE j <= n
    <3>1. i \in 1..n /\ j \in 1..n
      BY <1>3, <2>1
    <3>2. QED
      BY <1>0, <1>2, <1>3, <3>1 DEF BudgetInv, LaunchesWithinBudget
  <2>2. CASE j = n + 1
    <3>1. i \in 1..n
      BY <1>3, <2>2
    <3>2. QED
      BY <1>0, <1>1, <1>2, <2>2, <3>1 DEF InBudget
  <2>3. QED
    BY <2>1, <2>2
<1>4. \A t \in Supervisors : at'[t] \notin Ready
  BY OneInside DEF Reserve, Goto, Inside, Ready, TypeInv, TypeOK
<1>5. QED
  BY <1>2, <1>3, <1>4 DEF BudgetInv, LaunchesWithinBudget

LEMMA BudgetProbes ==
  ASSUME TypeInv, Cooldown <= Window, BudgetInv, NEW s \in Supervisors, Probe(s)
  PROVE  BudgetInv'
<1>1. InBudget(asked[s])
  BY MayTryInBudget DEF Probe, MayTry, BudgetInv, TypeInv, TypeOK
<1>2. UNCHANGED <<attempts, asked>> /\ \A t \in Supervisors : t # s => at'[t] = at[t]
  BY DEF Probe, Goto, TypeInv, TypeOK
<1>3. QED
  BY <1>1, <1>2 DEF BudgetInv, LaunchesWithinBudget, InBudget

LEMMA BudgetStep ==
  Cooldown <= Window /\ TypeInv /\ LaunchInv /\ BudgetInv /\ [Next]_vars => BudgetInv'
<1> SUFFICES ASSUME Cooldown <= Window, TypeInv, LaunchInv, BudgetInv, [Next]_vars
             PROVE  BudgetInv'
  OBVIOUS
<1>1. ASSUME NEW s \in Supervisors, SupervisorStep(s) PROVE BudgetInv'
  <2>1. CASE Probe(s) BY <2>1, BudgetProbes
  <2>2. CASE Reserve(s) BY <2>2, BudgetReserves
  <2>3. CASE LaunchFails(s) \/ Record(s) \/ Verified(s) BY <2>3, BudgetSettles
  <2>4. CASE \/ Ask(s) \/ TurnedAway(s) \/ Enter(s) \/ Decline(s)
             \/ WriterActive(s) \/ Inspected(s) \/ Blocked(s) \/ Launch(s)
             \/ Verify(s) \/ VerifyProbe(s) \/ NotVerified(s)
             \/ OwnershipSeen(s) \/ Peek(s) \/ PeekEnds(s) \/ Crash(s)
    <3>1. UNCHANGED attempts
      BY <2>4 DEF Ask, TurnedAway, Enter, Decline, WriterActive, Inspected, Blocked, Launch,
         Verify, VerifyProbe, NotVerified, OwnershipSeen, Peek, PeekEnds, Crash
    <3>2. \A t \in Supervisors :
            at'[t] \in Ready => at[t] \in Ready /\ asked'[t] = asked[t]
      BY <2>4 DEF Ask, TurnedAway, Enter, Decline, WriterActive, Inspected, Blocked, Launch,
         Verify, VerifyProbe, NotVerified, OwnershipSeen, Peek, PeekEnds, Crash, Return, Goto,
         Ready, TypeInv, TypeOK
    <3>3. QED
      BY <3>1, <3>2, BudgetQuietStep
  <2>5. QED
    BY <1>1, <2>1, <2>2, <2>3, <2>4 DEF SupervisorStep
<1>2. ASSUME UNCHANGED <<attempts, supervisors>> PROVE BudgetInv'
  BY <1>2, BudgetQuietStep DEF supervisors
<1>3. QED
  BY <1>1, <1>2 DEF Next, ManualStart, TakeRun, Refused, Dies, Tick, vars

\* Launches are at least the cooldown apart and no window holds more than the
\* budget, whichever supervisors interleave and die, and although the clock is
\* read before the lock is taken.  attempt looks for the last launch within the
\* window only, so that a cooldown longer than the window would not be kept.
THEOREM LaunchesWithinBudgetCorrect == Cooldown <= Window => (Spec => []LaunchesWithinBudget)
<1> SUFFICES ASSUME Cooldown <= Window PROVE Spec => []LaunchesWithinBudget
  OBVIOUS
<1>1. BudgetInv => LaunchesWithinBudget
  BY DEF BudgetInv
<1>2. TypeInv /\ LaunchInv /\ BudgetInv /\ [Next]_vars => BudgetInv'
  BY BudgetStep
<1>3. QED
  BY TypeInit, TypeStep, LaunchInit, LaunchStep, BudgetInit, <1>1, <1>2, PTL DEF Spec
=============================================================================
