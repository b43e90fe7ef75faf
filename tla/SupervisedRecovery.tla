-------------------------- MODULE SupervisedRecovery --------------------------
(***************************************************************************)
(* Restarting a Paper worker under supervision.                            *)
(*                                                                         *)
(* Several supervisors may run the recovery controller of one Paper run.   *)
(* Each reserves its launch in a durable history before it starts the      *)
(* worker, a later call verifies the worker, and an operator may start a   *)
(* worker by hand at any time.  Two OS locks that die with their holder    *)
(* keep order: one for the controller, one for the writer of the run.      *)
(*                                                                         *)
(* Sources: src/paper/recovery_orchestrator.py, recovery_verification.py,  *)
(* recovery_worker.py, single_writer.py and the inspection of a run in     *)
(* windows_supervisor.py.                                                  *)
(*                                                                         *)
(* A supervisor may die between any two of its steps.  The gates of an     *)
(* inspection and the evidence of a verification that do not concern       *)
(* processes and locks (checkpoint, ledger, calendar, broker, freshness    *)
(* of the status) fail or hold freely.                                     *)
(***************************************************************************)
EXTENDS Integers, Sequences, FiniteSetsExt

CONSTANTS
  Supervisors,   \* processes that call the controller
  Workers,       \* Paper processes that may ever be started (bound)
  None,          \* no process
  MaxAttempts, Cooldown, Window,   \* policy of the controller
  MaxTime        \* clock (bound)

ASSUME PolicyAssumption ==
  /\ MaxAttempts \in Nat \ {0} /\ Cooldown \in Nat \ {0} /\ Window \in Nat \ {0}
  /\ MaxTime \in Nat
ASSUME ProcessAssumption ==
  /\ None \notin Supervisors \union Workers
  /\ Supervisors \intersect Workers = {}

VARIABLES
  now,          \* time.time()
  attempts,     \* recovery_state.json
  controller,   \* who holds recovery_controller.lock
  writer,       \* who holds paper_writer.lock
  at,           \* where each supervisor is in its call
  asked,        \* the time an attempt was given
  started,      \* the process a supervisor has just started
  worker,       \* life of each Paper process
  byController  \* the processes a controller started

supervisors == <<at, asked, started>>
processes == <<worker, byController>>
vars == <<now, attempts, controller, writer, supervisors, processes>>

Init ==
  /\ now = 0 /\ attempts = <<>>
  /\ controller = None /\ writer = None
  /\ at = [s \in Supervisors |-> "idle"]
  /\ asked = [s \in Supervisors |-> 0]
  /\ started = [s \in Supervisors |-> None]
  /\ worker = [p \in Workers |-> "unborn"]
  /\ byController = {}

-----------------------------------------------------------------------------
(* The history of launches.                                                *)

Latest == attempts[Len(attempts)]
LatestBecomes(state) ==
  attempts' = [attempts EXCEPT ![Len(attempts)].state = state]

\* The launches of the last window; one with a later time counts.
Recent(t) == {i \in 1..Len(attempts) : t - attempts[i].at <= Window}
CoolingDown(t) ==
  Recent(t) # {} /\ t - attempts[Max(Recent(t))].at < Cooldown

\* Mutant: one launch too many.
ExhaustedLater(t) == Cardinality(Recent(t)) > MaxAttempts

Exhausted(t) == Cardinality(Recent(t)) >= MaxAttempts

\* Mutants: an interrupted launch, or one that was not verified, may be repeated.
UnreconciledStarted == attempts # <<>> /\ Latest.state = "unverified"
UnreconciledReserved == attempts # <<>> /\ Latest.state = "reserved"

Unreconciled ==
  /\ attempts # <<>>
  /\ Latest.state \in {"reserved", "unverified"}

Alive(p) == p \in Workers /\ worker[p] \in {"starting", "running"}

-----------------------------------------------------------------------------
(* An attempt, under the controller's lock from Enter to Return.           *)

Goto(s, step) == at' = [at EXCEPT ![s] = step]
Return(s) ==
  /\ Goto(s, "idle") /\ asked' = [asked EXCEPT ![s] = 0]
  /\ controller' = None

\* The caller reads the clock before the lock is taken.
Ask(s) ==
  /\ at[s] = "idle"
  /\ asked' = [asked EXCEPT ![s] = now]
  /\ Goto(s, "asked")
  /\ UNCHANGED <<now, attempts, controller, writer, started, processes>>

\* WriterAlreadyActive.
TurnedAway(s) ==
  /\ at[s] = "asked" /\ controller # None
  /\ Goto(s, "idle") /\ asked' = [asked EXCEPT ![s] = 0]
  /\ UNCHANGED <<now, attempts, controller, writer, started, processes>>

Enter(s) ==
  /\ at[s] = "asked" /\ controller = None
  /\ controller' = s
  /\ Goto(s, "entered")
  /\ UNCHANGED <<now, attempts, writer, asked, started, processes>>

MayTry(s) ==
  ~CoolingDown(asked[s]) /\ ~Exhausted(asked[s]) /\ ~Unreconciled

\* COOLDOWN, ESCALATED or RECONCILIATION_REQUIRED.
Decline(s) ==
  /\ at[s] = "entered" /\ ~MayTry(s)
  /\ Return(s)
  /\ UNCHANGED <<now, attempts, writer, started, processes>>

\* _writer_lock_available takes the writer's lock for a moment.
Probe(s) ==
  /\ at[s] = "entered" /\ MayTry(s) /\ writer = None
  /\ writer' = s
  /\ Goto(s, "probing")
  /\ UNCHANGED <<now, attempts, controller, asked, started, processes>>

WriterActive(s) ==
  /\ at[s] = "entered" /\ MayTry(s) /\ writer # None
  /\ Return(s)
  /\ UNCHANGED <<now, attempts, writer, started, processes>>

Inspected(s) ==
  /\ at[s] = "probing"
  /\ writer' = None
  /\ Goto(s, "inspected")
  /\ UNCHANGED <<now, attempts, controller, asked, started, processes>>

\* BLOCKED by one of the other gates.
Blocked(s) ==
  /\ at[s] = "inspected"
  /\ Return(s)
  /\ UNCHANGED <<now, attempts, writer, started, processes>>

\* The launch is on disk before any process can start.
Reserve(s) ==
  /\ at[s] = "inspected"
  /\ attempts' = Append(attempts, [at |-> asked[s], state |-> "reserved", launcher |-> None])
  /\ Goto(s, "reserved")
  /\ UNCHANGED <<now, controller, writer, asked, started, processes>>

\* launch raises before it creates a process.
LaunchFails(s) ==
  /\ at[s] = "reserved"
  /\ LatestBecomes("failed")
  /\ Return(s)
  /\ UNCHANGED <<now, writer, started, processes>>

Launch(s) ==
  /\ at[s] = "reserved"
  /\ \E p \in Workers :
       /\ worker[p] = "unborn"
       /\ worker' = [worker EXCEPT ![p] = "starting"]
       /\ byController' = byController \union {p}
       /\ started' = [started EXCEPT ![s] = p]
  /\ Goto(s, "launched")
  /\ UNCHANGED <<now, attempts, controller, writer, asked>>

\* Mutant: the controller records its own identity.
IdentityOfCaller(s) == s

\* The launcher's identity is unknown when it is gone already.
Identity(s) == IF Alive(started[s]) THEN started[s] ELSE None

\* Mutant: a process that is gone already did not start.
OutcomeSeen(s) == IF Alive(started[s]) THEN "unverified" ELSE "failed"

Outcome(s) == "unverified"

Record(s) ==
  /\ at[s] = "launched"
  /\ attempts' = [attempts EXCEPT ![Len(attempts)].state = Outcome(s),
                                  ![Len(attempts)].launcher = Identity(s)]
  /\ started' = [started EXCEPT ![s] = None]
  /\ Return(s)
  /\ UNCHANGED <<now, writer, processes>>

-----------------------------------------------------------------------------
(* Verification of the latest launch, under the same lock, and inspection  *)
(* without it.                                                             *)

\* verify_started accepts only the living process that was reserved.
Verify(s) ==
  /\ at[s] = "idle" /\ controller = None
  /\ attempts # <<>> /\ Alive(Latest.launcher)
  /\ controller' = s
  /\ Goto(s, "verifying")
  /\ UNCHANGED <<now, attempts, writer, asked, started, processes>>

\* Nobody owns the run: the probe takes the lock and proves only that.
VerifyProbe(s) ==
  /\ at[s] = "verifying" /\ writer = None
  /\ writer' = s
  /\ Goto(s, "unproven")
  /\ UNCHANGED <<now, attempts, controller, asked, started, processes>>

NotVerified(s) ==
  /\ \/ at[s] = "unproven" /\ writer' = None
     \/ at[s] = "verifying" /\ writer # None /\ writer' = writer
  /\ Return(s)
  /\ UNCHANGED <<now, attempts, started, processes>>

\* Mutant: any worker's lock is evidence.
OwnerSeen == writer \in Workers

\* The lock is held and its file names the worker.
Owner == writer = Latest.launcher

OwnershipSeen(s) ==
  /\ at[s] = "verifying" /\ Owner
  /\ Goto(s, "proven")
  /\ UNCHANGED <<now, attempts, controller, writer, asked, started, processes>>

Verified(s) ==
  /\ at[s] = "proven"
  /\ LatestBecomes("verified")
  /\ Return(s)
  /\ UNCHANGED <<now, writer, started, processes>>

\* inspect_run from the command line holds no controller lock.
Peek(s) ==
  /\ at[s] = "idle" /\ writer = None
  /\ writer' = s
  /\ Goto(s, "peeking")
  /\ UNCHANGED <<now, attempts, controller, asked, started, processes>>

PeekEnds(s) ==
  /\ at[s] = "peeking"
  /\ writer' = None
  /\ Goto(s, "idle")
  /\ UNCHANGED <<now, attempts, controller, asked, started, processes>>

\* The operating system releases what a dead supervisor held.
Crash(s) ==
  /\ at[s] # "idle"
  /\ Goto(s, "idle") /\ asked' = [asked EXCEPT ![s] = 0]
  /\ controller' = IF controller = s THEN None ELSE controller
  /\ writer' = IF writer = s THEN None ELSE writer
  /\ started' = [started EXCEPT ![s] = None]
  /\ UNCHANGED <<now, attempts, processes>>

-----------------------------------------------------------------------------
(* Workers.                                                                *)

ManualStart(p) ==
  /\ worker[p] = "unborn"
  /\ worker' = [worker EXCEPT ![p] = "starting"]
  /\ UNCHANGED <<now, attempts, controller, writer, supervisors, byController>>

\* PaperWriterLock.acquire never waits.
TakeRun(p) ==
  /\ worker[p] = "starting" /\ writer = None
  /\ writer' = p
  /\ worker' = [worker EXCEPT ![p] = "running"]
  /\ UNCHANGED <<now, attempts, controller, supervisors, byController>>

Refused(p) ==
  /\ worker[p] = "starting" /\ writer # None
  /\ worker' = [worker EXCEPT ![p] = "refused"]
  /\ UNCHANGED <<now, attempts, controller, writer, supervisors, byController>>

Dies(p) ==
  /\ Alive(p)
  /\ worker' = [worker EXCEPT ![p] = IF @ = "running" THEN "ended" ELSE "lost"]
  /\ writer' = IF writer = p THEN None ELSE writer
  /\ UNCHANGED <<now, attempts, controller, supervisors, byController>>

Tick ==
  /\ now < MaxTime
  /\ now' = now + 1
  /\ UNCHANGED <<attempts, controller, writer, supervisors, processes>>

SupervisorStep(s) ==
  \/ Ask(s) \/ TurnedAway(s) \/ Enter(s) \/ Decline(s)
  \/ Probe(s) \/ WriterActive(s) \/ Inspected(s) \/ Blocked(s)
  \/ Reserve(s) \/ LaunchFails(s) \/ Launch(s) \/ Record(s)
  \/ Verify(s) \/ VerifyProbe(s) \/ NotVerified(s)
  \/ OwnershipSeen(s) \/ Verified(s)
  \/ Peek(s) \/ PeekEnds(s) \/ Crash(s)

Next ==
  \/ \E s \in Supervisors : SupervisorStep(s)
  \/ \E p \in Workers : ManualStart(p) \/ TakeRun(p) \/ Refused(p) \/ Dies(p)
  \/ Tick

Spec == Init /\ [][Next]_vars

-----------------------------------------------------------------------------
(* Properties.                                                             *)

Steps == {"idle", "asked", "entered", "probing", "inspected", "reserved",
          "launched", "verifying", "unproven", "proven", "peeking"}
Lives == {"unborn", "starting", "running", "refused", "ended", "lost"}
Attempts == [at : Nat, state : {"reserved", "failed", "unverified", "verified"},
             launcher : Workers \union {None}]

TypeOK ==
  /\ now \in Nat
  /\ attempts \in Seq(Attempts)
  /\ controller \in Supervisors \union {None}
  /\ writer \in Supervisors \union Workers \union {None}
  /\ at \in [Supervisors -> Steps]
  /\ asked \in [Supervisors -> Nat]
  /\ started \in [Supervisors -> Workers \union {None}]
  /\ worker \in [Workers -> Lives]
  /\ byController \subseteq Workers

\* Every launch but the last is settled: the controller never adds a second
\* launch to one whose outcome nobody knows, whatever supervisor died when.
OneOutstandingLaunch ==
  \A i \in 1..(Len(attempts) - 1) : attempts[i].state \in {"failed", "verified"}

\* At most one process that a controller started is alive, also while it has
\* not reached the writer's lock.
OneSupervisedWorker ==
  \A p, q \in byController : Alive(p) /\ Alive(q) => p = q

\* A launch that happened is on record as one that may have happened.
LaunchesAreOnRecord ==
  Cardinality(byController)
    <= Cardinality({i \in 1..Len(attempts) : attempts[i].state # "failed"})

\* Launches are at least the cooldown apart, and no window holds more of them
\* than the budget, although the clock is read before the lock is taken.
LaunchesWithinBudget ==
  \A i, j \in 1..Len(attempts) : i < j =>
    /\ attempts[j].at - attempts[i].at >= Cooldown
    /\ j - i >= MaxAttempts => attempts[j].at - attempts[i].at > Window

\* Only a worker that the controller started and that owned the run counts as
\* recovered, never one an operator started beside it.
VerifiedOwnedTheRun ==
  \A i \in 1..Len(attempts) : attempts[i].state = "verified" =>
    /\ attempts[i].launcher \in byController
    /\ worker[attempts[i].launcher] \in {"running", "ended"}
=============================================================================
