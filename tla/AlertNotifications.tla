-------------------------- MODULE AlertNotifications --------------------------
(***************************************************************************)
(* Alerts, from a fact in the persisted Paper state to a message the       *)
(* operator has received.                                                  *)
(*                                                                         *)
(* The notification sidecar is one process with one loop: the monitor      *)
(* compares conditions and incidents with its alert state, appends         *)
(* transitions to the alert ledger and saves the state; the notifier       *)
(* follows the ledger with a cursor of its own and sends one message at a  *)
(* time.  The process may die between any two durable steps, a send may    *)
(* fail or succeed without saying so, and the operator's commands rewrite  *)
(* the same files from another process.  The Paper engine appends to its   *)
(* event journal meanwhile, so that the last row may be read half written. *)
(*                                                                         *)
(* Sources: src/paper/monitoring_alerts.py, src/paper/notifications.py and *)
(* the loop and commands of src/paper/notification_cli.py.                 *)
(***************************************************************************)
EXTENDS Integers, Sequences, FiniteSets

CONSTANTS
  Alerts,        \* alert_ids: run, type of alert and strategy
  Conditions,    \* those evaluated from status.json at every poll
  NoAlert,       \* not an alert
  AlertOf,       \* the alert of each incident; a condition may have the same
  MaxIncidents,  \* incidents in the Paper event journal (bound)
  MaxLevel,      \* severities with their thresholds: 1 is an incident's
  MaxReadings,   \* what an evaluation may observe of a condition (bound)
  MaxEvents,     \* condition changes, crashes, failures, rejections, answers ...
  MaxChanges, MaxAnswers   \* ... and of them changes and answers (bounds)

Incidents == 1..MaxIncidents
Readings == 1..MaxReadings

ASSUME AlertsAssumption ==
  /\ Conditions \subseteq Alerts /\ NoAlert \notin Alerts
  /\ AlertOf \in [Incidents -> Alerts]
ASSUME BoundsAssumption ==
  /\ MaxIncidents \in Nat /\ MaxLevel \in Nat /\ MaxReadings \in Nat
  /\ MaxEvents \in Nat /\ MaxChanges \in Nat /\ MaxAnswers \in Nat

VARIABLES
  holds,      \* severity of each condition in status.json, 0 when it is clear
  incidents,  \* incidents in the Paper event journal
  torn,       \* part of the next one can be read already
  ledger,     \* alert_events.jsonl
  saved,      \* the alert state file
  mem,        \* the monitor's copy of it
  at,         \* where the sidecar's loop is
  seen,       \* the conditions as this poll evaluated them
  row,        \* next incident of this poll
  upto,       \* last incident this poll has read
  part,       \* the reading ended inside the next one
  cursor,     \* the notifier state file
  notifier,   \* the notifier's copy of it
  delivered,  \* messages the delivery journal calls delivered
  inbox,      \* messages the operator received, in order
  clerk,      \* the acknowledge command, another process
  doubts,     \* sends whose success the notifier could not record
  budget      \* what the environment may still do

journal == <<incidents, torn>>
monitor == <<saved, mem, seen, row, upto, part>>
delivery == <<cursor, notifier, delivered, inbox>>
vars == <<holds, journal, ledger, monitor, at, delivery, clerk,
          doubts, budget>>

-----------------------------------------------------------------------------
(* Messages are named by what their event_id is computed from: the alert,  *)
(* its generation or the number of acknowledgments before it, and what was *)
(* observed or the incident it is about.                                   *)

Message(kind, alert, n, of) == [kind |-> kind, alert |-> alert, n |-> n, of |-> of]
IncidentMessage(i) == Message("incident", AlertOf[i], 0, i)

\* An entry of the active alerts.
NoEntry == [level |-> 0, auto |-> FALSE, gen |-> 0, of |-> 0, acks |-> 0]

\* An alert state without alerts.
EmptyStore ==
  [active |-> [a \in Alerts |-> NoEntry],
   gens   |-> [c \in Conditions |-> 0],  \* alert_generations
   ids    |-> {},                        \* event_ids
   offset |-> 0,                         \* event_offset: whole rows, ...
   cut    |-> FALSE]                     \* ... and part of the next one

EmptyCursor == [offset |-> 0, pending |-> 0, blocked |-> FALSE]
IdleClerk ==
  [step |-> "idle", store |-> EmptyStore, alert |-> NoAlert, resolve |-> FALSE]

Init ==
  /\ holds = [c \in Conditions |-> 0] /\ incidents = 0 /\ torn = FALSE
  /\ ledger = <<>>
  /\ saved = EmptyStore /\ mem = EmptyStore
  /\ at = "poll" /\ seen = holds /\ row = 1 /\ upto = 0 /\ part = FALSE
  /\ cursor = EmptyCursor /\ notifier = EmptyCursor
  /\ delivered = {} /\ inbox = <<>>
  /\ clerk = IdleClerk /\ doubts = 0
  /\ budget = [events |-> MaxEvents, changes |-> MaxChanges, answers |-> MaxAnswers]

SpendEvent ==
  /\ budget.events > 0
  /\ budget' = [budget EXCEPT !.events = @ - 1]
SpendChange ==
  /\ budget.events > 0 /\ budget.changes > 0
  /\ budget' = [budget EXCEPT !.events = @ - 1, !.changes = @ - 1]
SpendAnswer ==
  /\ budget.events > 0 /\ budget.answers > 0
  /\ budget' = [budget EXCEPT !.events = @ - 1, !.answers = @ - 1]

-----------------------------------------------------------------------------
(* What the Paper engine writes.                                           *)

ConditionChanges(c) ==
  /\ SpendChange
  /\ \E level \in 0..MaxLevel \ {holds[c]} : holds' = [holds EXCEPT ![c] = level]
  /\ UNCHANGED <<journal, ledger, monitor, at, delivery, clerk, doubts>>

EventsOnly ==
  UNCHANGED <<holds, ledger, monitor, at, delivery, clerk, doubts, budget>>

\* A row reaches the file in pieces ...
IncidentBegins ==
  /\ incidents < MaxIncidents /\ ~torn
  /\ torn' = TRUE
  /\ EventsOnly /\ UNCHANGED incidents

\* ... and is whole with its newline.
IncidentOccurs ==
  /\ incidents < MaxIncidents
  /\ incidents' = incidents + 1 /\ torn' = FALSE
  /\ EventsOnly

\* An engine that is resumed cuts off what its predecessor left half written.
IncidentDropped ==
  /\ torn
  /\ torn' = FALSE
  /\ EventsOnly /\ UNCHANGED incidents

-----------------------------------------------------------------------------
(* The monitor: poll_once.                                                 *)

MonitorOnly == UNCHANGED <<holds, journal, delivery, clerk, doubts>>

\* A poll's own variables, once it has returned.
NoPoll ==
  seen' = [c \in Conditions |-> 0] /\ row' = 1 /\ upto' = 0 /\ part' = FALSE

\* Only the conditions' entries change; only the reading of the journal moves on.
WithinConditions == MonitorOnly /\ UNCHANGED <<at, saved, seen, row, upto, part, budget>>
WithinEvents == MonitorOnly /\ UNCHANGED <<seen, upto, part, budget>>

Evaluate ==
  /\ at = "poll"
  /\ seen' = holds /\ at' = "conditions"
  /\ MonitorOnly /\ UNCHANGED <<ledger, saved, mem, row, upto, part, budget>>

Recovering(c) == mem.active[c].auto /\ seen[c] = 0

\* An active condition that is no longer there.
Recover(c) ==
  /\ at = "conditions" /\ Recovering(c)
  /\ ledger' = Append(ledger, Message("recovered", c, mem.active[c].gen, 0))
  /\ mem' = [mem EXCEPT !.active[c] = NoEntry]
  /\ WithinConditions

Holding(c) ==
  /\ at = "conditions" /\ \A d \in Conditions : ~Recovering(d)
  /\ seen[c] > 0

\* Activations are numbered; a change of severity is not one, nor is taking over
\* the entry that an incident left under the same alert_id.
Generation(c) ==
  IF mem.active[c].level > 0 THEN mem.active[c].gen ELSE mem.gens[c] + 1
Renewed(c) ==
  [level |-> seen[c], auto |-> TRUE, gen |-> Generation(c), of |-> 0, acks |-> 0]

\* A new alert or another severity; what is observed is part of its event_id.
Announce(c) ==
  /\ Holding(c) /\ seen[c] # mem.active[c].level
  /\ \E reading \in Readings :
       ledger' = Append(ledger, Message("active", c, Generation(c), reading))
  /\ mem' = [mem EXCEPT !.active[c] = Renewed(c), !.gens[c] = Generation(c)]
  /\ WithinConditions

\* The same severity: the entry is replaced and nothing is said.
TakeOver(c) ==
  /\ Holding(c) /\ seen[c] = mem.active[c].level /\ mem.active[c] # Renewed(c)
  /\ mem' = [mem EXCEPT !.active[c] = Renewed(c)]
  /\ WithinConditions /\ UNCHANGED ledger

\* The end of observe_conditions.
SaveConditions ==
  /\ at = "conditions"
  /\ \A c \in Conditions :
       IF seen[c] = 0 THEN ~Recovering(c) ELSE mem.active[c] = Renewed(c)
  /\ saved' = mem
  /\ at' = "read"
  /\ WithinEvents /\ UNCHANGED <<ledger, mem, row>>

\* The rows that can be read, up to the end of the file.
ReadJournal ==
  /\ at = "read"
  /\ mem.cut => torn /\ incidents = mem.offset
  /\ row' = mem.offset + 1 /\ upto' = incidents /\ part' = torn
  /\ at' = "events"
  /\ MonitorOnly /\ UNCHANGED <<ledger, saved, mem, seen, budget>>

\* Read from its middle, a row is no JSON; cut off, it is shorter than the cursor.
ReadRaises ==
  /\ at = "read"
  /\ mem.cut /\ ~(torn /\ incidents = mem.offset)
  /\ at' = "deliver" /\ NoPoll
  /\ MonitorOnly /\ UNCHANGED <<ledger, saved, mem, budget>>

\* The incident's alert was recorded by an earlier poll or process.
SkipIncident ==
  /\ at = "events" /\ row <= upto /\ row \in mem.ids
  /\ row' = row + 1
  /\ WithinEvents /\ UNCHANGED <<ledger, at, saved, mem>>

\* A condition of the same alert is active.
Covered(i) == mem.active[AlertOf[i]].auto

\* The incident is consumed without a row of its own.
AbsorbIncident ==
  /\ at = "events" /\ row <= upto /\ row \notin mem.ids /\ Covered(row)
  /\ mem' = [mem EXCEPT !.ids = @ \union {row}]
  /\ saved' = mem'
  /\ row' = row + 1
  /\ WithinEvents /\ UNCHANGED <<ledger, at>>

IncidentEntry(i) == [level |-> 1, auto |-> FALSE, gen |-> 1, of |-> i, acks |-> 0]

\* record_event_alert up to its save ...
RecordIncident ==
  /\ at = "events" /\ row <= upto /\ row \notin mem.ids /\ ~Covered(row)
  /\ ledger' = Append(ledger, IncidentMessage(row))
  /\ mem' = [mem EXCEPT !.active[AlertOf[row]] = IncidentEntry(row),
                        !.ids = @ \union {row}]
  /\ at' = "record"
  /\ WithinEvents /\ UNCHANGED <<saved, row>>

\* ... and the save.
SaveIncident ==
  /\ at = "record"
  /\ saved' = mem
  /\ row' = row + 1 /\ at' = "events"
  /\ WithinEvents /\ UNCHANGED <<ledger, mem>>

\* Mutants: the end of the journal as it is now; the row that would be next.
EndOfJournal == incidents
StartOfNext == row

\* Of the whole rows only what this poll has read and recorded is consumed.
EndOfRead == upto

\* The cursor is where the reading stopped, which may be inside a torn row; it
\* moves only when a whole row was read.
Consumed ==
  IF upto > mem.offset THEN [mem EXCEPT !.offset = EndOfRead, !.cut = part] ELSE mem

FinishPoll ==
  /\ at = "events" /\ row > upto
  /\ mem' = Consumed
  /\ saved' = mem'
  /\ at' = "deliver" /\ NoPoll
  /\ MonitorOnly /\ UNCHANGED <<ledger, budget>>

\* An exception in the poll is logged; the loop goes on with what is in memory.
PollFails ==
  /\ at \in {"conditions", "read", "events", "record"}
  /\ SpendEvent
  /\ at' = "deliver" /\ NoPoll
  /\ MonitorOnly /\ UNCHANGED <<ledger, saved, mem>>

\* ... also when what failed was a save, and the memory is ahead of the file.
SaveFails ==
  /\ at = "events" /\ SpendEvent
  /\ \/ /\ row <= upto /\ row \notin mem.ids /\ Covered(row)
        /\ mem' = [mem EXCEPT !.ids = @ \union {row}]
     \/ row > upto /\ mem' = Consumed
  /\ at' = "deliver" /\ NoPoll
  /\ MonitorOnly /\ UNCHANGED <<ledger, saved>>

-----------------------------------------------------------------------------
(* The notifier: scan_once.                                                *)

NotifierOnly ==
  UNCHANGED <<holds, journal, ledger, monitor, clerk>>

\* A message being retried is sent again, before the ledger is read on.
BeginScan ==
  /\ at = "deliver"
  /\ at' = IF notifier.blocked THEN "poll"
           ELSE IF notifier.pending = 0 THEN "scan" ELSE "send"
  /\ NotifierOnly /\ UNCHANGED <<delivery, doubts, budget>>

Following == ledger[notifier.offset + 1]
MoreToRead == at = "scan" /\ notifier.offset < Len(ledger)

\* Mutant: every ledger row is a new message.
NeverSeen == FALSE

\* A message that was recorded twice is sent once.
AlreadyDelivered == Following \in delivered

Suppress ==
  /\ MoreToRead /\ AlreadyDelivered
  /\ notifier' = [notifier EXCEPT !.offset = @ + 1]
  /\ NotifierOnly /\ UNCHANGED <<at, cursor, delivered, inbox, doubts, budget>>

Queue ==
  /\ MoreToRead /\ ~AlreadyDelivered
  /\ notifier' = [notifier EXCEPT !.pending = notifier.offset + 1]
  /\ cursor' = notifier'
  /\ at' = "send"
  /\ NotifierOnly /\ UNCHANGED <<delivered, inbox, doubts, budget>>

NothingToSend ==
  /\ at = "scan" /\ notifier.offset = Len(ledger)
  /\ cursor' = notifier /\ at' = "poll"
  /\ NotifierOnly /\ UNCHANGED <<notifier, delivered, inbox, doubts, budget>>

\* Backoff, the minimum interval, or another sidecar that has just sent.
Defer ==
  /\ at = "send"
  /\ at' = "poll"
  /\ NotifierOnly /\ UNCHANGED <<delivery, doubts, budget>>

PendingMessage == ledger[notifier.pending]

\* Telegram takes the message, and says so or not.
Send ==
  /\ at = "send"
  /\ inbox' = Append(inbox, PendingMessage)
  /\ at' = "sent"
  /\ NotifierOnly /\ UNCHANGED <<cursor, notifier, delivered, doubts, budget>>
SendUnanswered ==
  /\ at = "send" /\ SpendEvent
  /\ inbox' = Append(inbox, PendingMessage)
  /\ doubts' = doubts + 1
  /\ at' = "poll"
  /\ NotifierOnly /\ UNCHANGED <<cursor, notifier, delivered>>

\* Telegram does not take it now; the attempt and its backoff are saved.
SendFails ==
  /\ at = "send" /\ SpendEvent
  /\ at' = "poll"
  /\ NotifierOnly /\ UNCHANGED <<delivery, doubts>>

\* Mutant: a message that Telegram rejects for good is passed over.
PassedOver == [notifier EXCEPT !.offset = notifier.pending, !.pending = 0]

\* The channel stops at the rejected message.
Blocked == [notifier EXCEPT !.blocked = TRUE]

SendRejected ==
  /\ at = "send" /\ SpendEvent
  /\ notifier' = Blocked
  /\ cursor' = notifier'
  /\ at' = "poll"
  /\ NotifierOnly /\ UNCHANGED <<delivered, inbox, doubts>>

\* The delivery journal first, the cursor after it.
NoteDelivery ==
  /\ at = "sent"
  /\ delivered' = delivered \union {PendingMessage}
  /\ at' = "noted"
  /\ NotifierOnly /\ UNCHANGED <<cursor, notifier, inbox, doubts, budget>>

\* Mutant: on to the end of the ledger.
PastLedger == Len(ledger)
PastPending == notifier.pending

AdvanceCursor ==
  /\ at = "noted"
  /\ notifier' = [offset |-> PastPending, pending |-> 0, blocked |-> FALSE]
  /\ cursor' = notifier'
  /\ at' = "poll"
  /\ NotifierOnly /\ UNCHANGED <<delivered, inbox, doubts, budget>>

-----------------------------------------------------------------------------
(* The end of the sidecar, by a crash or a stop request, and its start.    *)

Crash ==
  /\ at # "down" /\ SpendEvent
  /\ at' = "down" /\ NoPoll
  /\ mem' = EmptyStore /\ notifier' = EmptyCursor
  /\ doubts' = IF at \in {"sent", "noted"} THEN doubts + 1 ELSE doubts
  /\ UNCHANGED <<holds, journal, ledger, saved, cursor, delivered, inbox,
                 clerk>>

Restart ==
  /\ at = "down"
  /\ mem' = saved /\ notifier' = cursor
  /\ at' = "poll"
  /\ UNCHANGED <<holds, journal, ledger, saved, seen, row, upto, part, cursor,
                 delivered, inbox, clerk, doubts, budget>>

-----------------------------------------------------------------------------
(* The operator's commands, in processes of their own.                     *)

ClerkOnly ==
  UNCHANGED <<holds, journal, mem, at, seen, row, upto, part, doubts>>

\* acknowledge: the state file is read, ...
ClerkLoads(a, resolve) ==
  /\ clerk.step = "idle" /\ saved.active[a].level > 0 /\ SpendAnswer
  /\ clerk' = [step |-> "loaded", store |-> saved, alert |-> a,
               resolve |-> resolve]
  /\ ClerkOnly /\ UNCHANGED <<ledger, saved, delivery>>

\* ... the answer is appended to the ledger, ...
ClerkAppends ==
  LET entry == clerk.store.active[clerk.alert]
      answer == IF clerk.resolve THEN "resolved" ELSE "acknowledged"
  IN /\ clerk.step = "loaded"
     /\ ledger' = Append(ledger, Message(answer, clerk.alert, entry.acks, entry.of))
     /\ clerk' = [clerk EXCEPT
          !.step = "appended",
          !.store.active[clerk.alert] =
             IF clerk.resolve THEN NoEntry ELSE [entry EXCEPT !.acks = @ + 1]]
     /\ ClerkOnly /\ UNCHANGED <<saved, delivery, budget>>

\* ... and the state read at first is written back with it.
ClerkSaves ==
  /\ clerk.step = "appended"
  /\ saved' = clerk.store
  /\ clerk' = IdleClerk
  /\ ClerkOnly /\ UNCHANGED <<ledger, delivery, budget>>

\* requeue_blocked_delivery: the running notifier does not read it.
Requeue ==
  /\ cursor.pending > 0 /\ cursor.blocked
  /\ cursor' = [cursor EXCEPT !.blocked = FALSE]
  /\ ClerkOnly
  /\ UNCHANGED <<ledger, saved, notifier, delivered, inbox, clerk, budget>>

-----------------------------------------------------------------------------

Poll ==
  \/ Evaluate \/ SaveConditions \/ ReadJournal \/ ReadRaises
  \/ SkipIncident \/ AbsorbIncident \/ RecordIncident \/ SaveIncident
  \/ FinishPoll
  \/ \E c \in Conditions : Recover(c) \/ Announce(c) \/ TakeOver(c)

Scan ==
  \/ BeginScan \/ Suppress \/ Queue \/ NothingToSend \/ Defer
  \/ NoteDelivery \/ AdvanceCursor

Failure ==
  \/ PollFails \/ SaveFails \/ SendUnanswered \/ SendFails \/ SendRejected
  \/ Crash

Command ==
  \/ \E a \in Alerts, resolve \in BOOLEAN : ClerkLoads(a, resolve)
  \/ ClerkAppends \/ ClerkSaves \/ Requeue

Next ==
  \/ IncidentBegins \/ IncidentOccurs \/ IncidentDropped
  \/ \E c \in Conditions : ConditionChanges(c)
  \/ Poll \/ Scan \/ Send \/ Restart \/ Failure \/ Command

Spec == Init /\ [][Next]_vars

\* The loop runs, somebody starts the sidecar again, and a message is not put
\* off for ever: the backoff is finite and the interval is seconds.
FairSpec ==
  Spec /\ WF_vars(Poll \/ Scan \/ Restart) /\ SF_vars(Send)

-----------------------------------------------------------------------------
(* Properties.                                                             *)

Kinds == {"active", "recovered", "incident", "acknowledged", "resolved"}
Messages == [kind : Kinds, alert : Alerts, n : Nat, of : Nat]
Entries ==
  [level : Nat, auto : BOOLEAN, gen : Nat, of : 0..MaxIncidents,
   acks : Nat]
Stores ==
  [active : [Alerts -> Entries], gens : [Conditions -> Nat],
   ids : SUBSET Incidents, offset : 0..MaxIncidents, cut : BOOLEAN]
Cursors == [offset : Nat, pending : Nat, blocked : BOOLEAN]
Clerks ==
  [step : {"idle", "loaded", "appended"}, store : Stores,
   alert : Alerts \union {NoAlert}, resolve : BOOLEAN]
Budgets == [events : Nat, changes : Nat, answers : Nat]

TypeOK ==
  /\ holds \in [Conditions -> 0..MaxLevel] /\ incidents \in 0..MaxIncidents
  /\ torn \in BOOLEAN /\ part \in BOOLEAN
  /\ ledger \in Seq(Messages)
  /\ saved \in Stores /\ mem \in Stores
  /\ at \in {"poll", "conditions", "read", "events", "record", "deliver", "scan",
             "send", "sent", "noted", "down"}
  /\ seen \in [Conditions -> 0..MaxLevel]
  /\ row \in 1..MaxIncidents + 1 /\ upto \in 0..MaxIncidents
  /\ cursor \in Cursors /\ notifier \in Cursors
  /\ delivered \in SUBSET Messages /\ inbox \in Seq(Messages)
  /\ clerk \in Clerks
  /\ doubts \in Nat /\ budget \in Budgets

InLedger(x) == \E k \in 1..Len(ledger) : ledger[k] = x
Received(x) == \E k \in 1..Len(inbox) : inbox[k] = x

Opening(x) == x.kind \in {"active", "incident"}

\* The incident's own alert, or one of the condition with the same alert_id: its
\* activation, or the incident whose entry the condition took over.
Tells(x, i) ==
  \/ x = IncidentMessage(i)
  \/ AlertOf[i] \in Conditions /\ x.alert = AlertOf[i] /\ Opening(x)

\* An incident whose row the event cursor of the state file has passed as a whole
\* was considered, and one that was considered is told in the ledger, also after a
\* poll that died or raised half way, a save that failed and a command that wrote
\* an older state over a newer one.  A torn row that the cursor has entered is not
\* passed, and never will be.
IncidentsJournalled ==
  \A i \in Incidents :
    /\ i <= saved.offset => i \in saved.ids
    /\ i \in saved.ids => \E k \in 1..Len(ledger) : Tells(ledger[k], i)

\* Whatever the delivery cursor has passed was received by the operator: no crash,
\* failure, rejection or duplicate makes the notifier skip a message.
NothingSkipped ==
  \A k \in 1..Len(ledger) : k <= cursor.offset => Received(ledger[k])

\* The first news of an alert is not that it recovered or was dealt with: such a
\* message comes after the activation or incident it answers.  An incident is the
\* first generation of its alert.
Opens(x, y) ==
  /\ x.alert = y.alert /\ Opening(x)
  /\ y.kind = "recovered" => y.n = IF x.kind = "active" THEN x.n ELSE 1
NewsStartsWithAlert ==
  \A k \in 1..Len(inbox) : ~Opening(inbox[k]) =>
    \E j \in 1..k : Opens(inbox[j], inbox[k])

\* The operator reads a message, the same event_id, twice only when a send went
\* through whose success could not be recorded.  An activation that a restarted
\* monitor appends again is the same message only if it observes the same.
Distinct == {inbox[k] : k \in 1..Len(inbox)}
RepeatsAreExplained == Len(inbox) <= Cardinality(Distinct) + doubts

\* Every incident reaches the operator, across crashes, failed polls and failed
\* sends, unless Telegram rejected a message for good and the sidecar has not been
\* restarted since the operator requeued it, or the event cursor was saved inside
\* a torn row, where every later poll fails.
Informed ==
  \A i \in 1..incidents : \E k \in 1..Len(inbox) : Tells(inbox[k], i)
IncidentsReachOperator ==
  <>[]Informed \/ <>[](notifier.blocked) \/ <>[](saved.cut)
=============================================================================
