----------------------- MODULE AlertNotificationsProofs -----------------------
(***************************************************************************)
(* Proofs about AlertNotifications for any conditions, incidents, levels   *)
(* and numbers of crashes, failures and commands: no incident and no       *)
(* message is lost, no news arrives before the alert it is about, and      *)
(* every repetition is explained by a send whose success was not recorded. *)
(***************************************************************************)
EXTENDS AlertNotifications, FiniteSetTheorems, TLAPS

-----------------------------------------------------------------------------
(* Types.  A cursor points into the ledger, and its pending message is the *)
(* one it points to.                                                       *)

PointsIntoLedger(c) ==
  /\ c.offset <= Len(ledger)
  /\ c.pending # 0 => c.pending = c.offset + 1 /\ c.pending <= Len(ledger)

TypeInv ==
  /\ TypeOK
  /\ at = "record" => row <= upto /\ row \in mem.ids
  /\ at = "down" => row = 1
  /\ PointsIntoLedger(cursor) /\ PointsIntoLedger(notifier)
  /\ at = "scan" => notifier.pending = 0
  /\ at \in {"send", "sent", "noted"} => notifier.pending # 0
  /\ clerk.step = "loaded" => clerk.alert \in Alerts

LEMMA Records ==
  /\ NoEntry \in Entries /\ NoEntry.level = 0 /\ NoEntry.auto = FALSE
  /\ EmptyStore \in Stores /\ EmptyCursor \in Cursors
  /\ IdleClerk.step = "idle" /\ IdleClerk.store = EmptyStore /\ IdleClerk \in Clerks
<1>1. NoEntry \in Entries /\ NoEntry.level = 0 /\ NoEntry.auto = FALSE
  BY BoundsAssumption DEF NoEntry, Entries
<1>2. EmptyStore \in Stores
  BY <1>1, BoundsAssumption DEF EmptyStore, Stores
<1>3. QED
  BY <1>1, <1>2 DEF EmptyCursor, IdleClerk, Cursors, Clerks

LEMMA MessageType ==
  /\ \A a \in Alerts, n \in Nat, of \in Nat :
       /\ Message("active", a, n, of) \in Messages
       /\ Message("recovered", a, n, of) \in Messages
       /\ Message("acknowledged", a, n, of) \in Messages
       /\ Message("resolved", a, n, of) \in Messages
  /\ \A i \in Incidents : AlertOf[i] \in Alerts /\ IncidentMessage(i) \in Messages
BY AlertsAssumption, BoundsAssumption DEF Message, IncidentMessage, Messages, Kinds, Incidents

LEMMA SpendType ==
  ASSUME TypeOK, SpendEvent \/ SpendChange \/ SpendAnswer
  PROVE  budget' \in Budgets
<1>1. budget \in Budgets
  BY DEF TypeOK
<1>2. CASE SpendEvent
  BY <1>1, <1>2 DEF SpendEvent, Budgets
<1>3. CASE SpendChange
  <2>1. budget.events - 1 \in Nat /\ budget.changes - 1 \in Nat
    BY <1>1, <1>3 DEF SpendChange, Budgets
  <2>2. QED
    BY <1>1, <1>3, <2>1 DEF SpendChange, Budgets
<1>4. CASE SpendAnswer
  <2>1. budget.events - 1 \in Nat /\ budget.answers - 1 \in Nat
    BY <1>1, <1>4 DEF SpendAnswer, Budgets
  <2>2. QED
    BY <1>1, <1>4, <2>1 DEF SpendAnswer, Budgets
<1>5. QED
  BY <1>2, <1>3, <1>4

\* What a step that only appends to the ledger leaves of the cursors.
LEMMA AppendKeepsPointers ==
  ASSUME TypeInv, NEW x \in Messages, ledger' = Append(ledger, x),
         UNCHANGED <<cursor, notifier>>
  PROVE  /\ ledger' \in Seq(Messages)
         /\ PointsIntoLedger(cursor)' /\ PointsIntoLedger(notifier)'
<1>1. ledger' \in Seq(Messages) /\ Len(ledger') = Len(ledger) + 1 /\ Len(ledger) \in Nat
  BY DEF TypeInv, TypeOK
<1>2. QED
  BY <1>1 DEF TypeInv, TypeOK, PointsIntoLedger, Cursors

LEMMA TypeInit == Init => TypeInv
<1> SUFFICES ASSUME Init PROVE TypeInv
  OBVIOUS
<1>1. holds \in [Conditions -> 0..MaxLevel]
  BY BoundsAssumption DEF Init
<1>2. budget \in Budgets
  BY BoundsAssumption DEF Init, Budgets
<1>3. TypeOK
  <2>1. /\ incidents \in 0..MaxIncidents /\ seen \in [Conditions -> 0..MaxLevel]
        /\ row \in 1..MaxIncidents + 1 /\ upto \in 0..MaxIncidents /\ doubts \in Nat
    BY <1>1, BoundsAssumption DEF Init
  <2>2. /\ saved \in Stores /\ mem \in Stores
        /\ cursor \in Cursors /\ notifier \in Cursors
        /\ clerk.step = "idle" /\ clerk \in Clerks
    BY Records DEF Init
  <2>3. /\ ledger \in Seq(Messages) /\ inbox \in Seq(Messages)
        /\ delivered \in SUBSET Messages /\ at = "poll"
    BY DEF Init
  <2>4. torn \in BOOLEAN /\ part \in BOOLEAN
    BY DEF Init
  <2>5. QED
    BY <1>1, <1>2, <2>1, <2>2, <2>3, <2>4 DEF TypeOK
<1>4. ledger = <<>> /\ EmptyCursor.offset = 0 /\ EmptyCursor.pending = 0
  BY DEF Init, EmptyCursor
<1>5. QED
  BY <1>3, <1>4, Records DEF Init, TypeInv, PointsIntoLedger

\* The actions that leave the ledger and the cursors alone, with what they do to
\* the monitor and the clerk.
LEMMA PointersStay ==
  ASSUME TypeInv, UNCHANGED <<ledger, cursor, notifier>>
  PROVE  PointsIntoLedger(cursor)' /\ PointsIntoLedger(notifier)'
BY DEF TypeInv, PointsIntoLedger

LEMMA NoPollType ==
  ASSUME NoPoll
  PROVE  /\ seen' \in [Conditions -> 0..MaxLevel]
         /\ row' \in 1..MaxIncidents + 1 /\ row' = 1
         /\ upto' \in 0..MaxIncidents /\ part' \in BOOLEAN
<1>1. row' \in 1..MaxIncidents + 1 /\ row' = 1 /\ upto' \in 0..MaxIncidents
  BY BoundsAssumption DEF NoPoll
<1>2. seen' \in [Conditions -> 0..MaxLevel]
  BY BoundsAssumption DEF NoPoll
<1>3. part' \in BOOLEAN
  BY DEF NoPoll
<1>4. QED
  BY <1>1, <1>2, <1>3

LEMMA EnvironmentType ==
  ASSUME TypeInv,
         \/ IncidentBegins \/ IncidentOccurs \/ IncidentDropped
         \/ \E c \in Conditions : ConditionChanges(c)
  PROVE  TypeInv'
<1>1. CASE IncidentBegins \/ IncidentOccurs \/ IncidentDropped
  <2>1. incidents' \in 0..MaxIncidents
    BY <1>1, BoundsAssumption
    DEF IncidentBegins, IncidentOccurs, IncidentDropped, TypeInv, TypeOK
  <2>2. torn' \in BOOLEAN /\ EventsOnly
    BY <1>1 DEF IncidentBegins, IncidentOccurs, IncidentDropped
  <2>3. QED
    BY <2>1, <2>2, PointersStay DEF EventsOnly, TypeInv, TypeOK, monitor, delivery
<1>2. ASSUME NEW c \in Conditions, ConditionChanges(c)
      PROVE  TypeInv'
  <2>1. holds' \in [Conditions -> 0..MaxLevel]
    BY <1>2 DEF ConditionChanges, TypeInv, TypeOK
  <2>2. budget' \in Budgets
    BY <1>2, SpendType DEF ConditionChanges, TypeInv
  <2>3. QED
    BY <1>2, <2>1, <2>2, PointersStay
    DEF ConditionChanges, TypeInv, TypeOK, journal, monitor, delivery
<1>3. QED
  BY <1>1, <1>2

\* A poll that appends to the ledger.
LEMMA PollAppendsType ==
  ASSUME TypeInv, NEW x \in Messages, ledger' = Append(ledger, x),
         mem' \in Stores, at' = "conditions" \/ (at' = "record" /\ row <= upto /\ row \in mem'.ids),
         MonitorOnly, UNCHANGED <<saved, seen, row, upto, part, budget>>
  PROVE  TypeInv'
<1>1. /\ ledger' \in Seq(Messages)
      /\ PointsIntoLedger(cursor)' /\ PointsIntoLedger(notifier)'
  BY AppendKeepsPointers DEF MonitorOnly, delivery
<1>2. QED
  BY <1>1 DEF TypeInv, TypeOK, MonitorOnly, journal, delivery

LEMMA EntryType ==
  ASSUME TypeInv, NEW a \in Alerts
  PROVE  /\ mem \in Stores /\ mem.active[a] \in Entries
         /\ mem.active[a].level \in Nat /\ mem.active[a].auto \in BOOLEAN
         /\ mem.active[a].gen \in Nat
BY DEF TypeInv, TypeOK, Stores, Entries

LEMMA RecoverFacts ==
  ASSUME TypeInv, NEW c \in Conditions, Recover(c)
  PROVE  /\ c \in Alerts /\ mem.active[c].auto
         /\ Message("recovered", c, mem.active[c].gen, 0) \in Messages
         /\ ledger' = Append(ledger, Message("recovered", c, mem.active[c].gen, 0))
         /\ mem'.active = [mem.active EXCEPT ![c] = NoEntry]
         /\ mem'.gens = mem.gens /\ mem'.ids = mem.ids /\ mem'.offset = mem.offset
         /\ mem' \in Stores
<1>1. c \in Alerts /\ mem \in Stores /\ mem.active[c].gen \in Nat
  BY EntryType, AlertsAssumption
<1>2. mem' = [mem EXCEPT !.active = [mem.active EXCEPT ![c] = NoEntry]]
  BY DEF Recover
<1>3. Message("recovered", c, mem.active[c].gen, 0) \in Messages
  BY <1>1, MessageType
<1>4. /\ mem'.active = [mem.active EXCEPT ![c] = NoEntry]
      /\ mem'.gens = mem.gens /\ mem'.ids = mem.ids /\ mem'.offset = mem.offset
      /\ mem' \in Stores
  BY <1>1, <1>2, Records DEF Stores
<1>5. QED
  BY <1>1, <1>3, <1>4 DEF Recover, Recovering

\* The entry a condition that holds is given.
LEMMA RenewedType ==
  ASSUME TypeInv, NEW c \in Conditions, Holding(c)
  PROVE  /\ c \in Alerts /\ mem \in Stores /\ Generation(c) \in Nat
         /\ Renewed(c) \in Entries /\ Renewed(c).level > 0 /\ Renewed(c).auto
         /\ Renewed(c).gen = Generation(c)
<1>1. /\ c \in Alerts /\ mem \in Stores /\ mem.active[c].gen \in Nat
      /\ mem.active[c].level \in Nat
  BY EntryType, AlertsAssumption
<1>2. mem.gens[c] \in Nat
  BY <1>1 DEF Stores
<1>3. Generation(c) \in Nat
  BY <1>1, <1>2 DEF Generation
<1>4. seen[c] \in Nat /\ seen[c] > 0
  BY BoundsAssumption DEF Holding, TypeInv, TypeOK
<1>5. QED
  BY <1>1, <1>3, <1>4, BoundsAssumption DEF Renewed, Entries

LEMMA AnnounceFacts ==
  ASSUME TypeInv, NEW c \in Conditions, Announce(c)
  PROVE  /\ Holding(c)
         /\ \E reading \in Readings :
              /\ Message("active", c, Generation(c), reading) \in Messages
              /\ ledger' = Append(ledger, Message("active", c, Generation(c), reading))
         /\ mem'.active = [mem.active EXCEPT ![c] = Renewed(c)]
         /\ mem'.ids = mem.ids /\ mem'.offset = mem.offset
         /\ mem' \in Stores
<1>1. /\ c \in Alerts /\ mem \in Stores /\ Generation(c) \in Nat
      /\ Renewed(c) \in Entries /\ Holding(c)
  BY RenewedType DEF Announce
<1>2. PICK reading \in Readings :
        ledger' = Append(ledger, Message("active", c, Generation(c), reading))
  BY DEF Announce
<1>3. Message("active", c, Generation(c), reading) \in Messages
  <2>1. reading \in Nat
    BY BoundsAssumption DEF Readings
  <2>2. QED
    BY <1>1, <2>1, MessageType
<1>4. mem' = [mem EXCEPT !.active = [mem.active EXCEPT ![c] = Renewed(c)],
                         !.gens = [mem.gens EXCEPT ![c] = Generation(c)]]
  BY DEF Announce
<1>5. /\ mem'.active = [mem.active EXCEPT ![c] = Renewed(c)]
      /\ mem'.ids = mem.ids /\ mem'.offset = mem.offset /\ mem' \in Stores
  BY <1>1, <1>4 DEF Stores
<1>6. QED
  BY <1>1, <1>2, <1>3, <1>5

LEMMA TakeOverFacts ==
  ASSUME TypeInv, NEW c \in Conditions, TakeOver(c)
  PROVE  /\ Holding(c) /\ mem.active[c].level > 0 /\ Generation(c) = mem.active[c].gen
         /\ mem'.active = [mem.active EXCEPT ![c] = Renewed(c)]
         /\ mem'.ids = mem.ids /\ mem'.offset = mem.offset
         /\ mem' \in Stores
<1>1. /\ c \in Alerts /\ mem \in Stores /\ Renewed(c) \in Entries /\ Holding(c)
  BY RenewedType DEF TakeOver
<1>2. mem' = [mem EXCEPT !.active = [mem.active EXCEPT ![c] = Renewed(c)]]
  BY DEF TakeOver
<1>3. mem.active[c].level > 0 /\ Generation(c) = mem.active[c].gen
  BY DEF TakeOver, Holding, Generation
<1>4. QED
  BY <1>1, <1>2, <1>3 DEF Stores

LEMMA RecordFacts ==
  ASSUME TypeInv, RecordIncident
  PROVE  /\ row \in Incidents /\ row <= upto /\ AlertOf[row] \in Alerts
         /\ IncidentMessage(row) \in Messages
         /\ ledger' = Append(ledger, IncidentMessage(row))
         /\ mem'.active = [mem.active EXCEPT ![AlertOf[row]] = IncidentEntry(row)]
         /\ mem'.ids = mem.ids \union {row}
         /\ mem'.offset = mem.offset
         /\ mem' \in Stores
<1>1. mem \in Stores /\ row \in Incidents /\ row <= upto
  BY BoundsAssumption DEF RecordIncident, TypeInv, TypeOK, Incidents
<1>2. AlertOf[row] \in Alerts /\ IncidentMessage(row) \in Messages
  BY <1>1, MessageType
<1>3. mem' = [mem EXCEPT !.active = [mem.active EXCEPT ![AlertOf[row]] = IncidentEntry(row)],
                         !.ids = mem.ids \union {row}]
  BY DEF RecordIncident
<1>4. IncidentEntry(row) \in Entries
  BY <1>1, BoundsAssumption DEF IncidentEntry, Entries, Incidents
<1>5. /\ mem'.active = [mem.active EXCEPT ![AlertOf[row]] = IncidentEntry(row)]
      /\ mem'.ids = mem.ids \union {row} /\ mem'.offset = mem.offset /\ mem' \in Stores
  BY <1>1, <1>2, <1>3, <1>4 DEF Stores
<1>6. QED
  BY <1>1, <1>2, <1>5 DEF RecordIncident

LEMMA AbsorbFacts ==
  ASSUME TypeInv, AbsorbIncident
  PROVE  /\ row \in Incidents /\ row <= upto /\ Covered(row)
         /\ mem'.active = mem.active
         /\ mem'.ids = mem.ids \union {row} /\ mem'.offset = mem.offset
         /\ saved' = mem' /\ mem' \in Stores
         /\ row' = row + 1 /\ row' \in 1..MaxIncidents + 1
<1>1. mem \in Stores /\ row \in Incidents /\ row <= upto /\ row <= MaxIncidents
  BY BoundsAssumption DEF AbsorbIncident, TypeInv, TypeOK, Incidents
<1>2. mem' = [mem EXCEPT !.ids = mem.ids \union {row}]
  BY DEF AbsorbIncident
<1>3. QED
  BY <1>1, <1>2, BoundsAssumption DEF AbsorbIncident, Stores, Incidents

LEMMA ReadFacts ==
  ASSUME TypeInv, ReadJournal
  PROVE  /\ UNCHANGED <<ledger, saved, mem, clerk>>
         /\ row' = mem.offset + 1 /\ row' \in 1..MaxIncidents + 1
         /\ upto' \in 0..MaxIncidents /\ part' \in BOOLEAN
BY BoundsAssumption DEF ReadJournal, MonitorOnly, TypeInv, TypeOK, Stores

\* The end of a reading, whether any row was read or not.
LEMMA ConsumedFacts ==
  ASSUME TypeInv
  PROVE  /\ Consumed \in Stores
         /\ Consumed.active = mem.active /\ Consumed.ids = mem.ids
         /\ Consumed.offset = upto \/ Consumed = mem
<1>1. mem \in Stores /\ upto \in 0..MaxIncidents /\ part \in BOOLEAN
  BY DEF TypeInv, TypeOK
<1>2. CASE upto > mem.offset
  <2>1. Consumed = [mem EXCEPT !.offset = upto, !.cut = part]
    BY <1>2 DEF Consumed, EndOfRead
  <2>2. QED
    BY <1>1, <2>1 DEF Stores
<1>3. CASE ~(upto > mem.offset)
  BY <1>1, <1>3 DEF Consumed
<1>4. QED
  BY <1>2, <1>3

LEMMA FinishFacts ==
  ASSUME TypeInv, FinishPoll
  PROVE  /\ mem'.active = mem.active /\ mem'.ids = mem.ids
         /\ mem'.offset = upto \/ mem'.offset = mem.offset
         /\ saved' = mem' /\ mem' \in Stores /\ upto < row
<1>1. upto \in Int /\ row \in Int /\ mem' = Consumed /\ saved' = mem' /\ row > upto
  BY DEF FinishPoll, TypeInv, TypeOK
<1>2. QED
  BY <1>1, ConsumedFacts

LEMMA SaveFailsFacts ==
  ASSUME TypeInv, SaveFails
  PROVE  /\ mem'.active = mem.active /\ mem' \in Stores
         /\ \/ /\ mem'.ids = mem.ids /\ upto < row
               /\ mem'.offset = upto \/ mem'.offset = mem.offset
            \/ /\ row \in Incidents /\ Covered(row)
               /\ mem'.ids = mem.ids \union {row} /\ mem'.offset = mem.offset
<1>1. mem \in Stores /\ upto \in 0..MaxIncidents /\ row \in 1..MaxIncidents + 1
  BY DEF TypeInv, TypeOK
<1>2. CASE row > upto /\ mem' = Consumed
  BY <1>1, <1>2, ConsumedFacts
<1>3. CASE row <= upto /\ Covered(row) /\ mem' = [mem EXCEPT !.ids = mem.ids \union {row}]
  <2>1. row \in Incidents
    BY <1>1, <1>3, BoundsAssumption DEF Incidents
  <2>2. QED
    BY <1>1, <1>3, <2>1 DEF Stores
<1>4. QED
  BY <1>2, <1>3 DEF SaveFails

LEMMA PollType ==
  ASSUME TypeInv, Poll
  PROVE  TypeInv'
<1>1. CASE Evaluate
  BY <1>1, PointersStay DEF Evaluate, TypeInv, TypeOK, MonitorOnly, journal, delivery
<1>2. CASE SaveConditions
  BY <1>2, PointersStay
  DEF SaveConditions, WithinEvents, TypeInv, TypeOK, MonitorOnly, journal, delivery
<1>3. CASE SkipIncident
  <2>1. row' \in 1..MaxIncidents + 1
    BY <1>3, BoundsAssumption DEF SkipIncident, TypeInv, TypeOK
  <2>2. QED
    BY <1>3, <2>1, PointersStay
    DEF SkipIncident, WithinEvents, TypeInv, TypeOK, MonitorOnly, journal, delivery
<1>4. CASE AbsorbIncident
  <2>1. saved' \in Stores /\ mem' \in Stores /\ row' \in 1..MaxIncidents + 1
    BY <1>4, AbsorbFacts
  <2>2. QED
    BY <1>4, <2>1, PointersStay
    DEF AbsorbIncident, WithinEvents, TypeInv, TypeOK, MonitorOnly, journal, delivery
<1>5. CASE RecordIncident
  BY <1>5, RecordFacts, PollAppendsType DEF RecordIncident, WithinEvents
<1>6. CASE SaveIncident
  <2>1. row' \in 1..MaxIncidents + 1 /\ saved' \in Stores
    BY <1>6, BoundsAssumption DEF SaveIncident, TypeInv, TypeOK
  <2>2. QED
    BY <1>6, <2>1, PointersStay
    DEF SaveIncident, WithinEvents, TypeInv, TypeOK, MonitorOnly, journal, delivery
<1>7. CASE FinishPoll
  <2>1. saved' \in Stores /\ mem' \in Stores
    BY <1>7, FinishFacts
  <2>2. QED
    BY <1>7, <2>1, PointersStay, NoPollType
    DEF FinishPoll, TypeInv, TypeOK, MonitorOnly, journal, delivery
<1>8. CASE ReadJournal
  BY <1>8, ReadFacts, PointersStay
  DEF ReadJournal, TypeInv, TypeOK, MonitorOnly, journal, delivery
<1>9. CASE ReadRaises
  BY <1>9, PointersStay, NoPollType
  DEF ReadRaises, TypeInv, TypeOK, MonitorOnly, journal, delivery
<1>10. ASSUME NEW c \in Conditions, Recover(c)
       PROVE  TypeInv'
  BY <1>10, RecoverFacts, PollAppendsType DEF Recover, WithinConditions
<1>11. ASSUME NEW c \in Conditions, Announce(c)
       PROVE  TypeInv'
  BY <1>11, AnnounceFacts, PollAppendsType DEF Announce, Holding, WithinConditions
<1>12. ASSUME NEW c \in Conditions, TakeOver(c)
       PROVE  TypeInv'
  BY <1>12, TakeOverFacts, PointersStay
  DEF TakeOver, Holding, WithinConditions, TypeInv, TypeOK, MonitorOnly, journal, delivery
<1>13. QED
  BY <1>1, <1>2, <1>3, <1>4, <1>5, <1>6, <1>7, <1>8, <1>9, <1>10, <1>11, <1>12 DEF Poll

\* What the notifier's steps do to the ledger, the monitor and the clerk: nothing.
LEMMA NotifierTypes ==
  ASSUME TypeInv, NotifierOnly
  PROVE  /\ holds' \in [Conditions -> 0..MaxLevel] /\ incidents' \in 0..MaxIncidents
         /\ torn' \in BOOLEAN /\ part' \in BOOLEAN
         /\ ledger' = ledger /\ ledger' \in Seq(Messages)
         /\ saved' \in Stores /\ mem' \in Stores
         /\ seen' \in [Conditions -> 0..MaxLevel]
         /\ row' \in 1..MaxIncidents + 1 /\ upto' \in 0..MaxIncidents
         /\ clerk' = clerk /\ clerk' \in Clerks
BY DEF NotifierOnly, journal, monitor, TypeInv, TypeOK

\* The pending message, and what is left to do about it.
LEMMA PendingType ==
  ASSUME TypeInv, at \in {"send", "sent", "noted"}
  PROVE  /\ notifier.pending \in 1..Len(ledger) /\ notifier.pending = notifier.offset + 1
         /\ PendingMessage \in Messages
<1>1. /\ notifier.offset \in Nat /\ notifier.pending \in Nat
      /\ ledger \in Seq(Messages) /\ Len(ledger) \in Nat
  BY DEF TypeInv, TypeOK, Cursors
<1>2. notifier.pending \in 1..Len(ledger) /\ notifier.pending = notifier.offset + 1
  BY <1>1 DEF TypeInv, PointsIntoLedger
<1>3. QED
  BY <1>1, <1>2 DEF PendingMessage

LEMMA FollowingType ==
  ASSUME TypeInv, MoreToRead
  PROVE  /\ notifier.offset + 1 \in 1..Len(ledger) /\ notifier.pending = 0
         /\ Following \in Messages
<1>1. notifier.offset \in Nat /\ ledger \in Seq(Messages) /\ Len(ledger) \in Nat
  BY DEF TypeInv, TypeOK, Cursors
<1>2. QED
  BY <1>1 DEF TypeInv, MoreToRead, Following

LEMMA QueueFacts ==
  ASSUME TypeInv, Queue
  PROVE  /\ notifier'.offset = notifier.offset /\ notifier'.pending = notifier.offset + 1
         /\ notifier' \in Cursors /\ cursor' = notifier'
         /\ at' = "send"
<1>1. notifier \in Cursors /\ notifier.offset + 1 \in Nat
  BY DEF TypeInv, TypeOK, Cursors
<1>2. notifier' = [notifier EXCEPT !.pending = notifier.offset + 1]
  BY DEF Queue
<1>3. QED
  BY <1>1, <1>2 DEF Queue, Cursors

LEMMA SuppressFacts ==
  ASSUME TypeInv, Suppress
  PROVE  /\ notifier'.offset = notifier.offset + 1 /\ notifier'.pending = notifier.pending
         /\ notifier' \in Cursors
<1>1. notifier \in Cursors /\ notifier.offset + 1 \in Nat
  BY DEF TypeInv, TypeOK, Cursors
<1>2. notifier' = [notifier EXCEPT !.offset = notifier.offset + 1]
  BY DEF Suppress
<1>3. QED
  BY <1>1, <1>2 DEF Cursors

LEMMA AdvanceFacts ==
  ASSUME TypeInv, AdvanceCursor
  PROVE  /\ notifier'.offset = notifier.pending /\ notifier'.pending = 0
         /\ notifier' \in Cursors /\ cursor' = notifier' /\ at' = "poll"
BY DEF AdvanceCursor, PastPending, TypeInv, TypeOK, Cursors

LEMMA RejectFacts ==
  ASSUME TypeInv, SendRejected
  PROVE  /\ notifier'.offset = notifier.offset /\ notifier'.pending = notifier.pending
         /\ notifier' \in Cursors /\ cursor' = notifier' /\ at' = "poll"
BY DEF SendRejected, Blocked, TypeInv, TypeOK, Cursors

LEMMA RequeueFacts ==
  ASSUME TypeInv, Requeue
  PROVE  /\ cursor'.offset = cursor.offset /\ cursor'.pending = cursor.pending
         /\ cursor' \in Cursors
BY DEF Requeue, TypeInv, TypeOK, Cursors

LEMMA ScanType ==
  ASSUME TypeInv, Scan
  PROVE  TypeInv'
<1>1. CASE BeginScan
  <2>1. at' \in {"poll", "scan", "send"} /\ (at' = "scan" => notifier.pending = 0)
        /\ (at' = "send" => notifier.pending # 0)
    BY <1>1 DEF BeginScan
  <2>2. QED
    BY <1>1, <2>1, NotifierTypes, PointersStay
    DEF BeginScan, TypeInv, TypeOK, delivery
<1>2. CASE Suppress
  <2>1. NotifierOnly /\ UNCHANGED <<at, cursor, delivered, inbox, doubts, budget>> /\ MoreToRead
    BY <1>2 DEF Suppress
  <2>2. PointsIntoLedger(cursor)' /\ PointsIntoLedger(notifier)' /\ notifier'.pending = 0
    BY <1>2, <2>1, SuppressFacts, NotifierTypes, FollowingType
    DEF TypeInv, PointsIntoLedger
  <2>3. QED
    BY <1>2, <2>1, <2>2, NotifierTypes, SuppressFacts DEF TypeInv, TypeOK, MoreToRead
<1>3. CASE Queue
  <2>1. NotifierOnly /\ UNCHANGED <<delivered, inbox, doubts, budget>> /\ MoreToRead
    BY <1>3 DEF Queue
  <2>2. notifier.offset \in Nat /\ Len(ledger) \in Nat
    BY DEF TypeInv, TypeOK, Cursors
  <2>3. /\ PointsIntoLedger(cursor)' /\ PointsIntoLedger(notifier)'
        /\ notifier'.pending # 0
    BY <1>3, <2>1, <2>2, QueueFacts, NotifierTypes, FollowingType DEF PointsIntoLedger
  <2>4. QED
    BY <1>3, <2>1, <2>3, NotifierTypes, QueueFacts DEF TypeInv, TypeOK
<1>4. CASE NothingToSend
  BY <1>4, NotifierTypes DEF NothingToSend, TypeInv, TypeOK, PointsIntoLedger
<1>5. CASE Defer
  BY <1>5, NotifierTypes, PointersStay DEF Defer, TypeInv, TypeOK, delivery
<1>6. CASE NoteDelivery
  <2>1. delivered' \in SUBSET Messages
    BY <1>6, PendingType DEF NoteDelivery, TypeInv, TypeOK
  <2>2. QED
    BY <1>6, <2>1, NotifierTypes, PointersStay DEF NoteDelivery, TypeInv, TypeOK
<1>7. CASE AdvanceCursor
  <2>1. NotifierOnly /\ UNCHANGED <<delivered, inbox, doubts, budget>> /\ at = "noted"
    BY <1>7 DEF AdvanceCursor
  <2>2. PointsIntoLedger(cursor)' /\ PointsIntoLedger(notifier)'
    BY <1>7, <2>1, AdvanceFacts, NotifierTypes, PendingType DEF PointsIntoLedger
  <2>3. QED
    BY <1>7, <2>1, <2>2, NotifierTypes, AdvanceFacts DEF TypeInv, TypeOK
<1>8. QED
  BY <1>1, <1>2, <1>3, <1>4, <1>5, <1>6, <1>7 DEF Scan

LEMMA SendType ==
  ASSUME TypeInv, Send \/ SendUnanswered \/ SendFails \/ SendRejected
  PROVE  TypeInv'
<1>1. at = "send" /\ NotifierOnly
  BY DEF Send, SendUnanswered, SendFails, SendRejected
<1>2. Append(inbox, PendingMessage) \in Seq(Messages)
  BY <1>1, PendingType DEF TypeInv, TypeOK
<1>3. CASE Send
  BY <1>1, <1>2, <1>3, NotifierTypes, PointersStay DEF Send, TypeInv, TypeOK
<1>4. CASE SendUnanswered
  <2>1. budget' \in Budgets
    BY <1>4, SpendType DEF SendUnanswered, TypeInv
  <2>2. QED
    BY <1>1, <1>2, <1>4, <2>1, NotifierTypes, PointersStay DEF SendUnanswered, TypeInv, TypeOK
<1>5. CASE SendFails
  <2>1. budget' \in Budgets
    BY <1>5, SpendType DEF SendFails, TypeInv
  <2>2. QED
    BY <1>1, <1>5, <2>1, NotifierTypes, PointersStay DEF SendFails, TypeInv, TypeOK, delivery
<1>6. CASE SendRejected
  <2>1. budget' \in Budgets
    BY <1>6, SpendType DEF SendRejected, TypeInv
  <2>2. PointsIntoLedger(cursor)' /\ PointsIntoLedger(notifier)'
    BY <1>1, <1>6, RejectFacts, NotifierTypes DEF TypeInv, PointsIntoLedger
  <2>3. QED
    BY <1>1, <1>6, <2>1, <2>2, NotifierTypes, RejectFacts DEF SendRejected, TypeInv, TypeOK
<1>7. QED
  BY <1>3, <1>4, <1>5, <1>6

LEMMA RestartType ==
  ASSUME TypeInv, PollFails \/ SaveFails \/ Crash \/ Restart
  PROVE  TypeInv'
<1>1. CASE PollFails
  <2>1. budget' \in Budgets
    BY <1>1, SpendType DEF PollFails, TypeInv
  <2>2. QED
    BY <1>1, <2>1, NoPollType, PointersStay
    DEF PollFails, TypeInv, TypeOK, MonitorOnly, journal, delivery
<1>2. CASE Crash
  <2>1. budget' \in Budgets /\ doubts' \in Nat
    BY <1>2, SpendType DEF Crash, TypeInv, TypeOK
  <2>2. PointsIntoLedger(cursor)' /\ PointsIntoLedger(notifier)'
    <3>1. EmptyCursor.offset = 0 /\ EmptyCursor.pending = 0 /\ Len(ledger) \in Nat
      BY DEF EmptyCursor, TypeInv, TypeOK
    <3>2. QED
      BY <1>2, <3>1 DEF Crash, TypeInv, PointsIntoLedger
  <2>3. QED
    BY <1>2, <2>1, <2>2, Records, NoPollType DEF Crash, TypeInv, TypeOK, journal
<1>3. CASE Restart
  BY <1>3 DEF Restart, TypeInv, TypeOK, PointsIntoLedger, journal
<1>4. CASE SaveFails
  <2>1. budget' \in Budgets /\ mem' \in Stores
    BY <1>4, SpendType, SaveFailsFacts DEF SaveFails, TypeInv
  <2>2. QED
    BY <1>4, <2>1, NoPollType, PointersStay
    DEF SaveFails, TypeInv, TypeOK, MonitorOnly, journal, delivery
<1>5. QED
  BY <1>1, <1>2, <1>3, <1>4

-----------------------------------------------------------------------------
(* The commands.                                                           *)

\* What the clerk does to its copy of the state, field by field.
LEMMA ClerkLoadsFacts ==
  ASSUME TypeInv, NEW a \in Alerts, NEW resolve \in BOOLEAN, ClerkLoads(a, resolve)
  PROVE  /\ saved.active[a].level > 0
         /\ clerk'.step = "loaded" /\ clerk'.store = saved /\ clerk'.alert = a
         /\ clerk' \in Clerks
BY DEF ClerkLoads, Clerks, TypeInv, TypeOK

Answer ==
  LET entry == clerk.store.active[clerk.alert]
  IN Message(IF clerk.resolve THEN "resolved" ELSE "acknowledged", clerk.alert,
             entry.acks, entry.of)

LEMMA ClerkAppendsFacts ==
  ASSUME TypeInv, ClerkAppends
  PROVE  /\ Answer \in Messages /\ Answer.alert = clerk.alert
         /\ Answer.kind \in {"resolved", "acknowledged"}
         /\ ledger' = Append(ledger, Answer)
         /\ clerk'.step = "appended" /\ clerk' \in Clerks
         /\ \A b \in Alerts :
              \/ /\ clerk'.store.active[b].level = clerk.store.active[b].level
                 /\ clerk'.store.active[b].auto = clerk.store.active[b].auto
                 /\ clerk'.store.active[b].gen = clerk.store.active[b].gen
              \/ clerk'.store.active[b] = NoEntry
         /\ clerk'.store.ids = clerk.store.ids
         /\ clerk'.store.offset = clerk.store.offset
<1> DEFINE a == clerk.alert
           entry == clerk.store.active[a]
           answered == IF clerk.resolve THEN NoEntry ELSE [entry EXCEPT !.acks = @ + 1]
           active == [clerk.store.active EXCEPT ![a] = answered]
           store == [clerk.store EXCEPT !.active = active]
<1>1. clerk \in Clerks /\ clerk.store \in Stores /\ a \in Alerts
  BY DEF TypeInv, TypeOK, Clerks, ClerkAppends
<1>2. entry \in Entries /\ entry.acks \in Nat /\ entry.of \in Nat
  BY <1>1, BoundsAssumption DEF Stores, Entries
<1>3. Answer \in Messages /\ Answer.alert = a /\ Answer.kind \in {"resolved", "acknowledged"}
  <2>1. Answer \in Messages
    BY <1>1, <1>2, MessageType DEF Answer
  <2>2. QED
    BY <2>1 DEF Answer, Message
<1>4. /\ answered \in Entries
      /\ \/ answered = NoEntry
         \/ /\ answered.level = entry.level /\ answered.auto = entry.auto
            /\ answered.gen = entry.gen
  BY <1>2, Records DEF Entries
<1>5. /\ active \in [Alerts -> Entries] /\ active[a] = answered
      /\ \A b \in Alerts : b # a => active[b] = clerk.store.active[b]
  BY <1>1, <1>4 DEF Stores
<1>6. /\ store \in Stores /\ store.active = active
      /\ store.ids = clerk.store.ids /\ store.offset = clerk.store.offset
  BY <1>1, <1>5 DEF Stores
<1>7. clerk' = [clerk EXCEPT !.step = "appended", !.store = store]
  BY <1>1 DEF ClerkAppends, Clerks, Stores
<1>8. clerk'.step = "appended" /\ clerk'.store = store /\ clerk' \in Clerks
  BY <1>1, <1>6, <1>7 DEF Clerks
<1>9. ledger' = Append(ledger, Answer)
  BY DEF ClerkAppends, Answer
<1>10. ASSUME NEW b \in Alerts
       PROVE  \/ /\ active[b].level = clerk.store.active[b].level
                 /\ active[b].auto = clerk.store.active[b].auto
                 /\ active[b].gen = clerk.store.active[b].gen
              \/ active[b] = NoEntry
  <2>1. CASE b = a
    BY <1>4, <1>5, <2>1
  <2>2. CASE b # a
    BY <1>5, <2>2
  <2>3. QED
    BY <2>1, <2>2
<1> HIDE DEF active
<1>11. QED
  BY <1>3, <1>6, <1>8, <1>9, <1>10

LEMMA CommandType ==
  ASSUME TypeInv, Command
  PROVE  TypeInv'
<1>1. ASSUME NEW a \in Alerts, NEW resolve \in BOOLEAN, ClerkLoads(a, resolve)
      PROVE  TypeInv'
  <2>1. budget' \in Budgets
    BY <1>1, SpendType DEF ClerkLoads, TypeInv
  <2>2. QED
    BY <1>1, <2>1, ClerkLoadsFacts, PointersStay
    DEF ClerkLoads, ClerkOnly, TypeInv, TypeOK, journal, delivery
<1>2. CASE ClerkAppends
  <2>1. UNCHANGED <<cursor, notifier>>
    BY <1>2 DEF ClerkAppends, delivery
  <2>2. /\ Answer \in Messages /\ ledger' = Append(ledger, Answer)
        /\ clerk' \in Clerks /\ clerk'.step = "appended"
    BY <1>2, ClerkAppendsFacts
  <2>3. PointsIntoLedger(cursor)' /\ PointsIntoLedger(notifier)'
    BY <2>1, <2>2, AppendKeepsPointers
  <2>4. ledger' \in Seq(Messages)
    BY <2>2 DEF TypeInv, TypeOK
  <2>5. QED
    BY <1>2, <2>1, <2>2, <2>3, <2>4
    DEF ClerkAppends, ClerkOnly, TypeInv, TypeOK, journal, delivery
<1>3. CASE ClerkSaves
  <2>1. saved' \in Stores
    BY <1>3 DEF ClerkSaves, TypeInv, TypeOK, Clerks
  <2>2. QED
    BY <1>3, <2>1, Records, PointersStay DEF ClerkSaves, ClerkOnly, TypeInv, TypeOK, journal, delivery
<1>4. CASE Requeue
  <2>1. PointsIntoLedger(cursor)' /\ PointsIntoLedger(notifier)'
    BY <1>4, RequeueFacts DEF Requeue, ClerkOnly, TypeInv, PointsIntoLedger
  <2>2. QED
    BY <1>4, <2>1, RequeueFacts DEF Requeue, ClerkOnly, TypeInv, TypeOK, journal
<1>5. QED
  BY <1>1, <1>2, <1>3, <1>4 DEF Command

LEMMA TypeStep == TypeInv /\ [Next]_vars => TypeInv'
<1> SUFFICES ASSUME TypeInv, [Next]_vars PROVE TypeInv'
  OBVIOUS
<1>1. CASE UNCHANGED vars
  BY <1>1 DEF vars, journal, monitor, delivery, TypeInv, TypeOK, PointsIntoLedger
<1>2. QED
  BY <1>1, EnvironmentType, PollType, ScanType, SendType, RestartType, CommandType
  DEF Next, Failure

-----------------------------------------------------------------------------
(* The journal side: every store and every poll knows only alerts that are *)
(* in the ledger, and a closing message follows the one it closes.         *)

\* A row of the ledger that generation n of an alert may be answered to.
OpenedAs(a, n) ==
  \E k \in 1..Len(ledger) :
    /\ ledger[k].alert = a /\ Opening(ledger[k])
    /\ n = IF ledger[k].kind = "active" THEN ledger[k].n ELSE 1
Told(i) == \E k \in 1..Len(ledger) : Tells(ledger[k], i)

StoreSound(st) ==
  /\ \A a \in Alerts :
       /\ st.active[a].level > 0 => OpenedAs(a, st.active[a].gen)
       /\ st.active[a].auto => a \in Conditions /\ st.active[a].level > 0
  /\ \A i \in Incidents :
       /\ i \in st.ids => Told(i)
       /\ i <= st.offset => i \in st.ids

LedgerNews ==
  \A k \in 1..Len(ledger) : ~Opening(ledger[k]) =>
    \E j \in 1..Len(ledger) : j < k /\ Opens(ledger[j], ledger[k])

JournalInv ==
  /\ StoreSound(saved) /\ StoreSound(mem) /\ StoreSound(clerk.store)
  /\ \A i \in Incidents : i < row => i \in mem.ids
  /\ clerk.step = "loaded" => clerk.store.active[clerk.alert].level > 0
  /\ LedgerNews

LEMMA EmptySound == StoreSound(EmptyStore)
<1>1. /\ \A a \in Alerts : EmptyStore.active[a].level = 0 /\ EmptyStore.active[a].auto = FALSE
      /\ EmptyStore.ids = {} /\ EmptyStore.offset = 0
  BY Records DEF EmptyStore
<1>2. QED
  BY <1>1, BoundsAssumption DEF StoreSound, Incidents

LEMMA JournalInit == Init => JournalInv
<1> SUFFICES ASSUME Init PROVE JournalInv
  OBVIOUS
<1>1. ledger = <<>> /\ row = 1 /\ clerk.step = "idle" /\ clerk.store = EmptyStore
  BY Records DEF Init
<1>2. QED
  BY <1>1, EmptySound, BoundsAssumption DEF Init, JournalInv, LedgerNews, Incidents

\* What is in the ledger stays there.
Grows ==
  /\ Len(ledger) <= Len(ledger')
  /\ \A k \in 1..Len(ledger) : ledger'[k] = ledger[k]

LEMMA AppendGrows ==
  ASSUME TypeInv, NEW x \in Messages, ledger' = Append(ledger, x)
  PROVE  /\ Grows /\ Len(ledger) \in Nat
         /\ Len(ledger') = Len(ledger) + 1 /\ ledger'[Len(ledger) + 1] = x
BY DEF TypeInv, TypeOK, Grows

LEMMA Remembered ==
  ASSUME TypeInv, Grows, Len(ledger') \in Nat
  PROVE  /\ \A a, n : OpenedAs(a, n) => OpenedAs(a, n)'
         /\ \A i : Told(i) => Told(i)'
<1>1. Len(ledger) \in Nat
  BY DEF TypeInv, TypeOK
<1>2. QED
  BY <1>1 DEF Grows, OpenedAs, Told

\* A store stays sound while the ledger grows, wherever it is copied to.
LEMMA StoreKept ==
  ASSUME TypeInv, JournalInv, Grows, Len(ledger') \in Nat
  PROVE  /\ saved' = saved => StoreSound(saved)'
         /\ mem' = mem => StoreSound(mem)'
         /\ clerk' = clerk => StoreSound(clerk.store)'
         /\ mem' = saved => StoreSound(mem)'
         /\ saved' = clerk.store => StoreSound(saved)'
         /\ clerk'.store = saved => StoreSound(clerk.store)'
         /\ saved' = mem' /\ StoreSound(mem)' => StoreSound(saved)'
         /\ saved' = mem => StoreSound(saved)'
         /\ mem' = EmptyStore => StoreSound(mem)'
         /\ clerk'.store = EmptyStore => StoreSound(clerk.store)'
<1>1. /\ \A a, n : OpenedAs(a, n) => OpenedAs(a, n)'
      /\ \A i : Told(i) => Told(i)'
  BY Remembered
<1>2. StoreSound(saved) /\ StoreSound(mem) /\ StoreSound(clerk.store)
  BY DEF JournalInv
<1>3. saved' = saved => StoreSound(saved)'
  BY <1>1, <1>2 DEF StoreSound
<1>4. mem' = mem => StoreSound(mem)'
  BY <1>1, <1>2 DEF StoreSound
<1>5. clerk' = clerk => StoreSound(clerk.store)'
  BY <1>1, <1>2 DEF StoreSound
<1>6. mem' = saved => StoreSound(mem)'
  BY <1>1, <1>2 DEF StoreSound
<1>7. saved' = clerk.store => StoreSound(saved)'
  BY <1>1, <1>2 DEF StoreSound
<1>8. clerk'.store = saved => StoreSound(clerk.store)'
  BY <1>1, <1>2 DEF StoreSound
<1>9. saved' = mem' /\ StoreSound(mem)' => StoreSound(saved)'
  BY DEF StoreSound
<1>10. saved' = mem => StoreSound(saved)'
  BY <1>1, <1>2 DEF StoreSound
<1>11. /\ mem' = EmptyStore => StoreSound(mem)'
       /\ clerk'.store = EmptyStore => StoreSound(clerk.store)'
  <2>1. StoreSound(EmptyStore)
    BY EmptySound
  <2>2. QED
    BY <1>1, <2>1 DEF StoreSound
<1>12. QED
  BY <1>3, <1>4, <1>5, <1>6, <1>7, <1>8, <1>9, <1>10, <1>11

\* A monitor whose active alerts did not change stays sound when it considers more.
LEMMA MoreConsidered ==
  ASSUME TypeInv, JournalInv, Grows, Len(ledger') \in Nat,
         mem'.active = mem.active, mem.ids \subseteq mem'.ids,
         \A i \in Incidents : i \in mem'.ids => i \in mem.ids \/ Told(i)',
         \A i \in Incidents : i <= mem'.offset => i \in mem'.ids
  PROVE  StoreSound(mem)'
<1>1. /\ \A a, n : OpenedAs(a, n) => OpenedAs(a, n)'
      /\ \A i : Told(i) => Told(i)'
  BY Remembered
<1>2. QED
  BY <1>1 DEF JournalInv, StoreSound

\* ... and one whose entry of a single alert changed, when the new one is sound.
LEMMA OneEntryChanged ==
  ASSUME TypeInv, JournalInv, Grows, Len(ledger') \in Nat,
         NEW a \in Alerts, NEW e \in Entries, mem'.active = [mem.active EXCEPT ![a] = e],
         e.level > 0 => OpenedAs(a, e.gen)', e.auto => a \in Conditions /\ e.level > 0,
         mem.ids \subseteq mem'.ids, mem'.offset = mem.offset,
         \A i \in Incidents : i \in mem'.ids => i \in mem.ids \/ Told(i)'
  PROVE  StoreSound(mem)'
<1>1. /\ \A b, n : OpenedAs(b, n) => OpenedAs(b, n)'
      /\ \A i : Told(i) => Told(i)'
  BY Remembered
<1>2. mem.active \in [Alerts -> Entries]
  BY DEF TypeInv, TypeOK, Stores
<1>3. mem'.active[a] = e /\ \A b \in Alerts : b # a => mem'.active[b] = mem.active[b]
  BY <1>2
<1>4. ASSUME NEW b \in Alerts
      PROVE  /\ mem'.active[b].level > 0 => OpenedAs(b, mem.active[b].gen)'
             /\ mem'.active[b].auto => b \in Conditions /\ mem'.active[b].level > 0
  <2>1. CASE b = a
    <3>1. mem'.active[b] = e
      BY <1>3, <2>1
    <3>2. OpenedAs(a, e.gen)' => OpenedAs(b, mem.active[b].gen)'
      BY <2>1, <3>1 DEF OpenedAs
    <3>3. QED
      BY <2>1, <3>1, <3>2
  <2>2. CASE b # a
    <3>1. mem'.active[b] = mem.active[b]
      BY <1>3, <2>2
    <3>2. PICK n : n = mem.active[b].gen
      OBVIOUS
    <3>3. mem.active[b].level > 0 => OpenedAs(b, n)
      BY <3>2 DEF JournalInv, StoreSound
    <3>4. OpenedAs(b, n)' => OpenedAs(b, mem.active[b].gen)'
      BY <3>1, <3>2 DEF OpenedAs
    <3>5. QED
      BY <1>1, <3>1, <3>3, <3>4 DEF JournalInv, StoreSound
  <2>3. QED
    BY <2>1, <2>2
<1>5. \A i \in Incidents : /\ i \in mem'.ids => Told(i)'
                           /\ i <= mem'.offset => i \in mem'.ids
  BY <1>1 DEF JournalInv, StoreSound
<1>6. QED
  BY <1>4, <1>5 DEF StoreSound

\* A message appended to the ledger keeps the order of news when it opens
\* something, or closes what an earlier row opened.
LEMMA NewsKept ==
  ASSUME TypeInv, JournalInv, NEW x \in Messages, ledger' = Append(ledger, x),
         ~Opening(x) => \E j \in 1..Len(ledger) : Opens(ledger[j], x)
  PROVE  LedgerNews'
<1>1. /\ Grows /\ Len(ledger) \in Nat
      /\ Len(ledger') = Len(ledger) + 1 /\ ledger'[Len(ledger) + 1] = x
  BY AppendGrows
<1>2. ASSUME NEW k \in 1..Len(ledger'), ~Opening(ledger'[k])
      PROVE  \E j \in 1..Len(ledger') : j < k /\ Opens(ledger'[j], ledger'[k])
  <2>1. CASE k = Len(ledger) + 1
    <3>1. PICK j \in 1..Len(ledger) : Opens(ledger[j], x)
      BY <1>1, <1>2, <2>1
    <3>2. QED
      BY <1>1, <2>1, <3>1 DEF Grows
  <2>2. CASE k \in 1..Len(ledger)
    <3>1. ledger'[k] = ledger[k]
      BY <1>1, <2>2 DEF Grows
    <3>2. PICK j \in 1..Len(ledger) : j < k /\ Opens(ledger[j], ledger[k])
      BY <1>2, <2>2, <3>1 DEF JournalInv, LedgerNews
    <3>3. QED
      BY <1>1, <3>1, <3>2 DEF Grows
  <2>3. QED
    BY <1>1, <2>1, <2>2
<1>3. QED
  BY <1>2 DEF LedgerNews

\* A step that writes no ledger row.
LEMMA QuietJournal ==
  ASSUME TypeInv, JournalInv, UNCHANGED ledger
  PROVE  Grows /\ Len(ledger') \in Nat /\ LedgerNews'
<1>1. Len(ledger) \in Nat
  BY DEF TypeInv, TypeOK
<1>2. QED
  BY <1>1 DEF Grows, JournalInv, LedgerNews

LEMMA RecoverJournal ==
  ASSUME TypeInv, JournalInv, NEW c \in Conditions, Recover(c)
  PROVE  JournalInv'
<1> DEFINE x == Message("recovered", c, mem.active[c].gen, 0)
<1>1. Grows /\ Len(ledger') \in Nat
  <2>1. x \in Messages /\ ledger' = Append(ledger, x)
    BY RecoverFacts
  <2>2. QED
    BY <2>1, AppendGrows
<1>2. LedgerNews'
  <2>1. OpenedAs(c, mem.active[c].gen)
    BY RecoverFacts DEF JournalInv, StoreSound
  <2>2. PICK j \in 1..Len(ledger) :
          /\ ledger[j].alert = c /\ Opening(ledger[j])
          /\ mem.active[c].gen = IF ledger[j].kind = "active" THEN ledger[j].n ELSE 1
    BY <2>1 DEF OpenedAs
  <2>3. Opens(ledger[j], x)
    BY <2>2 DEF Opens, Message
  <2>4. QED
    BY <2>3, RecoverFacts, NewsKept
<1>3. StoreSound(mem)'
  <2>1. PICK e \in Entries : e = NoEntry
    BY Records
  <2>2. c \in Alerts /\ e.level = 0 /\ e.auto = FALSE
    BY <2>1, RecoverFacts, Records
  <2>3. /\ mem'.active = [mem.active EXCEPT ![c] = e]
        /\ mem'.ids = mem.ids /\ mem'.offset = mem.offset
    BY <2>1, RecoverFacts
  <2>4. QED
    BY <1>1, <2>2, <2>3, OneEntryChanged
<1>4. UNCHANGED <<saved, row, clerk>> /\ mem'.ids = mem.ids
  BY RecoverFacts DEF Recover, WithinConditions, MonitorOnly
<1>5. QED
  BY <1>1, <1>2, <1>3, <1>4, StoreKept DEF JournalInv

LEMMA AnnounceJournal ==
  ASSUME TypeInv, JournalInv, NEW c \in Conditions, Announce(c)
  PROVE  JournalInv'
<1>1. PICK reading \in Readings :
        /\ Message("active", c, Generation(c), reading) \in Messages
        /\ ledger' = Append(ledger, Message("active", c, Generation(c), reading))
  BY AnnounceFacts
<1> DEFINE x == Message("active", c, Generation(c), reading)
<1>2. /\ Grows /\ Len(ledger') = Len(ledger) + 1 /\ Len(ledger) \in Nat
      /\ ledger'[Len(ledger) + 1] = x
  BY <1>1, AppendGrows
<1>3. x.kind = "active" /\ x.alert = c /\ x.n = Generation(c) /\ Opening(x)
  BY DEF Message, Opening
<1>4. LedgerNews'
  BY <1>1, <1>3, NewsKept
<1>5. PICK e \in Entries : e = Renewed(c)
  BY AnnounceFacts, RenewedType
<1>6. c \in Alerts /\ e.level > 0 /\ e.gen = Generation(c)
  BY <1>5, AnnounceFacts, RenewedType
<1>7. OpenedAs(c, e.gen)'
  <2>1. \E k \in 1..Len(ledger') :
          /\ ledger'[k].alert = c /\ Opening(ledger'[k])
          /\ Generation(c) = IF ledger'[k].kind = "active" THEN ledger'[k].n ELSE 1
    BY <1>2, <1>3
  <2>2. QED
    BY <1>6, <2>1 DEF OpenedAs
<1>8. StoreSound(mem)'
  <2>1. /\ mem'.active = [mem.active EXCEPT ![c] = e]
        /\ mem'.ids = mem.ids /\ mem'.offset = mem.offset
    BY <1>5, AnnounceFacts
  <2>2. Len(ledger') \in Nat
    BY <1>2
  <2>3. QED
    BY <1>2, <1>6, <1>7, <2>1, <2>2, OneEntryChanged
<1>9. UNCHANGED <<saved, row, clerk>> /\ mem'.ids = mem.ids
  BY AnnounceFacts DEF Announce, WithinConditions, MonitorOnly
<1>10. QED
  BY <1>2, <1>4, <1>8, <1>9, StoreKept DEF JournalInv

\* An entry that is taken over keeps its generation, and the rows that opened it.
LEMMA TakeOverJournal ==
  ASSUME TypeInv, JournalInv, NEW c \in Conditions, TakeOver(c)
  PROVE  JournalInv'
<1>1. UNCHANGED <<ledger, saved, row, clerk>> /\ mem'.ids = mem.ids
  BY TakeOverFacts DEF TakeOver, WithinConditions, MonitorOnly
<1>2. Grows /\ Len(ledger') \in Nat /\ LedgerNews'
  BY <1>1, QuietJournal
<1>3. PICK e \in Entries : e = Renewed(c)
  BY TakeOverFacts, RenewedType
<1>4. c \in Alerts /\ e.level > 0 /\ OpenedAs(c, e.gen)
  BY <1>3, TakeOverFacts, RenewedType DEF JournalInv, StoreSound
<1>5. StoreSound(mem)'
  BY <1>2, <1>3, <1>4, TakeOverFacts, OneEntryChanged, Remembered
<1>6. QED
  BY <1>1, <1>2, <1>5, StoreKept DEF JournalInv

LEMMA RecordJournal ==
  ASSUME TypeInv, JournalInv, RecordIncident
  PROVE  JournalInv'
<1>1. PICK i \in Incidents : i = row
  BY RecordFacts
<1> DEFINE x == IncidentMessage(i)
           a == AlertOf[i]
           e == IncidentEntry(i)
<1>2. /\ Grows /\ Len(ledger') = Len(ledger) + 1 /\ Len(ledger) \in Nat
      /\ ledger'[Len(ledger) + 1] = x
  BY <1>1, RecordFacts, AppendGrows
<1>3. x.kind = "incident" /\ x.alert = a /\ Opening(x) /\ Tells(x, i)
  BY DEF IncidentMessage, Message, Opening, Tells
<1>4. LedgerNews'
  BY <1>1, <1>3, RecordFacts, NewsKept
<1>5. UNCHANGED <<saved, row, clerk>>
  BY DEF RecordIncident, WithinEvents, MonitorOnly
<1>6. Told(i)'
  BY <1>2, <1>3 DEF Told
<1>7. a \in Alerts /\ e \in Entries /\ e.auto = FALSE /\ e.gen = 1
  BY <1>1, RecordFacts, BoundsAssumption DEF IncidentEntry, Entries, Incidents
<1>8. OpenedAs(a, e.gen)'
  <2>1. \E k \in 1..Len(ledger') :
          /\ ledger'[k].alert = a /\ Opening(ledger'[k])
          /\ 1 = IF ledger'[k].kind = "active" THEN ledger'[k].n ELSE 1
    BY <1>2, <1>3
  <2>2. QED
    BY <1>7, <2>1 DEF OpenedAs
<1>9. StoreSound(mem)'
  BY <1>1, <1>2, <1>6, <1>7, <1>8, RecordFacts, OneEntryChanged
<1>10. QED
  BY <1>2, <1>4, <1>5, <1>9, RecordFacts, StoreKept DEF JournalInv

LEMMA ClerkAppendsJournal ==
  ASSUME TypeInv, JournalInv, ClerkAppends
  PROVE  JournalInv'
<1>1. Grows /\ Len(ledger') \in Nat
  BY ClerkAppendsFacts, AppendGrows
<1>2. clerk.alert \in Alerts /\ clerk.store.active[clerk.alert].level > 0
  BY DEF ClerkAppends, TypeInv, JournalInv
<1>3. \E j \in 1..Len(ledger) : Opens(ledger[j], Answer)
  <2>1. OpenedAs(clerk.alert, clerk.store.active[clerk.alert].gen)
    BY <1>2 DEF JournalInv, StoreSound
  <2>2. QED
    BY <2>1, ClerkAppendsFacts DEF OpenedAs, Opens
<1>4. LedgerNews'
  BY <1>3, ClerkAppendsFacts, NewsKept
<1>5. StoreSound(clerk.store)'
  <2>1. /\ \A a, n : OpenedAs(a, n) => OpenedAs(a, n)'
        /\ \A i : Told(i) => Told(i)'
    BY <1>1, Remembered
  <2>2. ASSUME NEW a \in Alerts
        PROVE  /\ clerk'.store.active[a].level > 0 => OpenedAs(a, clerk.store.active[a].gen)'
               /\ clerk'.store.active[a].auto =>
                    a \in Conditions /\ clerk'.store.active[a].level > 0
    <3>1. CASE clerk'.store.active[a] = NoEntry
      BY <3>1, Records
    <3>2. CASE /\ clerk'.store.active[a].level = clerk.store.active[a].level
               /\ clerk'.store.active[a].auto = clerk.store.active[a].auto
               /\ clerk'.store.active[a].gen = clerk.store.active[a].gen
      <4>1. PICK n : n = clerk.store.active[a].gen
        OBVIOUS
      <4>2. clerk.store.active[a].level > 0 => OpenedAs(a, n)
        BY <4>1 DEF JournalInv, StoreSound
      <4>3. OpenedAs(a, n)' => OpenedAs(a, clerk.store.active[a].gen)'
        BY <3>2, <4>1 DEF OpenedAs
      <4>4. QED
        BY <2>1, <3>2, <4>2, <4>3 DEF JournalInv, StoreSound
    <3>3. QED
      BY <3>1, <3>2, ClerkAppendsFacts
  <2>3. \A i \in Incidents : /\ i \in clerk'.store.ids => Told(i)'
                             /\ i <= clerk'.store.offset => i \in clerk'.store.ids
    BY <2>1, ClerkAppendsFacts DEF JournalInv, StoreSound
  <2>4. QED
    BY <2>2, <2>3 DEF StoreSound
<1>6. UNCHANGED <<saved, mem, row>>
  BY DEF ClerkAppends, ClerkOnly
<1>7. QED
  BY <1>1, <1>4, <1>5, <1>6, ClerkAppendsFacts, StoreKept DEF JournalInv

\* An incident whose condition is active has been told of.
LEMMA CoveredTold ==
  ASSUME TypeInv, JournalInv, NEW i \in Incidents, Covered(i)
  PROVE  Told(i)
<1>1. AlertOf[i] \in Alerts
  BY MessageType
<1>2. AlertOf[i] \in Conditions /\ OpenedAs(AlertOf[i], mem.active[AlertOf[i]].gen)
  BY <1>1 DEF Covered, JournalInv, StoreSound
<1>3. QED
  BY <1>2 DEF OpenedAs, Told, Tells

LEMMA AbsorbJournal ==
  ASSUME TypeInv, JournalInv, AbsorbIncident
  PROVE  JournalInv'
<1>1. ledger' = ledger /\ clerk' = clerk
  BY DEF AbsorbIncident, WithinEvents, MonitorOnly
<1>2. Grows /\ Len(ledger') \in Nat /\ LedgerNews'
  BY <1>1, QuietJournal
<1>3. \A i : Told(i)' <=> Told(i)
  BY <1>1 DEF Told
<1>4. StoreSound(mem)'
  <2>1. Told(row)
    BY AbsorbFacts, CoveredTold
  <2>2. \A i \in Incidents : i \in mem'.ids => i \in mem.ids \/ Told(i)'
    BY <1>3, <2>1, AbsorbFacts
  <2>3. \A i \in Incidents : i <= mem'.offset => i \in mem'.ids
    BY AbsorbFacts DEF JournalInv, StoreSound
  <2>4. QED
    BY <1>2, <2>2, <2>3, AbsorbFacts, MoreConsidered
<1>5. \A i \in Incidents : i < row' => i \in mem'.ids
  <2>1. \A i \in Incidents : i < row + 1 => i < row \/ i = row
    BY AbsorbFacts, BoundsAssumption DEF Incidents
  <2>2. QED
    BY <2>1, AbsorbFacts DEF JournalInv
<1>6. QED
  BY <1>1, <1>2, <1>4, <1>5, AbsorbFacts, StoreKept DEF JournalInv

\* The end of a reading consumes what was considered.
LEMMA ConsumedJournal ==
  ASSUME TypeInv, JournalInv, mem' = Consumed, row > upto, ledger' = ledger
  PROVE  StoreSound(mem)'
<1>1. Incidents \subseteq Int /\ row \in Int /\ upto \in Int
  BY BoundsAssumption DEF TypeInv, TypeOK, Incidents
<1>2. /\ mem'.active = mem.active /\ mem'.ids = mem.ids
      /\ mem'.offset = upto \/ mem'.offset = mem.offset
  BY ConsumedFacts
<1>3. \A i \in Incidents : i <= upto => i \in mem.ids
  BY <1>1 DEF JournalInv
<1>4. \A i \in Incidents : i <= mem'.offset => i \in mem'.ids
  BY <1>2, <1>3 DEF JournalInv, StoreSound
<1>5. QED
  BY <1>2, <1>4, QuietJournal, MoreConsidered

LEMMA PollJournal ==
  ASSUME TypeInv, JournalInv, Poll
  PROVE  JournalInv'
<1>1. CASE Evaluate
  <2>1. UNCHANGED <<ledger, saved, mem, row, clerk>>
    BY <1>1 DEF Evaluate, MonitorOnly
  <2>2. QED
    BY <2>1, QuietJournal, StoreKept DEF JournalInv
<1>2. CASE SaveConditions
  <2>1. UNCHANGED <<ledger, mem, row, clerk>> /\ saved' = mem
    BY <1>2 DEF SaveConditions, WithinEvents, MonitorOnly
  <2>2. QED
    BY <2>1, QuietJournal, StoreKept DEF JournalInv
<1>3. CASE ReadJournal
  <2>1. UNCHANGED <<ledger, saved, mem, clerk>> /\ row' = mem.offset + 1
    BY <1>3, ReadFacts
  <2>2. mem.offset \in Int /\ Incidents \subseteq Int
    BY BoundsAssumption DEF TypeInv, TypeOK, Stores, Incidents
  <2>3. \A i \in Incidents : i < row' => i <= mem.offset
    BY <2>1, <2>2
  <2>4. \A i \in Incidents : i <= mem.offset => i \in mem.ids
    BY DEF JournalInv, StoreSound
  <2>5. QED
    BY <2>1, <2>3, <2>4, QuietJournal, StoreKept DEF JournalInv
<1>4. CASE SkipIncident
  <2>1. UNCHANGED <<ledger, saved, mem, clerk>> /\ row' = row + 1 /\ row \in mem.ids
    BY <1>4 DEF SkipIncident, WithinEvents, MonitorOnly
  <2>2. Incidents \subseteq Int /\ row \in Int
    BY BoundsAssumption DEF TypeInv, TypeOK, Incidents
  <2>3. \A i \in Incidents : i < row' => i \in mem'.ids
    BY <2>1, <2>2 DEF JournalInv
  <2>4. QED
    BY <2>1, <2>3, QuietJournal, StoreKept DEF JournalInv
<1>5. CASE SaveIncident
  <2>1. UNCHANGED <<ledger, mem, clerk>> /\ saved' = mem /\ row' = row + 1
    BY <1>5 DEF SaveIncident, WithinEvents, MonitorOnly
  <2>2. Incidents \subseteq Int /\ row \in Int
    BY BoundsAssumption DEF TypeInv, TypeOK, Incidents
  <2>3. row \in mem.ids
    BY <1>5 DEF SaveIncident, TypeInv
  <2>4. \A i \in Incidents : i < row' => i \in mem'.ids
    BY <2>1, <2>2, <2>3 DEF JournalInv
  <2>5. QED
    BY <2>1, <2>4, QuietJournal, StoreKept DEF JournalInv
<1>6. CASE FinishPoll
  <2>1. ledger' = ledger /\ clerk' = clerk /\ row' = 1 /\ mem' = Consumed /\ saved' = mem'
    BY <1>6 DEF FinishPoll, MonitorOnly, NoPoll
  <2>2. StoreSound(mem)'
    BY <1>6, <2>1, ConsumedJournal DEF FinishPoll
  <2>3. \A i \in Incidents : ~(i < 1)
    BY BoundsAssumption DEF Incidents
  <2>4. QED
    BY <2>1, <2>2, <2>3, QuietJournal, StoreKept DEF JournalInv
<1>7. CASE ReadRaises
  <2>1. UNCHANGED <<ledger, saved, mem, clerk>> /\ row' = 1
    BY <1>7 DEF ReadRaises, MonitorOnly, NoPoll
  <2>2. \A i \in Incidents : ~(i < 1)
    BY BoundsAssumption DEF Incidents
  <2>3. QED
    BY <2>1, <2>2, QuietJournal, StoreKept DEF JournalInv
<1>8. QED
  BY <1>1, <1>2, <1>3, <1>4, <1>5, <1>6, <1>7, AbsorbJournal, RecordJournal, RecoverJournal,
     AnnounceJournal, TakeOverJournal DEF Poll

LEMMA SaveFailsJournal ==
  ASSUME TypeInv, JournalInv, SaveFails
  PROVE  JournalInv'
<1>1. UNCHANGED <<ledger, saved, clerk>> /\ row' = 1
  BY DEF SaveFails, MonitorOnly, NoPoll
<1>2. Grows /\ Len(ledger') \in Nat /\ LedgerNews'
  BY <1>1, QuietJournal
<1>3. StoreSound(mem)'
  <2>1. CASE row > upto /\ mem' = Consumed
    BY <1>1, <2>1, ConsumedJournal
  <2>2. CASE /\ row <= upto /\ Covered(row)
             /\ mem' = [mem EXCEPT !.ids = mem.ids \union {row}]
    <3>1. /\ row \in Incidents /\ mem'.active = mem.active
          /\ mem'.ids = mem.ids \union {row} /\ mem'.offset = mem.offset
      BY <2>2, BoundsAssumption DEF TypeInv, TypeOK, Stores, Incidents
    <3>2. Told(row)
      BY <2>2, <3>1, CoveredTold
    <3>3. \A i \in Incidents : i \in mem'.ids => i \in mem.ids \/ Told(i)'
      BY <1>1, <3>1, <3>2 DEF Told
    <3>4. \A i \in Incidents : i <= mem'.offset => i \in mem'.ids
      BY <3>1 DEF JournalInv, StoreSound
    <3>5. QED
      BY <1>2, <3>1, <3>3, <3>4, MoreConsidered
  <2>3. QED
    BY <2>1, <2>2 DEF SaveFails
<1>4. \A i \in Incidents : ~(i < 1)
  BY BoundsAssumption DEF Incidents
<1>5. QED
  BY <1>1, <1>2, <1>3, <1>4, StoreKept DEF JournalInv

\* The other steps leave the journal alone, or start and end the monitor.
LEMMA RestJournal ==
  ASSUME TypeInv, JournalInv,
         UNCHANGED <<ledger, saved, mem, row, clerk>> \/ PollFails \/ Crash \/ Restart
           \/ ClerkSaves \/ \E a \in Alerts, resolve \in BOOLEAN : ClerkLoads(a, resolve)
  PROVE  JournalInv'
<1>1. \A i \in Incidents : ~(i < 1)
  BY BoundsAssumption DEF Incidents
<1>2. CASE UNCHANGED <<ledger, saved, mem, row, clerk>>
  BY <1>2, QuietJournal, StoreKept DEF JournalInv
<1>3. CASE PollFails
  <2>1. UNCHANGED <<ledger, saved, mem, clerk>> /\ row' = 1
    BY <1>3 DEF PollFails, MonitorOnly, NoPoll
  <2>2. QED
    BY <1>1, <2>1, QuietJournal, StoreKept DEF JournalInv
<1>4. CASE Crash
  <2>1. UNCHANGED <<ledger, saved, clerk>> /\ row' = 1 /\ mem' = EmptyStore
    BY <1>4 DEF Crash, NoPoll
  <2>2. QED
    BY <1>1, <2>1, QuietJournal, StoreKept DEF JournalInv
<1>5. CASE Restart
  <2>1. UNCHANGED <<ledger, saved, row, clerk>> /\ mem' = saved /\ at = "down"
    BY <1>5 DEF Restart
  <2>2. row = 1
    BY <2>1 DEF TypeInv
  <2>3. QED
    BY <1>1, <2>1, <2>2, QuietJournal, StoreKept DEF JournalInv
<1>6. CASE ClerkSaves
  <2>1. UNCHANGED <<ledger, mem, row>> /\ saved' = clerk.store
    BY <1>6 DEF ClerkSaves, ClerkOnly
  <2>2. clerk'.store = EmptyStore /\ clerk'.step = "idle"
    BY <1>6, Records DEF ClerkSaves
  <2>3. QED
    BY <2>1, <2>2, QuietJournal, StoreKept DEF JournalInv
<1>7. ASSUME NEW a \in Alerts, NEW resolve \in BOOLEAN, ClerkLoads(a, resolve)
      PROVE  JournalInv'
  <2>1. UNCHANGED <<ledger, saved, mem, row>>
    BY <1>7 DEF ClerkLoads, ClerkOnly
  <2>2. clerk'.store = saved /\ clerk'.alert = a /\ saved.active[a].level > 0
    BY <1>7, ClerkLoadsFacts
  <2>3. QED
    BY <2>1, <2>2, QuietJournal, StoreKept DEF JournalInv
<1>8. QED
  BY <1>2, <1>3, <1>4, <1>5, <1>6, <1>7

LEMMA JournalStep == TypeInv /\ JournalInv /\ [Next]_vars => JournalInv'
<1> SUFFICES ASSUME TypeInv, JournalInv, [Next]_vars PROVE JournalInv'
  OBVIOUS
<1>1. \/ Poll \/ SaveFails \/ ClerkAppends
      \/ UNCHANGED <<ledger, saved, mem, row, clerk>> \/ PollFails \/ Crash \/ Restart
           \/ ClerkSaves \/ \E a \in Alerts, resolve \in BOOLEAN : ClerkLoads(a, resolve)
  BY DEF Next, vars, monitor, IncidentBegins, IncidentOccurs, IncidentDropped, EventsOnly,
         ConditionChanges, Scan, BeginScan, Suppress,
         Queue, NothingToSend, Defer, NoteDelivery, AdvanceCursor, Send, Failure,
         SendUnanswered, SendFails, SendRejected, Command, Requeue, NotifierOnly, ClerkOnly
<1>2. QED
  BY <1>1, PollJournal, SaveFailsJournal, ClerkAppendsJournal, RestJournal

-----------------------------------------------------------------------------
(* The delivery side: what a cursor has passed, what the journal calls     *)
(* delivered and what was just sent is in the inbox.                       *)

Passed(k) == k <= cursor.offset \/ k <= notifier.offset

DeliveryInv ==
  /\ \A k \in 1..Len(ledger) : Passed(k) => Received(ledger[k])
  /\ at \in {"sent", "noted"} => Received(PendingMessage)
  /\ \A x \in delivered : Received(x)
  /\ NewsStartsWithAlert

LEMMA DeliveryInit == Init => DeliveryInv
BY DEF Init, DeliveryInv, NewsStartsWithAlert

\* A step of the journal side, or of the notifier without a message sent.
LEMMA QuietDelivery ==
  ASSUME TypeInv, DeliveryInv, Grows, UNCHANGED <<inbox, delivered>>,
         \A k \in Nat : Passed(k)' => Passed(k), Len(ledger') \in Nat,
         at' \in {"sent", "noted"} => at \in {"sent", "noted"} /\ notifier' = notifier
  PROVE  DeliveryInv'
<1>1. Len(ledger) \in Nat /\ cursor.offset \in Nat /\ notifier.offset \in Nat
  BY DEF TypeInv, TypeOK, Cursors
<1>2. \A x : Received(x) => Received(x)'
  BY DEF Received
<1>3. \A k \in 1..Len(ledger') : Passed(k)' => Received(ledger[k])'
  <2>1. ASSUME NEW k \in 1..Len(ledger'), Passed(k)'
        PROVE  k \in 1..Len(ledger) /\ Received(ledger[k])
    <3>1. Passed(k)
      BY <2>1
    <3>2. k \in 1..Len(ledger)
      BY <1>1, <2>1, <3>1 DEF Passed, TypeInv, PointsIntoLedger
    <3>3. QED
      BY <3>1, <3>2 DEF DeliveryInv
  <2>2. \A k \in 1..Len(ledger') : Passed(k)' => ledger'[k] = ledger[k]
    BY <2>1 DEF Grows
  <2>3. QED
    BY <1>2, <2>1, <2>2 DEF Received
<1>4. at' \in {"sent", "noted"} => Received(PendingMessage)'
  <2>1. SUFFICES ASSUME at' \in {"sent", "noted"}
                 PROVE  Received(PendingMessage)'
    OBVIOUS
  <2>2. notifier' = notifier /\ notifier.pending \in 1..Len(ledger)
    BY <2>1, PendingType
  <2>3. PendingMessage' = PendingMessage
    BY <2>2 DEF PendingMessage, Grows
  <2>4. QED
    BY <1>2, <2>1, <2>3 DEF DeliveryInv
<1>5. NewsStartsWithAlert'
  BY DEF DeliveryInv, NewsStartsWithAlert
<1>6. QED
  BY <1>2, <1>3, <1>4, <1>5 DEF DeliveryInv

\* The message that is sent next comes after everything it answers.
LEMMA SendDelivery ==
  ASSUME TypeInv, JournalInv, DeliveryInv, at = "send",
         inbox' = Append(inbox, PendingMessage), at' \in {"sent", "poll"},
         UNCHANGED <<ledger, cursor, notifier, delivered>>
  PROVE  DeliveryInv'
<1>1. /\ notifier.pending \in 1..Len(ledger) /\ notifier.pending = notifier.offset + 1
      /\ PendingMessage \in Messages
  BY PendingType
<1>2. /\ Len(inbox) \in Nat /\ Len(inbox') = Len(inbox) + 1
      /\ inbox'[Len(inbox) + 1] = PendingMessage
      /\ \A m \in 1..Len(inbox) : inbox'[m] = inbox[m]
  BY <1>1 DEF TypeInv, TypeOK
<1>3. \A x : Received(x) => Received(x)'
  BY <1>2 DEF Received
<1>4. Received(PendingMessage)'
  BY <1>2 DEF Received, PendingMessage
<1>5. \A k \in 1..Len(ledger') : Passed(k)' => Received(ledger[k])'
  BY <1>3 DEF DeliveryInv, Passed
<1>6. ASSUME NEW m \in 1..Len(inbox'), ~Opening(inbox'[m])
      PROVE  \E j \in 1..m : Opens(inbox'[j], inbox'[m])
  <2>1. CASE m \in 1..Len(inbox)
    <3>1. PICK j \in 1..m : Opens(inbox[j], inbox[m])
      BY <1>2, <1>6, <2>1 DEF DeliveryInv, NewsStartsWithAlert
    <3>2. QED
      BY <1>2, <2>1, <3>1
  <2>2. CASE m = Len(inbox) + 1
    <3>1. PICK j \in 1..Len(ledger) : j < notifier.pending /\ Opens(ledger[j], PendingMessage)
      BY <1>1, <1>2, <1>6, <2>2 DEF JournalInv, LedgerNews, PendingMessage
    <3>2. notifier.offset \in Nat
      BY DEF TypeInv, TypeOK, Cursors
    <3>3. Received(ledger[j])
      BY <1>1, <3>1, <3>2 DEF DeliveryInv, Passed
    <3>4. PICK n \in 1..Len(inbox) : inbox[n] = ledger[j]
      BY <3>3 DEF Received
    <3>5. QED
      BY <1>2, <2>2, <3>1, <3>4
  <2>3. QED
    BY <1>2, <2>1, <2>2
<1>7. NewsStartsWithAlert'
  BY <1>6 DEF NewsStartsWithAlert
<1>8. QED
  BY <1>3, <1>4, <1>5, <1>7 DEF DeliveryInv

LEMMA ScanDelivery ==
  ASSUME TypeInv, DeliveryInv, Scan
  PROVE  DeliveryInv'
<1>1. /\ NotifierOnly /\ ledger' = ledger /\ inbox' = inbox /\ Grows
      /\ Len(ledger) \in Nat /\ cursor.offset \in Nat /\ notifier.offset \in Nat
      /\ notifier.pending \in Nat
  <2>1. NotifierOnly /\ inbox' = inbox
    BY DEF Scan, BeginScan, Suppress, Queue, NothingToSend, Defer, NoteDelivery,
           AdvanceCursor, delivery
  <2>2. ledger' = ledger
    BY <2>1 DEF NotifierOnly
  <2>3. QED
    BY <2>1, <2>2 DEF TypeInv, TypeOK, Cursors, Grows
<1>2. \A k : Passed(k) => k <= Len(ledger) \/ k \notin Int
  BY <1>1 DEF Passed, TypeInv, PointsIntoLedger
<1>3. cursor.offset <= Len(ledger) /\ notifier.offset <= Len(ledger)
  BY DEF TypeInv, PointsIntoLedger
<1>4. \A x : Received(x) => Received(x)'
  BY <1>1 DEF Received
<1>5. NewsStartsWithAlert'
  BY <1>1 DEF DeliveryInv, NewsStartsWithAlert
<1>6. CASE BeginScan \/ Defer
  <2>1. UNCHANGED <<cursor, notifier, delivered>> /\ at' \in {"poll", "scan", "send"}
    BY <1>6 DEF BeginScan, Defer, delivery
  <2>2. QED
    BY <1>1, <1>4, <1>5, <2>1 DEF DeliveryInv, Passed
<1>7. CASE Suppress
  <2>1. UNCHANGED <<cursor, delivered>> /\ at' = "scan"
        /\ notifier'.offset = notifier.offset + 1 /\ Following \in delivered
    BY <1>7, SuppressFacts DEF Suppress, AlreadyDelivered, MoreToRead
  <2>2. \A k \in 1..Len(ledger) : Passed(k)' => Passed(k) \/ k = notifier.offset + 1
    BY <1>1, <2>1 DEF Passed
  <2>3. QED
    BY <1>1, <1>4, <1>5, <2>1, <2>2 DEF DeliveryInv, Following
<1>8. CASE Queue
  <2>1. /\ delivered' = delivered /\ at' = "send"
        /\ cursor'.offset = notifier.offset /\ notifier'.offset = notifier.offset
    BY <1>8, QueueFacts DEF Queue
  <2>2. QED
    BY <1>1, <1>4, <1>5, <2>1 DEF DeliveryInv, Passed
<1>9. CASE NothingToSend
  <2>1. /\ delivered' = delivered /\ at' = "poll"
        /\ cursor' = notifier /\ notifier' = notifier
    BY <1>9 DEF NothingToSend
  <2>2. QED
    BY <1>1, <1>4, <1>5, <2>1 DEF DeliveryInv, Passed
<1>10. CASE NoteDelivery
  <2>1. /\ UNCHANGED <<cursor, notifier>> /\ at' = "noted" /\ at = "sent"
        /\ delivered' = delivered \union {PendingMessage}
    BY <1>10 DEF NoteDelivery
  <2>2. PendingMessage' = PendingMessage
    BY <1>1, <2>1 DEF PendingMessage
  <2>3. QED
    BY <1>1, <1>4, <1>5, <2>1, <2>2 DEF DeliveryInv, Passed
<1>11. CASE AdvanceCursor
  <2>1. /\ delivered' = delivered /\ at' = "poll" /\ at = "noted"
        /\ cursor'.offset = notifier.pending /\ notifier'.offset = notifier.pending
    BY <1>11, AdvanceFacts DEF AdvanceCursor
  <2>2. notifier.pending = notifier.offset + 1 /\ Received(PendingMessage)
    BY <2>1, PendingType DEF DeliveryInv
  <2>3. \A k \in 1..Len(ledger) : Passed(k)' => Passed(k) \/ k = notifier.pending
    BY <1>1, <2>1, <2>2 DEF Passed
  <2>4. QED
    BY <1>1, <1>4, <1>5, <2>1, <2>2, <2>3 DEF DeliveryInv, PendingMessage
<1>12. QED
  BY <1>6, <1>7, <1>8, <1>9, <1>10, <1>11 DEF Scan

\* Every step leaves the rows of the ledger as they are.
LEMMA LedgerGrows ==
  ASSUME TypeInv, Next
  PROVE  Grows /\ Len(ledger) \in Nat /\ Len(ledger') \in Nat
<1>1. Len(ledger) \in Nat
  BY DEF TypeInv, TypeOK
<1>2. CASE ledger' = ledger
  BY <1>1, <1>2 DEF Grows
<1>3. CASE RecordIncident
  <2>1. IncidentMessage(row) \in Messages /\ ledger' = Append(ledger, IncidentMessage(row))
    BY <1>3, RecordFacts
  <2>2. QED
    BY <1>1, <2>1, AppendGrows
<1>4. ASSUME NEW c \in Conditions, Recover(c)
      PROVE  Grows /\ Len(ledger') \in Nat
  <2>1. /\ Message("recovered", c, mem.active[c].gen, 0) \in Messages
        /\ ledger' = Append(ledger, Message("recovered", c, mem.active[c].gen, 0))
    BY <1>4, RecoverFacts
  <2>2. QED
    BY <1>1, <2>1, AppendGrows
<1>5. ASSUME NEW c \in Conditions, Announce(c)
      PROVE  Grows /\ Len(ledger') \in Nat
  <2>1. PICK x \in Messages : ledger' = Append(ledger, x)
    BY <1>5, AnnounceFacts
  <2>2. QED
    BY <1>1, <2>1, AppendGrows
<1>6. CASE ClerkAppends
  BY <1>1, <1>6, ClerkAppendsFacts, AppendGrows
<1>7. \/ ledger' = ledger \/ RecordIncident \/ ClerkAppends
      \/ \E c \in Conditions : Recover(c) \/ Announce(c)
  BY DEF Next, IncidentBegins, IncidentOccurs, IncidentDropped, EventsOnly, ConditionChanges,
         Poll, Evaluate, SaveConditions, ReadJournal, ReadRaises, TakeOver, SkipIncident,
         AbsorbIncident, SaveIncident, FinishPoll, Scan, BeginScan, Suppress, Queue,
         NothingToSend, Defer, NoteDelivery, AdvanceCursor, Send, Restart, Failure, PollFails,
         SaveFails, SendUnanswered, SendFails, SendRejected, Crash, Command, ClerkLoads, ClerkSaves,
         Requeue, NotifierOnly
<1>8. QED
  BY <1>1, <1>2, <1>3, <1>4, <1>5, <1>6, <1>7

\* The steps that neither send nor settle a message.
Aside ==
  \/ IncidentBegins \/ IncidentOccurs \/ IncidentDropped
  \/ \E c \in Conditions : ConditionChanges(c)
  \/ Poll \/ PollFails \/ SaveFails \/ SendFails \/ SendRejected \/ Command

LEMMA AsideFacts ==
  ASSUME TypeInv, Aside
  PROVE  /\ UNCHANGED <<inbox, delivered, doubts>>
         /\ cursor'.offset = cursor.offset \/ cursor'.offset = notifier.offset
         /\ notifier'.offset = notifier.offset
         /\ cursor'.pending = cursor.pending \/ cursor'.pending = notifier.pending
         /\ notifier'.pending = notifier.pending
         /\ at' = at \/ (at' \notin {"sent", "noted", "down"} /\ at \notin {"sent", "noted", "down"})
         /\ at' \in {"sent", "noted"} => notifier' = notifier
         /\ cursor'.pending = cursor.pending \/ at # "down"
<1>1. CASE Poll \/ PollFails \/ SaveFails
  BY <1>1 DEF Poll, PollFails, SaveFails, MonitorOnly, WithinConditions, WithinEvents, delivery,
              Evaluate, SaveConditions, ReadJournal, ReadRaises, TakeOver, Holding, SkipIncident,
              AbsorbIncident, RecordIncident, SaveIncident, FinishPoll, Recover, Announce
<1>2. CASE SendFails
  BY <1>2 DEF SendFails, delivery
<1>3. CASE SendRejected
  BY <1>3, RejectFacts DEF SendRejected
<1>4. CASE Requeue
  BY <1>4, RequeueFacts DEF Requeue, ClerkOnly
<1>5. CASE \/ IncidentBegins \/ IncidentOccurs \/ IncidentDropped
           \/ \E c \in Conditions : ConditionChanges(c)
  BY <1>5 DEF IncidentBegins, IncidentOccurs, IncidentDropped, EventsOnly, ConditionChanges,
              delivery
<1>6. CASE ClerkAppends \/ ClerkSaves \/ \E a \in Alerts, resolve \in BOOLEAN : ClerkLoads(a, resolve)
  BY <1>6 DEF ClerkLoads, ClerkAppends, ClerkSaves, ClerkOnly, delivery
<1>7. QED
  BY <1>1, <1>2, <1>3, <1>4, <1>5, <1>6 DEF Aside, Command

LEMMA RestDelivery ==
  ASSUME TypeInv, DeliveryInv, Next, Aside \/ Crash \/ Restart
  PROVE  DeliveryInv'
<1>1. Grows /\ Len(ledger') \in Nat
  BY LedgerGrows
<1>2. CASE Aside
  <2>1. \A k \in Nat : Passed(k)' => Passed(k)
    BY <1>2, AsideFacts DEF Passed
  <2>2. QED
    BY <1>1, <1>2, <2>1, AsideFacts, QuietDelivery
<1>3. CASE Crash
  <2>1. EmptyCursor.offset = 0 /\ cursor.offset \in Nat
    BY DEF EmptyCursor, TypeInv, TypeOK, Cursors
  <2>2. UNCHANGED <<inbox, delivered, cursor>> /\ notifier' = EmptyCursor /\ at' = "down"
    BY <1>3 DEF Crash
  <2>3. \A k \in Nat : Passed(k)' => Passed(k)
    BY <2>1, <2>2 DEF Passed
  <2>4. QED
    BY <1>1, <2>2, <2>3, QuietDelivery
<1>4. CASE Restart
  <2>1. UNCHANGED <<inbox, delivered, cursor>> /\ notifier' = cursor /\ at' = "poll"
    BY <1>4 DEF Restart
  <2>2. \A k \in Nat : Passed(k)' => Passed(k)
    BY <2>1 DEF Passed
  <2>3. QED
    BY <1>1, <2>1, <2>2, QuietDelivery
<1>5. QED
  BY <1>2, <1>3, <1>4

LEMMA DeliveryStep == TypeInv /\ JournalInv /\ DeliveryInv /\ [Next]_vars => DeliveryInv'
<1> SUFFICES ASSUME TypeInv, JournalInv, DeliveryInv, [Next]_vars PROVE DeliveryInv'
  OBVIOUS
<1>1. CASE UNCHANGED vars
  BY <1>1 DEF vars, delivery, DeliveryInv, Passed, Received, PendingMessage, NewsStartsWithAlert
<1>2. CASE Send \/ SendUnanswered
  <2>1. /\ at = "send" /\ inbox' = Append(inbox, PendingMessage) /\ at' \in {"sent", "poll"}
        /\ UNCHANGED <<ledger, cursor, notifier, delivered>>
    BY <1>2 DEF Send, SendUnanswered, NotifierOnly
  <2>2. QED
    BY <2>1, SendDelivery
<1>3. QED
  BY <1>1, <1>2, ScanDelivery, RestDelivery DEF Next, Failure, Aside

-----------------------------------------------------------------------------
(* Repetitions: a message in the inbox that is not known as delivered is   *)
(* the one still pending, and it is covered by a doubt of its own.         *)

InDoubt ==
  /\ cursor.pending # 0 /\ ledger[cursor.pending] \in Distinct
  /\ at \notin {"sent", "noted"}

RepeatInv ==
  /\ at # "down" => cursor.pending = notifier.pending
  /\ at = "noted" => PendingMessage \in delivered
  /\ \A x \in Distinct \ delivered : cursor.pending # 0 /\ x = ledger[cursor.pending]
  /\ RepeatsAreExplained
  /\ InDoubt => Len(inbox) < Cardinality(Distinct) + doubts

LEMMA DistinctFinite ==
  ASSUME TypeInv
  PROVE  IsFiniteSet(Distinct) /\ Cardinality(Distinct) \in Nat
<1>1. Len(inbox) \in Nat /\ DOMAIN inbox = 1..Len(inbox) /\ inbox \in Seq(Messages)
  BY DEF TypeInv, TypeOK
<1>2. IsFiniteSet(1..Len(inbox))
  BY <1>1, FS_Interval
<1>3. inbox \in Surjection(1..Len(inbox), Distinct)
  BY <1>1 DEF Distinct, Surjection
<1>4. QED
  BY <1>2, <1>3, FS_Surjection, FS_CardinalityType

LEMMA RepeatInit == Init => RepeatInv
<1> SUFFICES ASSUME Init PROVE RepeatInv
  OBVIOUS
<1>1. Distinct = {} /\ Len(inbox) = 0 /\ doubts = 0 /\ cursor = notifier /\ at = "poll"
  BY DEF Init, Distinct
<1>2. QED
  BY <1>1, FS_EmptySet DEF RepeatInv, RepeatsAreExplained, InDoubt

\* A step that touches neither the inbox nor what is pending.
LEMMA QuietRepeats ==
  ASSUME TypeInv, RepeatInv, Grows, UNCHANGED <<inbox, delivered, doubts>>,
         cursor'.pending = cursor.pending, notifier'.pending = notifier.pending,
         at' = at \/ (at' \notin {"sent", "noted", "down"} /\ at \notin {"sent", "noted", "down"})
  PROVE  RepeatInv'
<1>1. Distinct' = Distinct
  BY DEF Distinct
<1>2. cursor.pending # 0 => ledger'[cursor.pending] = ledger[cursor.pending]
  BY DEF TypeInv, TypeOK, PointsIntoLedger, Cursors, Grows
<1>3. at = "noted" => PendingMessage' = PendingMessage
  BY PendingType DEF PendingMessage, Grows
<1>4. QED
  BY <1>1, <1>2, <1>3 DEF RepeatInv, InDoubt, RepeatsAreExplained

\* Sending adds one message; whether it repeats one decides about the doubt.
LEMMA SendRepeats ==
  ASSUME TypeInv, RepeatInv, Send \/ SendUnanswered
  PROVE  RepeatInv'
<1>1. /\ at = "send" /\ inbox' = Append(inbox, PendingMessage)
      /\ UNCHANGED <<ledger, cursor, notifier, delivered>>
      /\ \/ at' = "sent" /\ doubts' = doubts
         \/ at' = "poll" /\ doubts' = doubts + 1
  BY DEF Send, SendUnanswered, NotifierOnly
<1>2. /\ notifier.pending # 0 /\ PendingMessage \in Messages
      /\ cursor.pending = notifier.pending /\ PendingMessage = ledger[cursor.pending]
  BY <1>1, PendingType DEF RepeatInv, PendingMessage
<1>3. /\ Len(inbox) \in Nat /\ Len(inbox') = Len(inbox) + 1 /\ doubts \in Nat
      /\ inbox'[Len(inbox) + 1] = PendingMessage
      /\ \A m \in 1..Len(inbox) : inbox'[m] = inbox[m]
  BY <1>1, <1>2 DEF TypeInv, TypeOK
<1>4. Distinct' = Distinct \union {PendingMessage}
  BY <1>3 DEF Distinct
<1>5. /\ IsFiniteSet(Distinct) /\ Cardinality(Distinct) \in Nat
      /\ Cardinality(Distinct') = IF PendingMessage \in Distinct THEN Cardinality(Distinct)
                                  ELSE Cardinality(Distinct) + 1
  BY <1>4, DistinctFinite, FS_AddElement
<1>6. Len(inbox') <= Cardinality(Distinct') + doubts
  <2>1. CASE PendingMessage \in Distinct
    BY <1>1, <1>2, <1>3, <1>5, <2>1 DEF RepeatInv, InDoubt
  <2>2. CASE PendingMessage \notin Distinct
    BY <1>3, <1>5, <2>2 DEF RepeatInv, RepeatsAreExplained
  <2>3. QED
    BY <2>1, <2>2
<1>7. RepeatsAreExplained' /\ (InDoubt' => Len(inbox') < Cardinality(Distinct') + doubts')
  <2>1. Cardinality(Distinct') \in Nat
    BY <1>5
  <2>2. CASE at' = "sent" /\ doubts' = doubts
    BY <1>6, <2>2 DEF RepeatsAreExplained, InDoubt
  <2>3. CASE at' = "poll" /\ doubts' = doubts + 1
    BY <1>3, <1>6, <2>1, <2>3 DEF RepeatsAreExplained
  <2>4. QED
    BY <1>1, <2>2, <2>3
<1>8. \A x \in Distinct' \ delivered' : cursor'.pending # 0 /\ x = ledger'[cursor'.pending]
  BY <1>1, <1>2, <1>4 DEF RepeatInv
<1>9. QED
  BY <1>1, <1>2, <1>7, <1>8 DEF RepeatInv

LEMMA ScanRepeats ==
  ASSUME TypeInv, RepeatInv, Scan
  PROVE  RepeatInv'
<1>1. /\ ledger' = ledger /\ inbox' = inbox /\ doubts' = doubts /\ Grows
      /\ Distinct' = Distinct
  <2>1. NotifierOnly /\ inbox' = inbox /\ doubts' = doubts
    BY DEF Scan, BeginScan, Suppress, Queue, NothingToSend, Defer, NoteDelivery,
           AdvanceCursor, delivery
  <2>2. ledger' = ledger /\ Len(ledger) \in Nat
    BY <2>1 DEF NotifierOnly, TypeInv, TypeOK
  <2>3. QED
    BY <2>1, <2>2 DEF Grows, Distinct
<1>2. CASE BeginScan \/ Suppress \/ NothingToSend \/ Defer
  <2>1. /\ delivered' = delivered /\ notifier'.pending = notifier.pending
        /\ cursor' = cursor \/ cursor' = notifier
        /\ at' \notin {"sent", "noted", "down"} /\ at \notin {"sent", "noted", "down"}
    BY <1>2, SuppressFacts
    DEF BeginScan, Suppress, NothingToSend, Defer, MoreToRead, delivery
  <2>2. cursor'.pending = cursor.pending
    BY <2>1 DEF RepeatInv
  <2>3. QED
    BY <1>1, <2>1, <2>2, QuietRepeats
<1>3. CASE Queue
  <2>1. /\ delivered' = delivered /\ at' = "send" /\ at = "scan"
        /\ cursor'.pending = notifier.offset + 1 /\ notifier'.pending = cursor'.pending
        /\ Following \notin delivered
    BY <1>3, QueueFacts DEF Queue, MoreToRead, AlreadyDelivered
  <2>2. notifier.pending = 0 /\ cursor.pending = 0
    BY <2>1 DEF TypeInv, RepeatInv
  <2>3. \A x \in Distinct : x \in delivered
    BY <2>2 DEF RepeatInv
  <2>4. ledger'[cursor'.pending] \notin Distinct
    BY <1>1, <2>1, <2>3 DEF Following
  <2>5. ~InDoubt'
    BY <1>1, <2>4 DEF InDoubt
  <2>6. QED
    BY <1>1, <2>1, <2>3, <2>5 DEF RepeatInv, RepeatsAreExplained
<1>4. CASE NoteDelivery
  <2>1. /\ UNCHANGED <<cursor, notifier>> /\ at' = "noted" /\ at = "sent"
        /\ delivered' = delivered \union {PendingMessage}
    BY <1>4 DEF NoteDelivery
  <2>2. PendingMessage' = PendingMessage
    BY <1>1, <2>1 DEF PendingMessage
  <2>3. QED
    BY <1>1, <2>1, <2>2 DEF RepeatInv, RepeatsAreExplained, InDoubt
<1>5. CASE AdvanceCursor
  <2>1. /\ delivered' = delivered /\ at' = "poll" /\ at = "noted"
        /\ cursor'.pending = 0 /\ notifier'.pending = 0
    BY <1>5, AdvanceFacts DEF AdvanceCursor
  <2>2. PendingMessage \in delivered /\ PendingMessage = ledger[cursor.pending]
    BY <2>1 DEF RepeatInv, PendingMessage
  <2>3. \A x \in Distinct : x \in delivered
    BY <2>2 DEF RepeatInv
  <2>4. QED
    BY <1>1, <2>1, <2>3 DEF RepeatInv, RepeatsAreExplained, InDoubt
<1>6. QED
  BY <1>2, <1>3, <1>4, <1>5 DEF Scan

LEMMA CrashRepeats ==
  ASSUME TypeInv, RepeatInv, Crash
  PROVE  RepeatInv'
<1>1. /\ UNCHANGED <<ledger, cursor, delivered, inbox>> /\ at' = "down"
      /\ doubts' = IF at \in {"sent", "noted"} THEN doubts + 1 ELSE doubts
      /\ Distinct' = Distinct
  BY DEF Crash, Distinct
<1>2. Cardinality(Distinct) \in Nat /\ Len(inbox) \in Nat /\ doubts \in Nat
  BY DistinctFinite DEF TypeInv, TypeOK
<1>3. CASE at \in {"sent", "noted"}
  BY <1>1, <1>2, <1>3 DEF RepeatInv, RepeatsAreExplained
<1>4. CASE at \notin {"sent", "noted"}
  BY <1>1, <1>2, <1>4 DEF RepeatInv, RepeatsAreExplained, InDoubt
<1>5. QED
  BY <1>3, <1>4

LEMMA RestartRepeats ==
  ASSUME TypeInv, RepeatInv, Restart
  PROVE  RepeatInv'
<1>1. /\ UNCHANGED <<ledger, cursor, delivered, inbox, doubts>> /\ at' = "poll"
      /\ at = "down" /\ notifier' = cursor /\ Distinct' = Distinct
  BY DEF Restart, Distinct
<1>2. QED
  BY <1>1 DEF RepeatInv, RepeatsAreExplained, InDoubt

LEMMA RepeatStep == TypeInv /\ RepeatInv /\ [Next]_vars => RepeatInv'
<1> SUFFICES ASSUME TypeInv, RepeatInv, [Next]_vars PROVE RepeatInv'
  OBVIOUS
<1>1. CASE UNCHANGED vars
  BY <1>1 DEF vars, delivery, RepeatInv, RepeatsAreExplained, InDoubt, PendingMessage, Distinct
<1>2. ASSUME Next, Aside
      PROVE  RepeatInv'
  <2>1. cursor'.pending = cursor.pending
    BY <1>2, AsideFacts DEF RepeatInv
  <2>2. QED
    BY <1>2, <2>1, AsideFacts, LedgerGrows, QuietRepeats
<1>3. QED
  BY <1>1, <1>2, SendRepeats, ScanRepeats, CrashRepeats, RestartRepeats DEF Next, Failure, Aside

-----------------------------------------------------------------------------
(* The theorems.                                                           *)

\* Every variable stays in its domain; in particular the event cursor never
\* leaves the journal.
THEOREM AlertTypeCorrect == Spec => []TypeOK
<1>1. TypeInv => TypeOK
  BY DEF TypeInv
<1>2. QED
  BY TypeInit, TypeStep, <1>1, PTL DEF Spec

\* Whatever the event cursor in the state file has passed is in the ledger.
THEOREM IncidentsJournalledCorrect == Spec => []IncidentsJournalled
<1>1. JournalInv => IncidentsJournalled
  BY DEF JournalInv, StoreSound, Told, IncidentsJournalled
<1>2. QED
  BY TypeInit, TypeStep, JournalInit, JournalStep, <1>1, PTL DEF Spec

\* Whatever the delivery cursor has passed was received.
THEOREM NothingSkippedCorrect == Spec => []NothingSkipped
<1>1. DeliveryInv => NothingSkipped
  BY DEF DeliveryInv, Passed, NothingSkipped
<1>2. QED
  BY TypeInit, TypeStep, JournalInit, JournalStep, DeliveryInit, DeliveryStep, <1>1, PTL
  DEF Spec

\* No message about an alert that ends or was answered precedes the alert.
THEOREM NewsStartsWithAlertCorrect == Spec => []NewsStartsWithAlert
<1>1. DeliveryInv => NewsStartsWithAlert
  BY DEF DeliveryInv
<1>2. QED
  BY TypeInit, TypeStep, JournalInit, JournalStep, DeliveryInit, DeliveryStep, <1>1, PTL
  DEF Spec

\* There are never more repetitions than sends whose success was not recorded.
THEOREM RepeatsAreExplainedCorrect == Spec => []RepeatsAreExplained
<1>1. RepeatInv => RepeatsAreExplained
  BY DEF RepeatInv
<1>2. QED
  BY TypeInit, TypeStep, RepeatInit, RepeatStep, <1>1, PTL DEF Spec
=============================================================================
