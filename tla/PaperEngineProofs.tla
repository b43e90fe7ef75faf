-------------------------- MODULE PaperEngineProofs --------------------------
(***************************************************************************)
(* Proofs about PaperEngine for any strategies, prices and limits: every   *)
(* contract held is registered, what a pending entry may still fill is     *)
(* authorized, with simulated fills the books agree exactly, and positions *)
(* and their risk stay within the limits of the policy.                    *)
(***************************************************************************)
EXTENDS PaperEngine, NaturalSets, FiniteSetTheorems, TLAPS

-----------------------------------------------------------------------------
(* The inductive invariant.                                                *)

\* A working order has something left; simulated fills never take a part of it,
\* and a simulated exit is for the whole position.
Shape ==
  /\ simulated # {} => mode = "simulated"
  /\ \A s \in Strategies : Working(order[s]) =>
       /\ order[s].filled < order[s].qty
       /\ mode = "simulated" => order[s].filled = 0
       /\ mode = "simulated" /\ order[s].action = "exit" => order[s].qty = position[s]

\* States from which the engine may go on: a failed engine only if it would be
\* resumed.
Sound == Running \/ (mode = "simulated" /\ Resumable)

Covered(s) ==
  /\ position[s] <= risk[s].qty
  /\ position[s] > 0 => s \in slots /\ s \in trade
Authorized(s) ==
  Working(order[s]) /\ order[s].action = "enter" =>
    s \in pending /\ auth[s].qty = position[s] + Rest(order[s])
Agrees(s) ==
  mode = "simulated" /\ s \notin torn =>
    /\ risk[s].qty = position[s]
    /\ s \in slots <=> position[s] > 0
    /\ s \in trade <=> position[s] > 0

InBar == phase \in {"open", "route", "close"}

\* A position filled since the last bar was taken has no exit order, and while
\* that bar is in hand the engine knows that it is new.
Fresh(s) ==
  s \in entered =>
    /\ position[s] > 0
    /\ ~(Working(order[s]) /\ order[s].action = "exit")
    /\ InBar => s \in newly

EngineInv ==
  /\ TypeOK
  /\ Shape
  /\ \A s \in Strategies : Fresh(s)
  /\ Sound => \A s \in Strategies : Covered(s) /\ Authorized(s) /\ Agrees(s)

LEMMA NoRecords ==
  /\ NoOrder \in OrderRecords /\ ~Working(NoOrder)
  /\ NoAuth \in Amounts /\ NoAuth.qty = 0
  /\ NoRisk \in Amounts /\ NoRisk.qty = 0
BY DEF NoOrder, NoAuth, NoRisk, OrderRecords, Amounts, Working

LEMMA EngineInit == Init => EngineInv
<1> SUFFICES ASSUME Init PROVE EngineInv
  OBVIOUS
<1>1. /\ NoOrder \in OrderRecords /\ ~Working(NoOrder)
      /\ NoAuth \in Amounts /\ NoRisk \in Amounts /\ NoRisk.qty = 0
  BY NoRecords
<1>2. TypeOK
  <2>1. /\ mode \in Modes /\ phase = "idle" /\ turn \in Nat \ {0}
        /\ trades \in Nat /\ pnl \in Int
    BY DEF Init
  <2>2. /\ order \in [Strategies -> OrderRecords]
        /\ auth \in [Strategies -> Amounts] /\ risk \in [Strategies -> Amounts]
    BY <1>1 DEF Init
  <2>3. accepted \in BOOLEAN
    BY DEF Init
  <2>4. position \in [Strategies -> Nat]
    BY DEF Init
  <2>5. QED
    BY <2>1, <2>2, <2>3, <2>4 DEF Init, TypeOK
<1>3. Shape
  BY <1>1 DEF Init, Shape
<1>4. \A s \in Strategies : Fresh(s) /\ Covered(s) /\ Authorized(s) /\ Agrees(s)
  BY <1>1 DEF Init, Fresh, Covered, Authorized, Agrees
<1>5. QED
  BY <1>2, <1>3, <1>4 DEF EngineInv

-----------------------------------------------------------------------------
(* Sizes.                                                                  *)

LEMMA SizedType ==
  ASSUME NEW s \in Strategies, NEW each \in RiskChoices
  PROVE  Sized(s, each) \in Nat
<1>1. each \in Nat \ {0} /\ RiskPerTrade \in Nat /\ MaxContracts \in Nat
  BY AmountsAssumption
<1>2. RiskPerTrade \div each \in Nat
  BY <1>1
<1>3. QED
  BY <1>1, <1>2 DEF Sized, Least

\* A fill is at most what is left; a simulated one is all of it.
LEMMA FillSize ==
  ASSUME EngineInv, NEW s \in Strategies, NEW q \in 1..order[s].qty, FillArrives(s, q)
  PROVE  /\ q \in Nat \ {0} /\ q <= Rest(order[s])
         /\ mode = "simulated" => q = order[s].qty /\ q = Rest(order[s])
         /\ Running
<1>1. order[s].qty \in Nat /\ order[s].filled \in Nat
  BY DEF EngineInv, TypeOK, OrderRecords
<1>2. CASE AtFill(s) /\ Due(s) /\ q = order[s].qty
  BY <1>1, <1>2 DEF FillArrives, EngineInv, Shape, Due, Rest, AtFill, AtTurn, Running
<1>3. CASE mode = "external" /\ phase = "idle" /\ q \in 1..Rest(order[s])
  BY <1>1, <1>3 DEF Rest, Running
<1>4. QED
  BY <1>2, <1>3 DEF FillArrives

\* The record of a filled order.
FilledOrder(o, q, status) == [o EXCEPT !.filled = @ + q, !.status = status]
LEMMA FilledRecord ==
  ASSUME NEW o \in OrderRecords, NEW q \in Nat,
         NEW status \in {"filled", "partial"}
  PROVE  LET r == FilledOrder(o, q, status)
         IN /\ r \in OrderRecords /\ r.qty = o.qty /\ r.action = o.action
            /\ r.filled = o.filled + q /\ r.status = status
<1>1. o.filled \in Nat
  BY DEF OrderRecords
<1>2. o.filled + q \in Nat
  BY <1>1
<1>3. QED
  BY <1>2 DEF OrderRecords, FilledOrder

\* What a fill makes of its order.
Booked(s, q) ==
  FilledOrder(order[s], q, IF q = Rest(order[s]) THEN "filled" ELSE "partial")
LEMMA BookedFacts ==
  ASSUME EngineInv, NEW s \in Strategies, NEW q \in 1..order[s].qty, FillArrives(s, q),
         BookFill(s, q)
  PROVE  /\ order' = [order EXCEPT ![s] = Booked(s, q)]
         /\ order' \in [Strategies -> OrderRecords]
         /\ order'[s].qty = order[s].qty /\ order'[s].action = order[s].action
         /\ order'[s].filled = order[s].filled + q
         /\ Working(order'[s]) <=> q # Rest(order[s])
         /\ mode = "simulated" => ~Working(order'[s])
         /\ \A t \in Strategies : t # s => order'[t] = order[t]
         /\ pending' = IF q = Rest(order[s]) THEN pending \ {s} ELSE pending
         /\ simulated' \subseteq simulated
<1>1. /\ order \in [Strategies -> OrderRecords] /\ order[s] \in OrderRecords
      /\ q \in Nat \ {0}
  BY FillSize DEF EngineInv, TypeOK
<1>2. order' = [order EXCEPT ![s] = Booked(s, q)]
  BY <1>1 DEF BookFill, Booked, FilledOrder
<1>3. /\ Booked(s, q) \in OrderRecords
      /\ Booked(s, q).qty = order[s].qty /\ Booked(s, q).action = order[s].action
      /\ Booked(s, q).filled = order[s].filled + q
      /\ Working(Booked(s, q)) <=> q # Rest(order[s])
  <2> DEFINE status == IF q = Rest(order[s]) THEN "filled" ELSE "partial"
  <2>1. status \in {"filled", "partial"} /\ (status = "partial" <=> q # Rest(order[s]))
    OBVIOUS
  <2>2. Booked(s, q) = FilledOrder(order[s], q, status)
    BY DEF Booked
  <2> HIDE DEF status
  <2>3. /\ Booked(s, q) \in OrderRecords /\ Booked(s, q).status = status
        /\ Booked(s, q).qty = order[s].qty /\ Booked(s, q).action = order[s].action
        /\ Booked(s, q).filled = order[s].filled + q
    BY <1>1, <2>1, <2>2, FilledRecord
  <2>4. QED
    BY <2>1, <2>3 DEF Working
<1>4. order'[s] = Booked(s, q) /\ \A t \in Strategies : t # s => order'[t] = order[t]
  BY <1>1, <1>2
<1>5. order' \in [Strategies -> OrderRecords]
  BY <1>1, <1>2, <1>3
<1>6. QED
  BY <1>2, <1>3, <1>4, <1>5, FillSize DEF BookFill

-----------------------------------------------------------------------------
(* Steps without a fill.                                                   *)

\* Everything a strategy's conditions speak of but the pending orders, the
\* authorizations, newly and the phase.
kept == <<mode, order, position, risk, slots, trade, torn>>

\* No strategy loses the authorization of a working entry, no order starts to
\* be simulated, no position becomes new.
Keeps ==
  /\ UNCHANGED kept
  /\ simulated' \subseteq simulated /\ entered' \subseteq entered
  /\ InBar' => InBar /\ newly' = newly
  /\ \A s \in Strategies : Working(order[s]) /\ order[s].action = "enter" /\ s \in pending =>
       s \in pending' /\ auth'[s] = auth[s]

LEMMA KeepsConditions ==
  ASSUME EngineInv, Keeps, Sound' => Sound
  PROVE  /\ Shape' /\ \A s \in Strategies : Fresh(s)'
         /\ Sound' => \A s \in Strategies : Covered(s)' /\ Authorized(s)' /\ Agrees(s)'
<1>1. Shape'
  BY DEF Keeps, kept, EngineInv, Shape
<1>2. \A s \in Strategies : Fresh(s)'
  BY DEF Keeps, kept, EngineInv, Fresh
<1>3. ASSUME Sound', NEW s \in Strategies
      PROVE  Covered(s)' /\ Authorized(s)' /\ Agrees(s)'
  BY <1>3 DEF Keeps, kept, EngineInv, Covered, Authorized, Agrees
<1>4. QED
  BY <1>1, <1>2, <1>3

LEMMA HoldStep ==
  ASSUME EngineInv, NEW s \in Strategies, Hold(s) \/ NotDue(s)
  PROVE  EngineInv'
<1>1. Keeps /\ Running /\ UNCHANGED <<orders, books, torn, mode, phase, accepted>> /\ turn' = turn + 1
  BY DEF Hold, NotDue, NextTurn, AtFill, AtTurn, Keeps, kept, orders, books, Running, InBar
<1>2. TypeOK'
  BY <1>1 DEF EngineInv, TypeOK, orders, books
<1>3. QED
  BY <1>1, <1>2, KeepsConditions DEF EngineInv, Sound

LEMMA PhaseStep ==
  ASSUME EngineInv, RoutingDone \/ EndBar \/ Interrupt \/ BarRefused
  PROVE  EngineInv'
<1>1. Keeps /\ Running
  BY DEF RoutingDone, EndBar, Interrupt, BarRefused, PhaseEnds, Fails, Keeps, kept, orders,
     books, Running, InBar
<1>2. TypeOK'
  <2>1. accepted' \in BOOLEAN
    BY DEF RoutingDone, EndBar, Interrupt, BarRefused, PhaseEnds, EngineInv, TypeOK
  <2>2. /\ UNCHANGED <<mode, order, pending, simulated, auth, orphans, position, risk, slots,
                      trade, entered, trades, pnl, torn>>
        /\ newly' \in {newly, {}} /\ turn' \in {turn, 1}
        /\ phase' \in {"close", "idle", "failed"}
    BY DEF RoutingDone, EndBar, Interrupt, BarRefused, PhaseEnds, Fails, orders, books
  <2>3. QED
    BY <2>1, <2>2 DEF EngineInv, TypeOK
<1>3. QED
  BY <1>1, <1>2, KeepsConditions DEF EngineInv, Sound

LEMMA ResumeStep ==
  ASSUME EngineInv, Resume
  PROVE  EngineInv'
<1>1. Keeps /\ Sound
  BY DEF Resume, Keeps, kept, orders, books, Sound, InBar
<1>2. TypeOK'
  BY DEF Resume, EngineInv, TypeOK, orders, books
<1>3. QED
  BY <1>1, <1>2, KeepsConditions DEF EngineInv

LEMMA RefreshStep ==
  ASSUME EngineInv, RefreshPending
  PROVE  EngineInv'
<1> DEFINE gone == {s \in pending : order[s].status = "cancelled"}
<1>1. /\ phase = "open" /\ phase' = "route" /\ turn' = 1 /\ UNCHANGED mode
      /\ accepted' \in BOOLEAN
      /\ pending' = pending \ gone /\ simulated' = simulated \ gone
      /\ auth' = [s \in Strategies |-> IF s \in gone THEN NoAuth ELSE auth[s]]
      /\ UNCHANGED <<order, orphans, books, torn>>
  BY DEF RefreshPending, PhaseEnds
<1>2. \A s \in Strategies : Working(order[s]) => s \notin gone
  BY DEF Working
<1> HIDE DEF gone
<1>3. Keeps /\ Running
  BY <1>1, <1>2 DEF Keeps, kept, books, Running, InBar
<1>4. auth' \in [Strategies -> Amounts]
  BY <1>1, NoRecords DEF EngineInv, TypeOK
<1>5. TypeOK'
  BY <1>1, <1>4 DEF EngineInv, TypeOK, books
<1>6. QED
  BY <1>3, <1>5, KeepsConditions DEF EngineInv, Sound

LEMMA DropStep ==
  ASSUME EngineInv, NEW s \in Strategies, DropOrder(s)
  PROVE  EngineInv'
<1>1. Keeps /\ Running
  BY DEF DropOrder, AtFill, AtTurn, NextTurn, Keeps, kept, books, Running, InBar
<1>2. TypeOK'
  BY DEF DropOrder, NextTurn, EngineInv, TypeOK, books
<1>3. QED
  BY <1>1, <1>2, KeepsConditions DEF EngineInv, Sound

\* An order that is cancelled or forgotten is not working any more.
Quieter(s) == ~Working(order'[s]) \/
  /\ Working(order[s])
  /\ order'[s].qty = order[s].qty /\ order'[s].filled = order[s].filled
  /\ order'[s].action = order[s].action

LEMMA QuieterConditions ==
  ASSUME EngineInv, Running, UNCHANGED <<mode, pending, simulated, auth, position, risk, slots,
         trade, torn>>, entered' = {} \/ UNCHANGED <<entered, newly, phase>>,
         \A s \in Strategies : Quieter(s)
  PROVE  /\ Shape' /\ \A s \in Strategies : Fresh(s)'
         /\ \A s \in Strategies : Covered(s)' /\ Authorized(s)' /\ Agrees(s)'
<1>1. Shape'
  BY DEF EngineInv, Shape, Quieter
<1>2. ASSUME NEW s \in Strategies
      PROVE  Fresh(s)' /\ Covered(s)' /\ Authorized(s)' /\ Agrees(s)'
  <2>1. Fresh(s) /\ Covered(s) /\ Authorized(s) /\ Agrees(s) /\ Quieter(s)
    BY DEF EngineInv, Sound
  <2>2. Fresh(s)'
    BY <2>1 DEF Fresh, Quieter, InBar
  <2>3. Authorized(s)'
    BY <2>1 DEF Authorized, Quieter, Rest
  <2>4. QED
    BY <2>1, <2>2, <2>3 DEF Covered, Agrees
<1>3. QED
  BY <1>1, <1>2

LEMMA CancelStep ==
  ASSUME EngineInv, NEW s \in Strategies, Cancel(s)
  PROVE  EngineInv'
<1>1. /\ order' \in [Strategies -> OrderRecords]
      /\ ~Working(order'[s]) /\ \A t \in Strategies : t # s => order'[t] = order[t]
  <2>1. order \in [Strategies -> OrderRecords] /\ order[s] \in OrderRecords
    BY DEF EngineInv, TypeOK
  <2>2. LET r == [order[s] EXCEPT !.status = "cancelled"]
        IN r \in OrderRecords /\ ~Working(r) /\ order' = [order EXCEPT ![s] = r]
    BY <2>1 DEF Cancel, OrderRecords, Working
  <2>3. QED
    BY <2>1, <2>2
<1>2. \A t \in Strategies : Quieter(t)
  BY <1>1 DEF Quieter
<1>3. TypeOK'
  BY <1>1 DEF Cancel, EngineInv, TypeOK, books
<1>4. QED
  BY <1>2, <1>3, QuieterConditions DEF Cancel, EngineInv, books, Running

LEMMA StartBarStep ==
  ASSUME EngineInv, StartBar
  PROVE  EngineInv'
<1>1. \A t \in Strategies : order'[t] \in OrderRecords /\ Quieter(t)
  <2>1. SUFFICES ASSUME NEW t \in Strategies PROVE order'[t] \in OrderRecords /\ Quieter(t)
    OBVIOUS
  <2>2. order[t] \in OrderRecords
    BY DEF EngineInv, TypeOK
  <2>3. \/ order'[t] = order[t] \/ order'[t] = NoOrder
        \/ order'[t] = [order[t] EXCEPT !.age = "earlier"]
    BY DEF StartBar
  <2>4. CASE order'[t] = [order[t] EXCEPT !.age = "earlier"]
    BY <2>2, <2>4 DEF OrderRecords, Quieter, Working
  <2>5. QED
    BY <2>2, <2>3, <2>4, NoRecords DEF Quieter
<1>2. order' \in [Strategies -> OrderRecords]
  BY <1>1 DEF StartBar
<1>3. /\ UNCHANGED <<mode, pending, simulated, auth, orphans, position, risk, slots, trade, torn>>
      /\ phase = "idle" /\ phase' = "open" /\ turn' = 1 /\ newly' = {} /\ entered' = {}
  BY DEF StartBar, StreamsAccept
<1>4. trades' \in Nat /\ pnl' \in Int
  BY DEF StartBar, EngineInv, TypeOK
<1>5. accepted' \in BOOLEAN
  BY DEF StartBar
<1>6. TypeOK'
  BY <1>2, <1>3, <1>4, <1>5 DEF EngineInv, TypeOK
<1>7. QED
  BY <1>1, <1>3, <1>6, QuieterConditions DEF EngineInv, Running

-----------------------------------------------------------------------------
(* New orders.                                                             *)

\* The record of a new order.
NewOrder(action, qty, price) ==
  [action |-> action, qty |-> qty, filled |-> 0, status |-> "submitted",
   price |-> price, age |-> "this"]
LEMMA NewOrderFacts ==
  ASSUME NEW action \in {"enter", "exit"}, NEW qty \in Nat, NEW price \in {"own", "open"}
  PROVE  LET r == NewOrder(action, qty, price)
         IN /\ r \in OrderRecords /\ Working(r) /\ r.action = action
            /\ r.qty = qty /\ r.filled = 0
BY DEF NewOrder, OrderRecords, Working

LEMMA EnterStep ==
  ASSUME EngineInv, NEW s \in Strategies, Enter(s)
  PROVE  EngineInv'
<1>1. /\ phase = "route" /\ s \notin pending /\ position[s] = 0
      /\ UNCHANGED <<mode, phase, accepted, books, torn>> /\ turn' = turn + 1
  BY DEF Enter, AtTurn, Decides, NextTurn
<1>2. PICK each \in RiskChoices, price \in {"own", "open"} :
        /\ Sized(s, each) > 0
        /\ Submit(s, "enter", Sized(s, each), price)
        /\ auth' = [auth EXCEPT ![s] = [qty |-> Sized(s, each), each |-> each]]
        /\ orphans' = IF auth[s] = NoAuth THEN orphans ELSE orphans \union {s}
  BY DEF Enter, RiskApproves
<1>3. PICK n \in Nat \ {0} : n = Sized(s, each)
  BY <1>2, SizedType
<1>4. PICK o \in OrderRecords :
        o = NewOrder("enter", n, price) /\ Working(o) /\ o.action = "enter"
        /\ o.qty = n /\ o.filled = 0
  BY NewOrderFacts
<1>5. /\ order' = [order EXCEPT ![s] = o] /\ pending' = pending \union {s}
      /\ simulated' = IF mode = "simulated" THEN simulated \union {s} ELSE simulated
  BY <1>2, <1>3, <1>4 DEF Submit, NewOrder
<1>6. [qty |-> n, each |-> each] \in Amounts
  BY AmountsAssumption DEF Amounts
<1>7. /\ order' \in [Strategies -> OrderRecords] /\ auth' \in [Strategies -> Amounts]
      /\ order'[s] = o /\ auth'[s].qty = n
      /\ \A t \in Strategies : t # s => order'[t] = order[t] /\ auth'[t] = auth[t]
  BY <1>2, <1>3, <1>5, <1>6 DEF EngineInv, TypeOK
<1>8. TypeOK'
  BY <1>1, <1>2, <1>5, <1>7 DEF EngineInv, TypeOK, books
<1>9. Shape'
  BY <1>1, <1>4, <1>5, <1>7 DEF EngineInv, Shape, books
<1>10. ASSUME NEW t \in Strategies
       PROVE  Fresh(t)' /\ Covered(t)' /\ Authorized(t)' /\ Agrees(t)'
  <2>1. Fresh(t) /\ Covered(t) /\ Authorized(t) /\ Agrees(t)
    BY <1>1 DEF EngineInv, Sound, Running
  <2>2. Fresh(t)'
    BY <1>1, <1>4, <1>7, <2>1 DEF Fresh, books, InBar
  <2>3. Covered(t)' /\ Agrees(t)'
    BY <1>1, <2>1 DEF Covered, Agrees, books
  <2>4. Authorized(t)'
    BY <1>1, <1>4, <1>5, <1>7, <2>1 DEF Authorized, Rest, books
  <2>5. QED
    BY <2>2, <2>3, <2>4
<1>11. QED
  BY <1>8, <1>9, <1>10 DEF EngineInv

LEMMA ExitStep ==
  ASSUME EngineInv, NEW s \in Strategies, Exit(s)
  PROVE  EngineInv'
<1>1. /\ phase = "route" /\ s \notin pending /\ s \notin entered /\ position[s] \in Nat \ {0}
      /\ UNCHANGED <<mode, phase, accepted, auth, orphans, books, torn>> /\ turn' = turn + 1
  BY DEF Exit, AtTurn, Decides, NextTurn, EngineInv, TypeOK, Fresh, InBar
<1>2. PICK price \in {"own", "open"} : Submit(s, "exit", position[s], price)
  BY DEF Exit
<1>3. PICK o \in OrderRecords :
        o = NewOrder("exit", position[s], price) /\ Working(o) /\ o.action = "exit"
        /\ o.qty = position[s] /\ o.filled = 0
  BY <1>1, NewOrderFacts
<1>4. /\ order' = [order EXCEPT ![s] = o] /\ pending' = pending \union {s}
      /\ simulated' = IF mode = "simulated" THEN simulated \union {s} ELSE simulated
  BY <1>2, <1>3 DEF Submit, NewOrder
<1>5. /\ order' \in [Strategies -> OrderRecords] /\ order'[s] = o
      /\ \A t \in Strategies : t # s => order'[t] = order[t]
  BY <1>4 DEF EngineInv, TypeOK
<1>6. TypeOK'
  BY <1>1, <1>4, <1>5 DEF EngineInv, TypeOK, books
<1>7. Shape'
  BY <1>1, <1>3, <1>4, <1>5 DEF EngineInv, Shape, books
<1>8. ASSUME NEW t \in Strategies
      PROVE  Fresh(t)' /\ Covered(t)' /\ Authorized(t)' /\ Agrees(t)'
  <2>1. Fresh(t) /\ Covered(t) /\ Authorized(t) /\ Agrees(t)
    BY <1>1 DEF EngineInv, Sound, Running
  <2>2. Fresh(t)'
    BY <1>1, <1>5, <2>1 DEF Fresh, books, InBar
  <2>3. Covered(t)' /\ Agrees(t)'
    BY <1>1, <2>1 DEF Covered, Agrees, books
  <2>4. Authorized(t)'
    BY <1>1, <1>3, <1>4, <1>5, <2>1 DEF Authorized, Rest, books
  <2>5. QED
    BY <2>2, <2>3, <2>4
<1>9. QED
  BY <1>6, <1>7, <1>8 DEF EngineInv

-----------------------------------------------------------------------------
(* Fills.                                                                  *)

\* A fill leaves the other strategies alone.
OthersKeep(s) ==
  /\ UNCHANGED mode
  /\ phase' \in {phase, "failed"}
  /\ \A t \in Strategies \ {s} :
       /\ order'[t] = order[t] /\ position'[t] = position[t] /\ risk'[t] = risk[t]
       /\ auth'[t] = auth[t]
       /\ t \in pending => t \in pending'
       /\ t \in newly => t \in newly'
       /\ t \in entered' => t \in entered
       /\ t \in slots' <=> t \in slots
       /\ t \in trade' <=> t \in trade
       /\ t \in torn => t \in torn'

LEMMA OthersConditions ==
  ASSUME EngineInv, Running, NEW s \in Strategies, OthersKeep(s),
         NEW t \in Strategies, t # s
  PROVE  Fresh(t)' /\ Covered(t)' /\ Authorized(t)' /\ Agrees(t)'
<1>1. Fresh(t) /\ Covered(t) /\ Authorized(t) /\ Agrees(t)
  BY DEF EngineInv, Sound
<1>2. Fresh(t)' /\ Covered(t)'
  BY <1>1 DEF OthersKeep, Fresh, Covered, InBar
<1>3. Authorized(t)'
  BY <1>1 DEF OthersKeep, Authorized
<1>4. Agrees(t)'
  BY <1>1 DEF OthersKeep, Agrees
<1>5. QED
  BY <1>2, <1>3, <1>4

\* The shape of the orders after any fill.
LEMMA FillShape ==
  ASSUME EngineInv, NEW s \in Strategies, NEW q \in 1..order[s].qty, FillArrives(s, q),
         BookFill(s, q), UNCHANGED mode,
         \A t \in Strategies : t # s => position'[t] = position[t]
  PROVE  Shape'
<1>1. /\ order[s].qty \in Nat /\ order[s].filled \in Nat
      /\ q \in Nat /\ q <= Rest(order[s])
  BY FillSize DEF EngineInv, TypeOK, OrderRecords
<1>2. Working(order'[s]) => order'[s].filled < order'[s].qty /\ mode # "simulated"
  BY <1>1, BookedFacts DEF Rest
<1>3. QED
  BY <1>2, BookedFacts DEF EngineInv, Shape

\* After a fill: the orders, and what concerns the strategy itself.
LEMMA FillStep ==
  ASSUME EngineInv, NEW s \in Strategies, NEW q \in 1..order[s].qty, FillArrives(s, q),
         BookFill(s, q), OthersKeep(s), TypeOK', Fresh(s)',
         Sound' => Covered(s)' /\ Authorized(s)' /\ Agrees(s)'
  PROVE  EngineInv'
<1>1. Running
  BY FillSize
<1>2. Shape'
  BY FillShape DEF OthersKeep
<1>3. \A t \in Strategies : t # s => Fresh(t)' /\ Covered(t)' /\ Authorized(t)' /\ Agrees(t)'
  BY <1>1, OthersConditions
<1>4. QED
  BY <1>2, <1>3 DEF EngineInv

\* AfterFill, for the types.
LEMMA AfterFillTypes ==
  ASSUME EngineInv, AfterFill
  PROVE  /\ UNCHANGED <<mode, phase, accepted>> /\ turn' \in Nat \ {0}
         /\ Running' <=> Running
BY DEF AfterFill, EngineInv, TypeOK, Running

LEMMA FillEntryStep ==
  ASSUME EngineInv, NEW s \in Strategies, FillEntry(s)
  PROVE  EngineInv'
<1>1. PICK q \in 1..order[s].qty :
        /\ order[s].action = "enter" /\ FillArrives(s, q) /\ BookFill(s, q)
        /\ position' = [position EXCEPT ![s] = @ + q]
        /\ trade' = trade \union {s} /\ newly' = newly \union {s}
        /\ entered' = entered \union {s}
        /\ RegisterEntry(s, q) /\ AfterFill
        /\ UNCHANGED <<orphans, pnl, torn>>
  BY DEF FillEntry
<1>2. /\ q \in Nat \ {0} /\ Running /\ position[s] \in Nat
      /\ risk[s] \in Amounts /\ auth[s] \in Amounts
  BY <1>1, FillSize DEF EngineInv, TypeOK
<1>3. Working(order[s]) /\ Fresh(s) /\ Covered(s) /\ Authorized(s) /\ Agrees(s)
  BY <1>1, <1>2 DEF FillArrives, EngineInv, Sound
<1>4. DEFINE r == [qty |-> risk[s].qty + q, each |-> auth[s].each]
<1>5. r \in Amounts /\ r.qty = risk[s].qty + q
  BY <1>2 DEF Amounts
<1>6. /\ risk' = [risk EXCEPT ![s] = r]
      /\ slots' = IF position[s] = 0 THEN slots \union {s} ELSE slots
      /\ auth' = IF q = Rest(order[s]) THEN [auth EXCEPT ![s] = NoAuth] ELSE auth
  BY <1>1 DEF RegisterEntry, AuthAfter
<1>7. trades' \in Nat
  BY <1>1 DEF RegisterEntry, EngineInv, TypeOK
<1> HIDE DEF r
<1>8. /\ risk' \in [Strategies -> Amounts] /\ risk'[s].qty = risk[s].qty + q
      /\ auth' \in [Strategies -> Amounts] /\ (q # Rest(order[s]) => auth'[s] = auth[s])
      /\ position' \in [Strategies -> Nat] /\ position'[s] = position[s] + q
      /\ \A t \in Strategies : t # s =>
           risk'[t] = risk[t] /\ auth'[t] = auth[t] /\ position'[t] = position[t]
  BY <1>1, <1>2, <1>5, <1>6, NoRecords DEF EngineInv, TypeOK
<1>9. TypeOK'
  BY <1>1, <1>6, <1>7, <1>8, BookedFacts, AfterFillTypes DEF EngineInv, TypeOK
<1>10. OthersKeep(s)
  BY <1>1, <1>6, <1>8, BookedFacts, AfterFillTypes DEF OthersKeep
<1>11. /\ order'[s].action = "enter" /\ order'[s].qty = order[s].qty
       /\ order'[s].filled = order[s].filled + q
       /\ Working(order'[s]) => q # Rest(order[s]) /\ pending' = pending
  BY <1>1, BookedFacts
<1>12. order[s].qty \in Nat /\ order[s].filled \in Nat /\ risk[s].qty \in Nat
       /\ auth[s].qty \in Nat
  BY <1>2 DEF EngineInv, TypeOK, OrderRecords, Amounts
<1>13. Fresh(s)'
  BY <1>1, <1>2, <1>8, <1>11 DEF Fresh
<1>14. Covered(s)'
  BY <1>1, <1>2, <1>3, <1>6, <1>8, <1>12 DEF Covered
<1>15. Authorized(s)'
  <2>1. SUFFICES ASSUME Working(order'[s])
                 PROVE  s \in pending' /\ auth'[s].qty = position'[s] + Rest(order'[s])
    BY DEF Authorized
  <2>2. s \in pending /\ auth[s].qty = position[s] + Rest(order[s])
    BY <1>1, <1>3 DEF Authorized
  <2>3. Rest(order'[s]) = Rest(order[s]) - q
    BY <1>2, <1>11, <1>12 DEF Rest
  <2>4. auth'[s] = auth[s] /\ pending' = pending
    BY <1>8, <1>11, <2>1
  <2>5. Rest(order[s]) \in Int
    BY <1>12 DEF Rest
  <2>6. QED
    BY <1>2, <1>8, <2>2, <2>3, <2>4, <2>5
<1>16. Agrees(s)'
  BY <1>1, <1>2, <1>3, <1>6, <1>8, <1>12, AfterFillTypes DEF Agrees
<1>17. QED
  BY <1>1, <1>9, <1>10, <1>13, <1>14, <1>15, <1>16, FillStep

LEMMA FillExitPartlyStep ==
  ASSUME EngineInv, NEW s \in Strategies, FillExitPartly(s)
  PROVE  EngineInv'
<1>1. PICK q \in 1..order[s].qty :
        /\ order[s].action = "exit" /\ FillArrives(s, q) /\ q < position[s] /\ BookFill(s, q)
        /\ position' = [position EXCEPT ![s] = @ - q]
        /\ AfterFill
        /\ UNCHANGED <<auth, orphans, risk, slots, trade, newly, entered, trades, pnl, torn>>
  BY DEF FillExitPartly
<1>2. q \in Nat \ {0} /\ Running /\ position[s] \in Nat /\ risk[s].qty \in Nat
  BY <1>1, FillSize DEF EngineInv, TypeOK, Amounts
<1>3. Working(order[s]) /\ Fresh(s) /\ Covered(s)
  BY <1>1, <1>2 DEF FillArrives, EngineInv, Sound
<1>4. mode # "simulated"
  BY <1>1, <1>2, <1>3, FillSize DEF EngineInv, Shape
<1>5. /\ position' \in [Strategies -> Nat] /\ position'[s] = position[s] - q
      /\ \A t \in Strategies : t # s => position'[t] = position[t]
  BY <1>1, <1>2 DEF EngineInv, TypeOK
<1>6. TypeOK'
  BY <1>1, <1>5, BookedFacts, AfterFillTypes DEF EngineInv, TypeOK
<1>7. OthersKeep(s)
  BY <1>1, <1>5, BookedFacts, AfterFillTypes DEF OthersKeep
<1>8. Fresh(s)' /\ Covered(s)'
  BY <1>1, <1>2, <1>3, <1>5 DEF Fresh, Covered
<1>9. Authorized(s)' /\ Agrees(s)'
  BY <1>1, <1>4, BookedFacts, AfterFillTypes DEF Authorized, Agrees
<1>10. QED
  BY <1>1, <1>6, <1>7, <1>8, <1>9, FillStep

LEMMA FillExitStep ==
  ASSUME EngineInv, NEW s \in Strategies, FillExit(s)
  PROVE  EngineInv'
<1>1. PICK q \in 1..order[s].qty :
        /\ order[s].action = "exit" /\ FillArrives(s, q) /\ q = position[s] /\ BookFill(s, q)
        /\ position' = [position EXCEPT ![s] = 0]
        /\ risk' = [risk EXCEPT ![s] = Released(s, q)]
        /\ \E result \in Outcomes : pnl' = IF risk[s].qty = q THEN pnl + result ELSE pnl
        /\ slots' = slots \ {s} /\ trade' = trade \ {s}
        /\ AfterFill
        /\ UNCHANGED <<auth, orphans, newly, entered, trades, torn>>
  BY DEF FillExit
<1>2. /\ q \in Nat \ {0} /\ Running /\ position[s] \in Nat
      /\ risk[s] \in Amounts /\ risk[s].qty \in Nat
  BY <1>1, FillSize DEF EngineInv, TypeOK, Amounts
<1>3. Working(order[s]) /\ Fresh(s) /\ Covered(s) /\ Agrees(s)
  BY <1>1, <1>2 DEF FillArrives, EngineInv, Sound
<1>4. /\ Released(s, q) \in Amounts
      /\ risk[s].qty = q => Released(s, q) = NoRisk
  <2>1. risk[s].qty - q \in Nat
    BY <1>1, <1>2, <1>3 DEF Covered
  <2>2. QED
    BY <1>2, <2>1, NoRecords DEF Released, Amounts
<1>5. pnl' \in Int
  BY <1>1, AmountsAssumption DEF EngineInv, TypeOK
<1>6. /\ position' \in [Strategies -> Nat] /\ position'[s] = 0
      /\ risk' \in [Strategies -> Amounts] /\ risk'[s] = Released(s, q)
      /\ \A t \in Strategies : t # s => position'[t] = position[t] /\ risk'[t] = risk[t]
  BY <1>1, <1>4 DEF EngineInv, TypeOK
<1>7. TypeOK'
  BY <1>1, <1>5, <1>6, BookedFacts, AfterFillTypes DEF EngineInv, TypeOK
<1>8. OthersKeep(s)
  BY <1>1, <1>6, BookedFacts, AfterFillTypes DEF OthersKeep
<1>9. Fresh(s)'
  BY <1>1, <1>3 DEF Fresh
<1>10. Covered(s)'
  <2>1. risk'[s].qty \in Nat
    BY <1>6 DEF Amounts
  <2>2. QED
    BY <1>6, <2>1 DEF Covered
<1>11. Authorized(s)'
  BY <1>1, BookedFacts DEF Authorized
<1>12. Agrees(s)'
  BY <1>1, <1>3, <1>4, <1>6, NoRecords, AfterFillTypes DEF Agrees
<1>13. QED
  BY <1>1, <1>7, <1>8, <1>9, <1>10, <1>11, <1>12, FillStep

\* A half-applied entry leaves an authorization without a pending order, which
\* no resumption accepts; in the external mode nothing is resumed.
LEMMA EntryFillRaisesStep ==
  ASSUME EngineInv, NEW s \in Strategies, EntryFillRaises(s)
  PROVE  EngineInv'
<1>1. PICK q \in 1..order[s].qty :
        /\ order[s].action = "enter" /\ FillArrives(s, q) /\ BookFill(s, q)
        /\ position' = [position EXCEPT ![s] = @ + q]
        /\ trade' \in {trade, trade \union {s}} /\ newly' \in {newly, newly \union {s}}
        /\ entered' = entered \union {s}
        /\ Fails
        /\ UNCHANGED <<accepted, auth, orphans, risk, slots, trades, pnl, torn>>
  BY DEF EntryFillRaises
<1>2. q \in Nat \ {0} /\ Running /\ position[s] \in Nat
  BY <1>1, FillSize DEF EngineInv, TypeOK
<1>3. Working(order[s]) /\ Authorized(s)
  BY <1>1, <1>2 DEF FillArrives, EngineInv, Sound
<1>4. /\ position' \in [Strategies -> Nat] /\ position'[s] > 0
      /\ \A t \in Strategies : t # s => position'[t] = position[t]
  BY <1>1, <1>2 DEF EngineInv, TypeOK
<1>5. TypeOK'
  BY <1>1, <1>4, BookedFacts DEF Fails, EngineInv, TypeOK
<1>6. OthersKeep(s)
  BY <1>1, <1>4, BookedFacts DEF OthersKeep, Fails
<1>7. Fresh(s)'
  BY <1>1, <1>4, BookedFacts DEF Fresh, Fails, InBar
<1>8. ~Sound'
  <2>1. SUFFICES ASSUME mode = "simulated", Resumable' PROVE FALSE
    BY <1>1 DEF Sound, Running, Fails
  <2>2. s \notin pending'
    BY <1>1, <2>1, BookedFacts, FillSize
  <2>3. auth[s].qty = position[s] + Rest(order[s]) /\ Rest(order[s]) \in Nat \ {0}
    BY <1>1, <1>2, <1>3, <2>1, FillSize DEF Authorized
  <2>4. auth'[s] # NoAuth
    BY <1>1, <1>2, <2>3, NoRecords
  <2>5. QED
    BY <2>1, <2>2, <2>4 DEF Resumable
<1>9. QED
  BY <1>1, <1>5, <1>6, <1>7, <1>8, FillStep

LEMMA ExitFillRaisesStep ==
  ASSUME EngineInv, NEW s \in Strategies, ExitFillRaises(s)
  PROVE  EngineInv'
<1>1. PICK q \in 1..order[s].qty :
        /\ order[s].action = "exit" /\ FillArrives(s, q) /\ BookFill(s, q)
        /\ position' = [position EXCEPT ![s] = 0] /\ torn' = torn \union {s}
        /\ Fails
        /\ UNCHANGED <<accepted, auth, orphans, risk, slots, trade, newly, entered,
                       trades, pnl>>
  BY DEF ExitFillRaises
<1>2. Running /\ risk[s].qty \in Nat
  BY <1>1, FillSize DEF EngineInv, TypeOK, Amounts
<1>3. Working(order[s]) /\ Fresh(s)
  BY <1>1 DEF FillArrives, EngineInv
<1>4. /\ position' \in [Strategies -> Nat] /\ position'[s] = 0
      /\ \A t \in Strategies : t # s => position'[t] = position[t]
  BY <1>1 DEF EngineInv, TypeOK
<1>5. TypeOK'
  BY <1>1, <1>4, BookedFacts DEF Fails, EngineInv, TypeOK
<1>6. OthersKeep(s)
  BY <1>1, <1>4, BookedFacts DEF OthersKeep, Fails
<1>7. Fresh(s)' /\ Covered(s)'
  BY <1>1, <1>2, <1>3, <1>4 DEF Fresh, Covered
<1>8. Authorized(s)' /\ Agrees(s)'
  BY <1>1, BookedFacts DEF Authorized, Agrees
<1>9. QED
  BY <1>1, <1>5, <1>6, <1>7, <1>8, FillStep

-----------------------------------------------------------------------------
(* The theorems.                                                           *)

LEMMA EngineStep == EngineInv /\ [Next]_vars => EngineInv'
<1> SUFFICES ASSUME EngineInv, [Next]_vars PROVE EngineInv'
  OBVIOUS
<1>1. CASE Progress
  BY <1>1, RefreshStep, PhaseStep, EnterStep, ExitStep, HoldStep, DropStep, FillEntryStep,
     FillExitPartlyStep, FillExitStep, EntryFillRaisesStep, ExitFillRaisesStep DEF Progress
<1>2. CASE UNCHANGED vars
  <2>1. Keeps /\ Sound' = Sound
    BY <1>2 DEF vars, orders, books, Keeps, kept, Sound, Running, Resumable, InBar
  <2>2. TypeOK'
    BY <1>2 DEF vars, orders, books, EngineInv, TypeOK
  <2>3. QED
    BY <2>1, <2>2, KeepsConditions DEF EngineInv
<1>3. QED
  BY <1>1, <1>2, StartBarStep, PhaseStep, ResumeStep, CancelStep DEF Next

\* Every variable stays in its domain; in particular a release of risk never
\* goes below nothing.
THEOREM EngineTypeCorrect == Spec => []TypeOK
<1>1. EngineInv => TypeOK
  BY DEF EngineInv
<1>2. QED
  BY EngineInit, EngineStep, <1>1, PTL DEF Spec

\* Every contract held is registered with risk, and its strategy has its slot
\* and its trade, also after a resumption.
THEOREM RiskCoversExposureCorrect == Spec => []RiskCoversExposure
<1>1. EngineInv => RiskCoversExposure
  BY DEF EngineInv, Sound, Covered, RiskCoversExposure
<1>2. QED
  BY EngineInit, EngineStep, <1>1, PTL DEF Spec

\* What a working entry may still fill is what is left of its authorization.
THEOREM PendingEntryIsAuthorizedCorrect == Spec => []PendingEntryIsAuthorized
<1>1. EngineInv => PendingEntryIsAuthorized
  BY DEF EngineInv, Sound, Authorized, PendingEntryIsAuthorized
<1>2. QED
  BY EngineInit, EngineStep, <1>1, PTL DEF Spec

\* With simulated fills the books agree exactly about every strategy whose exit
\* fill was not interrupted.
THEOREM BooksAgreeCorrect == Spec => []BooksAgree
<1>1. EngineInv => BooksAgree
  BY DEF EngineInv, Sound, Agrees, BooksAgree
<1>2. QED
  BY EngineInit, EngineStep, <1>1, PTL DEF Spec

\* No fill closes a position before a bar later than the one that opened it is
\* taken, whatever fails, resumes or is delivered again in between.
THEOREM EntryBarIsNotManagedCorrect == Spec => EntryBarIsNotManaged
<1>1. EngineInv' => \A s \in entered : s \in entered' => position'[s] > 0
  BY DEF EngineInv, TypeOK, Fresh
<1>2. QED
  BY EngineInit, EngineStep, <1>1, PTL DEF Spec, EntryBarIsNotManaged

-----------------------------------------------------------------------------
(* The number of registered positions.                                     *)

RegisteredWithinLimit == Cardinality(Registered) <= MaxConcurrent

LEMMA StrategiesFinite == IsFiniteSet(Strategies)
<1>1. Len(Order) \in Nat /\ DOMAIN Order = 1..Len(Order)
  BY OrderAssumption
<1>2. IsFiniteSet(1..Len(Order))
  BY <1>1, FS_Interval
<1>3. Order \in Surjection(1..Len(Order), Strategies)
  BY <1>1, OrderAssumption DEF Strategies, Surjection
<1>4. QED
  BY <1>2, <1>3, FS_Surjection

\* A step registers at most one strategy that was not, and only below the limit.
LEMMA RegisteredGrowth ==
  ASSUME TypeOK, TypeOK', [Next]_vars
  PROVE  \/ Registered' \subseteq Registered
         \/ /\ Cardinality(Registered) < MaxConcurrent
            /\ \E s \in Strategies : Registered' \subseteq Registered \union {s}
<1>1. ASSUME NEW s \in Strategies, FillEntry(s)
      PROVE  \/ Registered' \subseteq Registered
             \/ /\ Cardinality(Registered) < MaxConcurrent
                /\ Registered' \subseteq Registered \union {s}
  <2>1. PICK q \in 1..order[s].qty : FillFits(s, q) /\ RegisterEntry(s, q)
    BY <1>1 DEF FillEntry
  <2>2. Registered' \subseteq Registered \union {s}
    BY <2>1 DEF RegisterEntry, Registered, TypeOK
  <2>3. s \in Registered \/ Cardinality(Registered) < MaxConcurrent
    BY <2>1 DEF FillFits
  <2>4. QED
    BY <2>2, <2>3
<1>2. ASSUME NEW s \in Strategies, FillExit(s)
      PROVE  Registered' \subseteq Registered
  <2>1. PICK q \in 1..order[s].qty : risk' = [risk EXCEPT ![s] = Released(s, q)]
    BY <1>2 DEF FillExit
  <2>2. order[s].qty \in Nat /\ risk[s] \in Amounts /\ risk'[s] \in Amounts
    BY DEF TypeOK, OrderRecords, Amounts
  <2>3. risk'[s] = Released(s, q) /\ \A t \in Strategies \ {s} : risk'[t] = risk[t]
    BY <2>1 DEF TypeOK
  <2>4. risk'[s].qty > 0 => risk[s].qty > 0
    BY <2>2, <2>3, NoRecords DEF Released, Amounts
  <2>5. QED
    BY <2>3, <2>4 DEF Registered
<1>3. ASSUME UNCHANGED risk
      PROVE  Registered' = Registered
  BY <1>3 DEF Registered
<1>4. CASE Progress
  BY <1>1, <1>2, <1>3, <1>4 DEF Progress, RefreshPending, RoutingDone, EndBar, Enter, Exit,
     Hold, NotDue, DropOrder, FillExitPartly, EntryFillRaises, ExitFillRaises, books
<1>5. CASE ~Progress
  BY <1>3, <1>5 DEF Next, StartBar, BarRefused, Interrupt, Resume, Cancel, books, vars
<1>6. QED
  BY <1>4, <1>5

LEMMA RegisteredStep ==
  ASSUME TypeOK, TypeOK', RegisteredWithinLimit, [Next]_vars
  PROVE  RegisteredWithinLimit'
<1>1. MaxConcurrent \in Nat
  BY AmountsAssumption
<1>2. IsFiniteSet(Registered) /\ Cardinality(Registered) \in Nat
  BY StrategiesFinite, FS_Subset, FS_CardinalityType DEF Registered
<1>3. CASE Registered' \subseteq Registered
  <2>1. Cardinality(Registered') <= Cardinality(Registered) /\ Cardinality(Registered') \in Nat
    BY <1>2, <1>3, FS_Subset, FS_CardinalityType
  <2>2. QED
    BY <1>1, <1>2, <2>1 DEF RegisteredWithinLimit
<1>4. CASE /\ Cardinality(Registered) < MaxConcurrent
           /\ \E s \in Strategies : Registered' \subseteq Registered \union {s}
  <2>1. PICK s \in Strategies : Registered' \subseteq Registered \union {s}
    BY <1>4
  <2>2. /\ IsFiniteSet(Registered \union {s})
        /\ Cardinality(Registered \union {s}) <= Cardinality(Registered) + 1
        /\ Cardinality(Registered \union {s}) \in Nat
    BY <1>2, FS_AddElement, FS_CardinalityType
  <2>3. /\ Cardinality(Registered') <= Cardinality(Registered \union {s})
        /\ Cardinality(Registered') \in Nat
    BY <2>1, <2>2, FS_Subset, FS_CardinalityType
  <2>4. QED
    BY <1>1, <1>2, <1>4, <2>2, <2>3 DEF RegisteredWithinLimit
<1>5. QED
  BY <1>3, <1>4, RegisteredGrowth

\* However many strategies trade, no more of them hold contracts than the policy
\* allows positions.
THEOREM PositionsWithinLimitCorrect == Spec => []PositionsWithinLimit
<1>1. Init => RegisteredWithinLimit
  <2> SUFFICES ASSUME Init PROVE RegisteredWithinLimit
    OBVIOUS
  <2>1. risk = [s \in Strategies |-> NoRisk]
    BY DEF Init
  <2>2. \A s \in Strategies : risk[s].qty = 0
    BY <2>1, NoRecords
  <2>3. Registered = {}
    BY <2>2 DEF Registered
  <2>4. QED
    BY <2>3, FS_EmptySet, AmountsAssumption DEF RegisteredWithinLimit
<1>2. EngineInv /\ EngineInv' /\ RegisteredWithinLimit /\ [Next]_vars => RegisteredWithinLimit'
  BY RegisteredStep DEF EngineInv
<1>3. EngineInv /\ RegisteredWithinLimit => PositionsWithinLimit
  <2>1. SUFFICES ASSUME EngineInv, RegisteredWithinLimit, Running
                 PROVE  Cardinality({s \in Strategies : position[s] > 0}) <= MaxConcurrent
    BY DEF PositionsWithinLimit
  <2>2. {s \in Strategies : position[s] > 0} \subseteq Registered
    BY <2>1 DEF EngineInv, TypeOK, Amounts, Sound, Covered, Registered
  <2>3. IsFiniteSet(Registered) /\ Cardinality(Registered) \in Nat
    BY StrategiesFinite, FS_Subset, FS_CardinalityType DEF Registered
  <2>4. /\ Cardinality({s \in Strategies : position[s] > 0}) <= Cardinality(Registered)
        /\ Cardinality({s \in Strategies : position[s] > 0}) \in Nat
    BY <2>2, <2>3, FS_Subset, FS_CardinalityType
  <2>5. QED
    BY <2>1, <2>3, <2>4, AmountsAssumption DEF RegisteredWithinLimit
<1>4. QED
  BY EngineInit, EngineStep, <1>1, <1>2, <1>3, PTL DEF Spec

-----------------------------------------------------------------------------
(* The risk that is open.                                                  *)

\* What the next fill of a working entry adds is valued as what it has already
\* registered: one authorization lasts as long as its order.
PricedAsAuthorized ==
  \A s \in Strategies :
    Working(order[s]) /\ order[s].action = "enter" /\ risk[s].qty > 0 =>
      risk[s].each = auth[s].each

RiskInv ==
  /\ PricedAsAuthorized
  /\ OpenRisk <= MaxOpenRisk

\* The sum of registered risk, and that of the risk of the contracts held.
Total(r) == MapThenSumSet(LAMBDA s : r[s].qty * r[s].each, Strategies)
Held(p, r) == MapThenSumSet(LAMBDA s : p[s] * r[s].each, Strategies)
Valued(r) == [s \in Strategies |-> r[s].qty * r[s].each]
HeldValued(p, r) == [s \in Strategies |-> p[s] * r[s].each]

LEMMA ValuedTypes ==
  ASSUME NEW r \in [Strategies -> Amounts], NEW p \in [Strategies -> Nat]
  PROVE  Valued(r) \in [Strategies -> Nat] /\ HeldValued(p, r) \in [Strategies -> Nat]
<1>1. \A s \in Strategies : r[s].qty \in Nat /\ r[s].each \in Nat /\ p[s] \in Nat
  BY DEF Amounts
<1>2. \A a, b \in Nat : a * b \in Nat
  OBVIOUS
<1>3. QED
  BY <1>1, <1>2 DEF Valued, HeldValued

LEMMA TotalIsSum ==
  ASSUME NEW r
  PROVE  \E g : Sums(Valued(r), g, Strategies) /\ Total(r) = g[Strategies]
<1> DEFINE Is(g) == g = [s \in SUBSET Strategies |->
                           IF s = {} THEN 0
                           ELSE r[Chosen(s)].qty * r[Chosen(s)].each + g[s \ {Chosen(s)}]]
<1>1. ASSUME NEW g PROVE Is(g) <=> Sums(Valued(r), g, Strategies)
  <2>1. \A s \in SUBSET Strategies : s # {} =>
          Valued(r)[Chosen(s)] = r[Chosen(s)].qty * r[Chosen(s)].each
    BY DEF Valued, Chosen
  <2>2. QED
    BY <2>1 DEF Sums, SumStep
<1>2. Total(r) = (CHOOSE g : Is(g))[Strategies]
  BY DEF Total, MapThenSumSet, MapThenFoldSet, Chosen
<1>3. \E g : Is(g)
  BY <1>1, SumExists, StrategiesFinite
<1>4. Is(CHOOSE g : Is(g))
  BY <1>3
<1> HIDE DEF Is
<1>5. QED
  BY <1>1, <1>2, <1>4

LEMMA HeldIsSum ==
  ASSUME NEW p, NEW r
  PROVE  \E g : Sums(HeldValued(p, r), g, Strategies) /\ Held(p, r) = g[Strategies]
<1> DEFINE Is(g) == g = [s \in SUBSET Strategies |->
                           IF s = {} THEN 0
                           ELSE p[Chosen(s)] * r[Chosen(s)].each + g[s \ {Chosen(s)}]]
<1>1. ASSUME NEW g PROVE Is(g) <=> Sums(HeldValued(p, r), g, Strategies)
  <2>1. \A s \in SUBSET Strategies : s # {} =>
          HeldValued(p, r)[Chosen(s)] = p[Chosen(s)] * r[Chosen(s)].each
    BY DEF HeldValued, Chosen
  <2>2. QED
    BY <2>1 DEF Sums, SumStep
<1>2. Held(p, r) = (CHOOSE g : Is(g))[Strategies]
  BY DEF Held, MapThenSumSet, MapThenFoldSet, Chosen
<1>3. \E g : Is(g)
  BY <1>1, SumExists, StrategiesFinite
<1>4. Is(CHOOSE g : Is(g))
  BY <1>3
<1> HIDE DEF Is
<1>5. QED
  BY <1>1, <1>2, <1>4

\* Only a's registration changes: so does the total, by no more.
LEMMA TotalGrowth ==
  ASSUME NEW r \in [Strategies -> Amounts], NEW t \in [Strategies -> Amounts],
         NEW a \in Strategies, \A s \in Strategies : s # a => t[s] = r[s]
  PROVE  /\ Total(r) \in Nat /\ Total(t) \in Nat
         /\ Total(t) <= Total(r) + (t[a].qty * t[a].each - r[a].qty * r[a].each)
<1>1. PICK g : Sums(Valued(r), g, Strategies) /\ Total(r) = g[Strategies]
  BY TotalIsSum
<1>2. PICK h : Sums(Valued(t), h, Strategies) /\ Total(t) = h[Strategies]
  BY TotalIsSum
<1>3. Valued(r) \in [Strategies -> Nat] /\ Valued(t) \in [Strategies -> Nat]
  <2>1. [s \in Strategies |-> 0] \in [Strategies -> Nat]
    OBVIOUS
  <2>2. QED
    BY <2>1, ValuedTypes
<1>4. /\ \A s \in Strategies : s # a => Valued(t)[s] = Valued(r)[s]
      /\ Valued(t)[a] = t[a].qty * t[a].each /\ Valued(r)[a] = r[a].qty * r[a].each
  BY DEF Valued
<1>5. \A s \in Strategies : s # a => Valued(t)[s] <= Valued(r)[s]
  BY <1>3, <1>4
<1> HIDE DEF Valued
<1>6. /\ g[Strategies] \in Nat /\ h[Strategies] \in Nat
      /\ h[Strategies] <= g[Strategies] + (Valued(t)[a] - Valued(r)[a])
  BY <1>1, <1>2, <1>3, <1>5, StrategiesFinite, SumGrowth
<1>7. QED
  BY <1>1, <1>2, <1>4, <1>6

\* A strategy that holds no more than it has registered exposes no more.
LEMMA HeldWithinTotal ==
  ASSUME NEW r \in [Strategies -> Amounts], NEW p \in [Strategies -> Nat],
         \A s \in Strategies : p[s] <= r[s].qty
  PROVE  Held(p, r) \in Nat /\ Total(r) \in Nat /\ Held(p, r) <= Total(r)
<1>1. PICK g : Sums(Valued(r), g, Strategies) /\ Total(r) = g[Strategies]
  BY TotalIsSum
<1>2. PICK h : Sums(HeldValued(p, r), h, Strategies) /\ Held(p, r) = h[Strategies]
  BY HeldIsSum
<1>3. Valued(r) \in [Strategies -> Nat] /\ HeldValued(p, r) \in [Strategies -> Nat]
  BY ValuedTypes
<1>4. \A s \in Strategies : HeldValued(p, r)[s] <= Valued(r)[s]
  <2>1. \A s \in Strategies : r[s].qty \in Nat /\ r[s].each \in Nat /\ p[s] \in Nat
    BY DEF Amounts
  <2>2. \A s \in Strategies : p[s] * r[s].each <= r[s].qty * r[s].each
    <3>1. \A i, j, k \in Nat : i <= j => i * k <= j * k
      OBVIOUS
    <3>2. QED
      BY <2>1, <3>1
  <2>3. QED
    BY <2>2 DEF Valued, HeldValued
<1>5. QED
  BY <1>1, <1>2, <1>3, <1>4, StrategiesFinite, SumMonotone

LEMMA OpenRiskIsTotal == OpenRisk = Total(risk) /\ OpenRisk' = Total(risk')
BY DEF OpenRisk, Total, MapThenSumSet, MapThenFoldSet

LEMMA RiskInit == Init => RiskInv
<1> SUFFICES ASSUME Init PROVE RiskInv
  OBVIOUS
<1>1. \A s \in Strategies : risk[s].qty = 0 /\ risk[s].each = 0
  BY DEF Init, NoRisk
<1>2. PricedAsAuthorized
  BY <1>1 DEF PricedAsAuthorized
<1>3. PICK g : Sums(Valued(risk), g, Strategies) /\ Total(risk) = g[Strategies]
  BY TotalIsSum
<1>4. \A s \in Strategies : Valued(risk)[s] = 0
  BY <1>1 DEF Valued
<1>5. Total(risk) = 0
  <2> HIDE DEF Valued
  <2>1. QED
    BY <1>3, <1>4, StrategiesFinite, SumOfZeros
<1>6. QED
  BY <1>2, <1>5, AmountsAssumption, OpenRiskIsTotal DEF RiskInv

LEMMA RiskFillEntry ==
  ASSUME EngineInv, RiskInv, NEW s \in Strategies, FillEntry(s)
  PROVE  RiskInv'
<1>1. PICK q \in 1..order[s].qty :
        /\ order[s].action = "enter" /\ FillArrives(s, q) /\ FillFits(s, q) /\ BookFill(s, q)
        /\ RegisterEntry(s, q)
  BY DEF FillEntry
<1>2. /\ q \in Nat \ {0} /\ risk \in [Strategies -> Amounts]
      /\ auth \in [Strategies -> Amounts]
      /\ risk[s].qty \in Nat /\ risk[s].each \in Nat /\ auth[s].each \in Nat
  BY <1>1, FillSize DEF EngineInv, TypeOK, Amounts
<1> DEFINE r == [qty |-> risk[s].qty + q, each |-> auth[s].each]
<1>3. /\ risk' = [risk EXCEPT ![s] = r]
      /\ auth' = IF q = Rest(order[s]) THEN [auth EXCEPT ![s] = NoAuth] ELSE auth
  BY <1>1 DEF RegisterEntry, AuthAfter
<1>4. r \in Amounts /\ r.qty = risk[s].qty + q /\ r.each = auth[s].each
  BY <1>2 DEF Amounts
<1> HIDE DEF r
<1>5. /\ risk' \in [Strategies -> Amounts] /\ risk'[s] = r
      /\ \A t \in Strategies : t # s => risk'[t] = risk[t]
  BY <1>2, <1>3, <1>4
<1>6. /\ \A t \in Strategies : t # s => auth'[t] = auth[t] /\ order'[t] = order[t]
      /\ Working(order'[s]) => auth'[s] = auth[s]
  BY <1>1, <1>2, <1>3, BookedFacts
<1>7. PricedAsAuthorized'
  BY <1>4, <1>5, <1>6 DEF RiskInv, PricedAsAuthorized
<1>8. r.qty * r.each - risk[s].qty * risk[s].each = q * auth[s].each
  <2>1. (risk[s].qty + q) * auth[s].each = risk[s].qty * auth[s].each + q * auth[s].each
    BY <1>2
  <2>2. risk[s].qty * risk[s].each = risk[s].qty * auth[s].each
    <3>1. CASE risk[s].qty = 0
      BY <1>2, <3>1
    <3>2. CASE risk[s].qty > 0
      <4>1. Working(order[s])
        BY <1>1 DEF FillArrives
      <4>2. QED
        BY <1>1, <3>2, <4>1 DEF RiskInv, PricedAsAuthorized
    <3>3. QED
      BY <1>2, <3>1, <3>2
  <2>3. /\ risk[s].qty * auth[s].each \in Nat /\ q * auth[s].each \in Nat
    BY <1>2
  <2>4. QED
    BY <1>4, <2>1, <2>2, <2>3
<1>9. /\ Total(risk) \in Nat /\ Total(risk') \in Nat
      /\ Total(risk') <= Total(risk) + (r.qty * r.each - risk[s].qty * risk[s].each)
  BY <1>2, <1>5, TotalGrowth
<1>10. OpenRisk = Total(risk) /\ OpenRisk' = Total(risk')
  BY OpenRiskIsTotal
<1>11. Total(risk) + q * auth[s].each <= MaxOpenRisk
  BY <1>1, <1>10 DEF FillFits
<1>12. OpenRisk' <= MaxOpenRisk
  <2>1. q * auth[s].each \in Nat /\ MaxOpenRisk \in Nat
    BY <1>2, AmountsAssumption
  <2>2. QED
    BY <1>8, <1>9, <1>10, <1>11, <2>1
<1>13. QED
  BY <1>7, <1>12 DEF RiskInv

LEMMA RiskFillExit ==
  ASSUME EngineInv, RiskInv, NEW s \in Strategies, FillExit(s)
  PROVE  RiskInv'
<1>1. PICK q \in 1..order[s].qty :
        /\ order[s].action = "exit" /\ FillArrives(s, q) /\ q = position[s] /\ BookFill(s, q)
        /\ risk' = [risk EXCEPT ![s] = Released(s, q)] /\ auth' = auth
  BY DEF FillExit
<1>2. /\ q \in Nat \ {0} /\ risk \in [Strategies -> Amounts] /\ risk[s] \in Amounts
      /\ risk[s].qty \in Nat /\ risk[s].each \in Nat /\ q <= risk[s].qty
  BY <1>1, FillSize DEF EngineInv, TypeOK, Amounts, Sound, Covered
<1>3. /\ Released(s, q) \in Amounts
      /\ Released(s, q).qty * Released(s, q).each <= risk[s].qty * risk[s].each
  <2>1. CASE risk[s].qty = q
    <3>1. Released(s, q) = NoRisk /\ NoRisk.qty = 0 /\ NoRisk.each = 0
      BY <2>1 DEF Released, NoRisk
    <3>2. risk[s].qty * risk[s].each \in Nat
      BY <1>2
    <3>3. QED
      BY <3>1, <3>2, NoRecords
  <2>2. CASE risk[s].qty # q
    <3>1. PICK n \in Nat : n = risk[s].qty - q /\ n <= risk[s].qty
      BY <1>2
    <3>2. Released(s, q) = [risk[s] EXCEPT !.qty = n]
      BY <2>2, <3>1 DEF Released
    <3>3. /\ Released(s, q) \in Amounts /\ Released(s, q).qty = n
          /\ Released(s, q).each = risk[s].each
      BY <1>2, <3>2 DEF Amounts
    <3>4. \A i, j, k \in Nat : i <= j => i * k <= j * k
      OBVIOUS
    <3>5. QED
      BY <1>2, <3>1, <3>3, <3>4
  <2>3. QED
    BY <2>1, <2>2
<1>4. PICK r \in Amounts : r = Released(s, q) /\ r.qty * r.each <= risk[s].qty * risk[s].each
  BY <1>3
<1>5. /\ risk' \in [Strategies -> Amounts] /\ risk'[s] = r
      /\ \A t \in Strategies : t # s => risk'[t] = risk[t]
  BY <1>1, <1>2, <1>4
<1>6. \A t \in Strategies : t # s => order'[t] = order[t]
  BY <1>1, BookedFacts
<1>7. order'[s].action = "exit"
  BY <1>1, BookedFacts
<1>8. PricedAsAuthorized'
  BY <1>1, <1>5, <1>6, <1>7 DEF RiskInv, PricedAsAuthorized
<1>9. /\ Total(risk) \in Nat /\ Total(risk') \in Nat
      /\ Total(risk') <= Total(risk) + (r.qty * r.each - risk[s].qty * risk[s].each)
  BY <1>2, <1>5, TotalGrowth
<1>10. OpenRisk = Total(risk) /\ OpenRisk' = Total(risk')
  BY OpenRiskIsTotal
<1>11. r.qty * r.each \in Nat /\ risk[s].qty * risk[s].each \in Nat /\ MaxOpenRisk \in Nat
  <2>1. r.qty \in Nat /\ r.each \in Nat
    BY DEF Amounts
  <2>2. QED
    BY <1>2, <2>1, AmountsAssumption
<1>12. OpenRisk' <= MaxOpenRisk
  BY <1>4, <1>9, <1>10, <1>11 DEF RiskInv
<1>13. QED
  BY <1>8, <1>12 DEF RiskInv

\* Where risk stays, an entry that works and has registered keeps its
\* authorization.
LEMMA RiskKept ==
  ASSUME RiskInv, UNCHANGED risk,
         \A s \in Strategies : Working(order'[s]) /\ order'[s].action = "enter" /\ risk[s].qty > 0 =>
           Working(order[s]) /\ order[s].action = "enter" /\ auth'[s].each = auth[s].each
  PROVE  RiskInv'
<1>1. PricedAsAuthorized'
  BY DEF RiskInv, PricedAsAuthorized
<1>2. OpenRisk' = OpenRisk
  BY OpenRiskIsTotal
<1>3. QED
  BY <1>1, <1>2 DEF RiskInv

LEMMA RiskStep ==
  ASSUME EngineInv, RiskInv, [Next]_vars
  PROVE  RiskInv'
<1>1. ASSUME UNCHANGED <<order, auth, risk>> PROVE RiskInv'
  BY <1>1, RiskKept
<1>2. ASSUME RefreshPending PROVE RiskInv'
  <2>1. /\ UNCHANGED <<order, risk>>
        /\ \A s \in Strategies : Working(order[s]) => auth'[s] = auth[s]
    BY <1>2 DEF RefreshPending, books, Working
  <2>2. QED
    BY <2>1, RiskKept
<1>3. ASSUME NEW s \in Strategies, Enter(s) PROVE RiskInv'
  <2>1. PICK each \in RiskChoices, price \in {"own", "open"} :
          /\ s \notin Registered /\ Submit(s, "enter", Sized(s, each), price)
          /\ auth' = [auth EXCEPT ![s] = [qty |-> Sized(s, each), each |-> each]]
    BY <1>3 DEF Enter, RiskApproves
  <2>2. risk' = risk
    BY <1>3 DEF Enter, books
  <2>3. \A t \in Strategies : t # s => order'[t] = order[t] /\ auth'[t] = auth[t]
    BY <2>1 DEF Submit, EngineInv, TypeOK
  <2>4. ~(risk[s].qty > 0)
    BY <2>1 DEF Registered
  <2>5. QED
    BY <2>2, <2>3, <2>4, RiskKept
<1>4. ASSUME NEW s \in Strategies, Exit(s) PROVE RiskInv'
  <2>1. PICK price \in {"own", "open"} : Submit(s, "exit", position[s], price)
    BY <1>4 DEF Exit
  <2>2. UNCHANGED <<auth, risk>>
    BY <1>4 DEF Exit, books
  <2>3. order'[s].action = "exit" /\ \A t \in Strategies : t # s => order'[t] = order[t]
    BY <2>1 DEF Submit, EngineInv, TypeOK
  <2>4. QED
    BY <2>2, <2>3, RiskKept
<1>5. ASSUME NEW s \in Strategies, FillExitPartly(s) \/ EntryFillRaises(s) \/ ExitFillRaises(s)
      PROVE  RiskInv'
  <2>1. PICK q \in 1..order[s].qty : FillArrives(s, q) /\ BookFill(s, q)
    BY <1>5 DEF FillExitPartly, EntryFillRaises, ExitFillRaises
  <2>2. UNCHANGED <<auth, risk>>
    BY <1>5 DEF FillExitPartly, EntryFillRaises, ExitFillRaises
  <2>3. Working(order[s])
    BY <2>1 DEF FillArrives
  <2>4. /\ order'[s].action = order[s].action
        /\ \A t \in Strategies : t # s => order'[t] = order[t]
    BY <2>1, BookedFacts
  <2>5. QED
    BY <2>2, <2>3, <2>4, RiskKept
<1>6. ASSUME NEW s \in Strategies, Cancel(s) PROVE RiskInv'
  <2>1. /\ order' = [order EXCEPT ![s].status = "cancelled"] /\ UNCHANGED <<auth, risk>>
    BY <1>6 DEF Cancel, books
  <2>2. ~Working(order'[s]) /\ \A t \in Strategies : t # s => order'[t] = order[t]
    BY <2>1 DEF EngineInv, TypeOK, OrderRecords, Working
  <2>3. QED
    BY <2>1, <2>2, RiskKept
<1>7. ASSUME StartBar PROVE RiskInv'
  <2>1. UNCHANGED <<auth, risk>>
    BY <1>7 DEF StartBar
  <2>2. ASSUME NEW s \in Strategies, Working(order'[s])
        PROVE  Working(order[s]) /\ order'[s].action = order[s].action
    <3>1. order[s] \in OrderRecords
      BY DEF EngineInv, TypeOK
    <3>2. \/ order'[s] = order[s] \/ order'[s] = NoOrder
          \/ order'[s] = [order[s] EXCEPT !.age = "earlier"]
      BY <1>7 DEF StartBar
    <3>3. QED
      BY <2>2, <3>1, <3>2, NoRecords DEF OrderRecords, Working
  <2>3. QED
    BY <2>1, <2>2, RiskKept
<1>8. CASE Progress
  BY <1>1, <1>2, <1>3, <1>4, <1>5, <1>8, RiskFillEntry, RiskFillExit DEF Progress, RoutingDone,
     EndBar, Hold, NotDue, DropOrder, orders, books
<1>9. CASE UNCHANGED vars
  BY <1>1, <1>9 DEF vars, orders, books
<1>10. QED
  BY <1>1, <1>6, <1>7, <1>8, <1>9 DEF Next, BarRefused, Interrupt, Resume, orders, books

\* The contracts really held never carry more risk than the policy allows, nor
\* more positions: the second check at the fill makes good for the first, which
\* was made before other entries filled.
THEOREM ExposureWithinLimitsCorrect == Spec => []ExposureWithinLimits
<1>1. EngineInv /\ RiskInv /\ PositionsWithinLimit => ExposureWithinLimits
  <2>1. SUFFICES ASSUME EngineInv, RiskInv, Running
                 PROVE  MapThenSumSet(LAMBDA s : position[s] * risk[s].each, Strategies)
                          <= MaxOpenRisk
    BY DEF ExposureWithinLimits
  <2>2. /\ risk \in [Strategies -> Amounts] /\ position \in [Strategies -> Nat]
        /\ \A s \in Strategies : position[s] <= risk[s].qty
    BY <2>1 DEF EngineInv, TypeOK, Sound, Covered
  <2>3. /\ Held(position, risk) \in Nat /\ Total(risk) \in Nat
        /\ Held(position, risk) <= Total(risk)
    BY <2>2, HeldWithinTotal
  <2>4. Total(risk) <= MaxOpenRisk /\ MaxOpenRisk \in Nat
    BY <2>1, OpenRiskIsTotal, AmountsAssumption DEF RiskInv
  <2>5. Held(position, risk) <= MaxOpenRisk
    BY <2>3, <2>4
  <2>6. QED
    BY <2>5 DEF Held, MapThenSumSet, MapThenFoldSet
<1>2. QED
  BY EngineInit, EngineStep, RiskInit, RiskStep, PositionsWithinLimitCorrect, <1>1, PTL DEF Spec
=============================================================================
