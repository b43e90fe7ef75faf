----------------------------- MODULE PaperEngine -----------------------------
(***************************************************************************)
(* The Paper trading engine: from a strategy's decision to a filled        *)
(* position, across the seven books that must agree about it.              *)
(*                                                                         *)
(* One bar is processed in phases: orders of earlier bars fill at the      *)
(* open, cancelled orders are dropped, every strategy decides in turn      *)
(* (risk, conflict, execution, broker), and orders that carry a price of   *)
(* their own fill at the close.  An exception may end the bar anywhere;    *)
(* the service then saves what is there and a later process resumes from   *)
(* it when the pending orders pass validation.                             *)
(*                                                                         *)
(* Sources: src/paper/engine.py, src/risk/engine.py,                       *)
(* src/portfolio/conflict.py, src/portfolio/broker_execution.py,           *)
(* src/broker/adapter.py, src/execution/engine.py and the engine part of   *)
(* src/paper/realtime_checkpoint.py.                                       *)
(*                                                                         *)
(* Money is counted in units; prices appear only as the risk one contract  *)
(* carries and the result a closed position brings.  Sides are left out:   *)
(* an exit always takes the side opposite to its position.                 *)
(***************************************************************************)
EXTENDS Integers, Sequences, FiniteSetsExt

CONSTANTS
  Order,              \* the strategies, in the order the engine asks them
  Adaptive,           \* the strategy that may force one contract (ORB)
  Modes,              \* who delivers fills: "simulated", "external"
  RiskChoices,        \* risk per contract a decision may carry (bound)
  Outcomes,           \* result of a closed position (bound)
  RiskPerTrade, SingleContractCap, MaxContracts,
  MaxOpenRisk, MaxConcurrent, MaxDailyTrades, MaxDailyLoss

Strategies == {Order[i] : i \in 1..Len(Order)}

ASSUME OrderAssumption ==
  /\ Order \in Seq(STRING)
  /\ \A i, j \in 1..Len(Order) : Order[i] = Order[j] => i = j
ASSUME ModesAssumption == Modes \subseteq {"simulated", "external"}
ASSUME AmountsAssumption ==
  /\ RiskChoices \subseteq Nat \ {0} /\ Outcomes \subseteq Int
  /\ RiskPerTrade \in Nat \ {0} /\ SingleContractCap \in Nat \ {0}
  /\ MaxContracts \in Nat \ {0} /\ MaxOpenRisk \in Nat \ {0}
  /\ MaxConcurrent \in Nat \ {0} /\ MaxDailyTrades \in Nat \ {0}
  /\ MaxDailyLoss \in Nat \ {0}

VARIABLES
  mode,      \* _automatic_simulated_fills, fixed at construction
  phase,     \* where process_bar is: idle, open, route, close; failed
  turn,      \* position in Order the phase has reached
  accepted,  \* the causal streams have taken the bar in hand or to come
  order,     \* each strategy's last order, as the broker knows it
  pending,   \* _pending_strategy_orders
  simulated, \* _simulated_orders
  auth,      \* _pending_risk_results and _pending_entry_requests
  orphans,   \* strategies with an authorization of an order before the last
  position,  \* open contracts (execution engine and broker)
  risk,      \* RiskEngine._open_positions
  slots,     \* PortfolioConflictEngine._positions
  trade,     \* strategies that hold a trade state of their own
  newly,     \* _newly_filled_strategies
  entered,   \* history: entries filled since the last bar was taken
  trades,    \* RiskEngine._daily_trade_count
  pnl,       \* RiskEngine._daily_realized_pnl
  torn       \* strategies whose exit fill an exception interrupted

orders == <<order, pending, simulated, auth, orphans>>
books == <<position, risk, slots, trade, newly, entered, trades, pnl>>
vars == <<mode, phase, turn, accepted, orders, books, torn>>

-----------------------------------------------------------------------------
(* Orders, authorizations and registered risk.                             *)

NoOrder == [action |-> "none", qty |-> 0, filled |-> 0, status |-> "none",
            price |-> "open", age |-> "earlier"]
NoAuth == [qty |-> 0, each |-> 0]
NoRisk == [qty |-> 0, each |-> 0]

Working(o) == o.status \in {"submitted", "partial"}
Rest(o) == o.qty - o.filled

Registered == {s \in Strategies : risk[s].qty > 0}
OpenRisk == MapThenSumSet(LAMBDA s : risk[s].qty * risk[s].each, Strategies)

-----------------------------------------------------------------------------
(* Risk and conflict, before and after the trade.                          *)

\* Contracts a decision is sized to: the budget in whole contracts up to the
\* ceiling, or one contract for a strategy with a cap of its own.
Least(a, b) == IF a < b THEN a ELSE b
Sized(s, each) ==
  IF s = Adaptive /\ each > RiskPerTrade /\ each <= SingleContractCap THEN 1
  ELSE Least(RiskPerTrade \div each, MaxContracts)

\* RiskEngine.evaluate: only positions that are already registered count.
RiskApproves(s, each) ==
  /\ pnl > -MaxDailyLoss
  /\ s \notin Registered
  /\ Cardinality(Registered) < MaxConcurrent
  /\ trades < MaxDailyTrades
  /\ Sized(s, each) > 0
  /\ OpenRisk + Sized(s, each) * each <= MaxOpenRisk

\* PortfolioConflictEngine.evaluate.
ConflictApproves(s) == s \notin slots /\ Cardinality(slots) < MaxConcurrent

\* Mutant: the authorization alone decides.
FillFitsAuthorization(s, q) == risk[s].qty + q <= auth[s].qty

\* What RiskEngine.register_entry_fill requires of a fill of q contracts.
FillFits(s, q) ==
  /\ s \in Registered \/ Cardinality(Registered) < MaxConcurrent
  /\ OpenRisk + q * auth[s].each <= MaxOpenRisk
  /\ risk[s].qty + q <= auth[s].qty

-----------------------------------------------------------------------------
(* Initial state and the phases of a bar.                                  *)

Init ==
  /\ mode \in Modes
  /\ phase = "idle" /\ turn = 1 /\ accepted = FALSE
  /\ order = [s \in Strategies |-> NoOrder]
  /\ pending = {} /\ simulated = {} /\ orphans = {}
  /\ auth = [s \in Strategies |-> NoAuth]
  /\ position = [s \in Strategies |-> 0]
  /\ risk = [s \in Strategies |-> NoRisk]
  /\ slots = {} /\ trade = {} /\ newly = {} /\ entered = {}
  /\ trades = 0 /\ pnl = 0
  /\ torn = {}

\* Mutant: the streams take a minute twice.
StreamsTakeAgain == TRUE

\* The causal streams refuse a minute that is not later than their last.
StreamsAccept == ~accepted

\* A bar begins, on a new trading day or on the same.  Pending orders are now of
\* an earlier timestamp, and settled ones are never read again.  The history
\* forgets a fill only when a later bar is taken, whatever becomes of newly.
StartBar ==
  /\ phase = "idle" /\ StreamsAccept
  /\ \E newDay \in BOOLEAN :
       /\ trades' = IF newDay THEN 0 ELSE trades
       /\ pnl' = IF newDay THEN 0 ELSE pnl
  /\ order' = [s \in Strategies |->
                 IF s \in pending THEN [order[s] EXCEPT !.age = "earlier"]
                 ELSE NoOrder]
  /\ newly' = {}
  /\ entered' = IF accepted THEN entered ELSE {}
  /\ phase' = "open" /\ turn' = 1 /\ accepted' = TRUE
  /\ UNCHANGED <<mode, pending, simulated, auth, orphans, position, risk,
                 slots, trade, torn>>

\* A bar that failed after the streams took it is delivered again: they raise
\* before the engine touches a book.
BarRefused ==
  /\ phase = "idle" /\ ~StreamsAccept
  /\ phase' = "failed"
  /\ UNCHANGED <<mode, turn, accepted, orders, books, torn>>

\* The strategy whose turn it is in the given phase.
AtTurn(s, where) ==
  phase = where /\ turn <= Len(Order) /\ s = Order[turn]
NextTurn == turn' = turn + 1 /\ UNCHANGED <<mode, phase, accepted>>
\* A bar that is done is not the bar to come.
PhaseEnds(where, next) ==
  /\ phase = where /\ turn > Len(Order)
  /\ phase' = next /\ turn' = 1
  /\ accepted' = (accepted /\ next # "idle")
  /\ UNCHANGED mode

\* _refresh_pending_orders, after the fills at the open.
RefreshPending ==
  LET gone == {s \in pending : order[s].status = "cancelled"}
  IN /\ PhaseEnds("open", "route")
     /\ pending' = pending \ gone
     /\ simulated' = simulated \ gone
     /\ auth' = [s \in Strategies |-> IF s \in gone THEN NoAuth ELSE auth[s]]
     /\ UNCHANGED <<order, orphans, books, torn>>

RoutingDone == PhaseEnds("route", "close") /\ UNCHANGED <<orders, books, torn>>

EndBar ==
  /\ PhaseEnds("close", "idle")
  /\ newly' = {}
  /\ UNCHANGED <<orders, position, risk, slots, trade, entered, trades, pnl, torn>>

-----------------------------------------------------------------------------
(* Decisions.                                                              *)

\* Mutant: a position may be closed in the bar that opened it.
DecidesAtOnce(s) == s \notin pending

\* Only a strategy without pending order, whose position (if any) was not
\* filled in this bar, gets to decide.
Decides(s) == s \notin pending /\ ~(s \in newly /\ position[s] > 0)

\* ExecutionEngine._register_intent refuses a second order of one kind for the
\* same timestamp.
FreshIntent(s, action) ==
  ~(order[s].age = "this" /\ order[s].action = action)

\* Coordinator and engine take a new order; simulated fills remember it.
Submit(s, action, qty, price) ==
  /\ order' = [order EXCEPT ![s] =
                 [action |-> action, qty |-> qty, filled |-> 0,
                  status |-> "submitted", price |-> price, age |-> "this"]]
  /\ pending' = pending \union {s}
  /\ simulated' = IF mode = "simulated" THEN simulated \union {s} ELSE simulated

\* ENTER approved by risk and conflict.  An authorization that an earlier,
\* dropped order left behind stays under that order's identity.
Enter(s) ==
  /\ AtTurn(s, "route")
  /\ Decides(s) /\ position[s] = 0 /\ FreshIntent(s, "enter")
  /\ \E each \in RiskChoices, price \in {"own", "open"} :
       /\ RiskApproves(s, each) /\ ConflictApproves(s)
       /\ Submit(s, "enter", Sized(s, each), price)
       /\ auth' = [auth EXCEPT ![s] = [qty |-> Sized(s, each), each |-> each]]
       /\ orphans' = IF auth[s] = NoAuth THEN orphans ELSE orphans \union {s}
  /\ NextTurn
  /\ UNCHANGED <<books, torn>>

\* EXIT of the whole open position.
Exit(s) ==
  /\ AtTurn(s, "route")
  /\ Decides(s) /\ position[s] > 0 /\ FreshIntent(s, "exit")
  /\ \E price \in {"own", "open"} : Submit(s, "exit", position[s], price)
  /\ NextTurn
  /\ UNCHANGED <<auth, orphans, books, torn>>

\* HOLD, forced or chosen, and an ENTER that risk or conflict rejects.
Hold(s) ==
  /\ AtTurn(s, "route")
  /\ NextTurn
  /\ UNCHANGED <<orders, books, torn>>

-----------------------------------------------------------------------------
(* Fills.                                                                  *)

\* Mutant: an order at the open waits for a bar with its own timestamp.
DueAtOwnOpen(s) ==
  /\ s \in simulated
  /\ \/ phase = "open" /\ order[s].price = "open" /\ order[s].age = "this"
     \/ phase = "close" /\ order[s].price = "own" /\ order[s].age = "this"

\* _advance_simulated_fills: an order without a price of its own fills at the
\* open of a later bar, the others at the end of the bar that submitted them.
Due(s) ==
  /\ s \in simulated
  /\ \/ phase = "open" /\ order[s].price = "open" /\ order[s].age = "earlier"
     \/ phase = "close" /\ order[s].price = "own" /\ order[s].age = "this"
AtFill(s) == AtTurn(s, "open") \/ AtTurn(s, "close")

NotDue(s) ==
  /\ AtFill(s) /\ ~Due(s)
  /\ NextTurn
  /\ UNCHANGED <<orders, books, torn>>

\* A due order that is no longer working is dropped; its authorization stays.
DropOrder(s) ==
  /\ AtFill(s) /\ Due(s) /\ ~Working(order[s])
  /\ simulated' = simulated \ {s}
  /\ pending' = pending \ {s}
  /\ NextTurn
  /\ UNCHANGED <<order, auth, orphans, books, torn>>

\* A fill of q contracts arrives: simulated fills take the whole order, fills
\* handed in from outside between two bars any part of what is left.
FillArrives(s, q) ==
  /\ Working(order[s])
  /\ \/ AtFill(s) /\ Due(s) /\ q = order[s].qty
     \/ mode = "external" /\ phase = "idle" /\ q \in 1..Rest(order[s])
AfterFill ==
  /\ IF phase = "idle" THEN turn' = turn ELSE turn' = turn + 1
  /\ UNCHANGED <<mode, phase, accepted>>

\* Broker and execution engine book the fill; a complete order is settled.
BookFill(s, q) ==
  LET done == q = Rest(order[s])
  IN /\ order' = [order EXCEPT
                    ![s].filled = @ + q,
                    ![s].status = IF done THEN "filled" ELSE "partial"]
     /\ pending' = IF done THEN pending \ {s} ELSE pending
     /\ simulated' = IF done THEN simulated \ {s} ELSE simulated

\* Mutant: the first fill, partial or not, uses the authorization up.
AuthUsedUp(s, q) == [auth EXCEPT ![s] = NoAuth]

\* The authorization lives as long as something is left of its order.
AuthAfter(s, q) == IF q = Rest(order[s]) THEN [auth EXCEPT ![s] = NoAuth] ELSE auth

\* Entry: the strategy learns of the fill, then risk and conflict register it.
RegisterEntry(s, q) ==
  /\ risk' = [risk EXCEPT ![s] = [qty |-> @.qty + q, each |-> auth[s].each]]
  /\ slots' = IF position[s] = 0 THEN slots \union {s} ELSE slots
  /\ trades' = IF s \in Registered THEN trades ELSE trades + 1
  /\ auth' = AuthAfter(s, q)

FillEntry(s) ==
  \E q \in 1..order[s].qty :
    /\ order[s].action = "enter" /\ FillArrives(s, q) /\ FillFits(s, q)
    /\ BookFill(s, q)
    /\ position' = [position EXCEPT ![s] = @ + q]
    /\ trade' = trade \union {s} /\ newly' = newly \union {s}
    /\ entered' = entered \union {s}
    /\ RegisterEntry(s, q)
    /\ AfterFill
    /\ UNCHANGED <<orphans, pnl, torn>>

\* Exit in parts: everything after the booking is skipped while a position
\* remains.
FillExitPartly(s) ==
  \E q \in 1..order[s].qty :
    /\ order[s].action = "exit" /\ FillArrives(s, q) /\ q < position[s]
    /\ BookFill(s, q)
    /\ position' = [position EXCEPT ![s] = @ - q]
    /\ AfterFill
    /\ UNCHANGED <<auth, orphans, risk, slots, trade, newly, entered, trades, pnl, torn>>

\* Mutants: the fill and the completed order both release; what is still open
\* after the fill is released.
ReleasedTwice(s, q) == [risk[s] EXCEPT !.qty = @ - q - order[s].qty]
ReleasedAfter(s, q) == risk[s]

\* register_exit_fill of q contracts.
Released(s, q) ==
  IF risk[s].qty = q THEN NoRisk ELSE [risk[s] EXCEPT !.qty = @ - q]

\* The fill that closes the position releases the contracts that were open
\* just before it, the conflict slot and the strategy's own trade.
FillExit(s) ==
  \E q \in 1..order[s].qty :
    /\ order[s].action = "exit" /\ FillArrives(s, q) /\ q = position[s]
    /\ BookFill(s, q)
    /\ position' = [position EXCEPT ![s] = 0]
    /\ risk' = [risk EXCEPT ![s] = Released(s, q)]
    /\ \E result \in Outcomes : pnl' = IF risk[s].qty = q THEN pnl + result ELSE pnl
    /\ slots' = slots \ {s}
    /\ trade' = trade \ {s}
    /\ AfterFill
    /\ UNCHANGED <<auth, orphans, newly, entered, trades, torn>>

-----------------------------------------------------------------------------
(* Exceptions, cancellation and resumption.                                *)

\* The process ends on the exception: the service does, and of whoever hands in
\* fills from outside it is assumed.
Fails == phase' = "failed" /\ turn' = 1 /\ UNCHANGED mode

\* An exception between two of the steps above, in a strategy or a log; or between
\* two bars, in the context before or after its streams took the bar, or in what
\* the service does once the engine is done with it.
Interrupt ==
  /\ phase # "failed"
  /\ Fails
  /\ accepted' \in {accepted, TRUE}
  /\ UNCHANGED <<orders, books, torn>>

\* An entry fill that is booked but not registered: risk refuses it because
\* other entries filled since the authorization, or the log or the strategy
\* raises before.
EntryFillRaises(s) ==
  \E q \in 1..order[s].qty, told \in BOOLEAN :
    /\ order[s].action = "enter" /\ FillArrives(s, q)
    /\ ~FillFits(s, q) => told
    /\ BookFill(s, q)
    /\ position' = [position EXCEPT ![s] = @ + q]
    /\ trade' = IF told THEN trade \union {s} ELSE trade
    /\ newly' = IF told THEN newly \union {s} ELSE newly
    /\ entered' = entered \union {s}
    /\ Fails
    /\ UNCHANGED <<accepted, auth, orphans, risk, slots, trades, pnl, torn>>

\* The log of a closed position raises before risk, slot and trade are released.
ExitFillRaises(s) ==
  \E q \in 1..order[s].qty :
    /\ order[s].action = "exit" /\ FillArrives(s, q) /\ q = position[s]
    /\ BookFill(s, q)
    /\ position' = [position EXCEPT ![s] = 0]
    /\ torn' = torn \union {s}
    /\ Fails
    /\ UNCHANGED <<accepted, auth, orphans, risk, slots, trade, newly, entered,
                   trades, pnl>>

\* BrokerExecutionCoordinator.cancel, between two bars.
Cancel(s) ==
  /\ phase = "idle" /\ Working(order[s])
  /\ order' = [order EXCEPT ![s].status = "cancelled"]
  /\ UNCHANGED <<mode, phase, turn, accepted, pending, simulated, auth, orphans,
                 books, torn>>

\* Mutant: authorizations without a pending order are accepted.
ResumableAnyhow == \A s \in Strategies : s \in simulated => s \in pending

\* _validate_pending_execution.
Resumable ==
  /\ orphans = {}
  /\ \A s \in Strategies :
       /\ auth[s] # NoAuth => s \in pending /\ order[s].action = "enter"
       /\ s \in simulated => s \in pending

\* A new process restores the exit checkpoint; the bar is delivered again.  Only
\* the realtime service checkpoints, and it runs with simulated fills.
Resume ==
  /\ phase = "failed" /\ mode = "simulated" /\ Resumable
  /\ phase' = "idle"
  /\ UNCHANGED <<mode, turn, accepted, orders, books, torn>>

Progress ==
  \/ RefreshPending \/ RoutingDone \/ EndBar
  \/ \E s \in Strategies :
       \/ Enter(s) \/ Exit(s) \/ Hold(s) \/ NotDue(s) \/ DropOrder(s)
       \/ FillEntry(s) \/ FillExitPartly(s) \/ FillExit(s)
       \/ EntryFillRaises(s) \/ ExitFillRaises(s)

Next ==
  \/ StartBar \/ BarRefused \/ Progress \/ Interrupt \/ Resume
  \/ \E s \in Strategies : Cancel(s)

Spec == Init /\ [][Next]_vars

\* Bars keep arriving and the engine finishes what it began.
FairSpec == Spec /\ WF_vars(StartBar \/ BarRefused) /\ WF_vars(Progress)

-----------------------------------------------------------------------------
(* Properties.                                                             *)

OrderRecords ==
  [action : {"none", "enter", "exit"}, qty : Nat, filled : Nat,
   status : {"none", "submitted", "partial", "filled", "cancelled"},
   price : {"own", "open"}, age : {"this", "earlier"}]
Amounts == [qty : Nat, each : Nat]

TypeOK ==
  /\ mode \in Modes
  /\ phase \in {"idle", "open", "route", "close", "failed"}
  /\ turn \in Nat \ {0} /\ accepted \in BOOLEAN
  /\ order \in [Strategies -> OrderRecords]
  /\ pending \subseteq Strategies /\ simulated \subseteq Strategies
  /\ auth \in [Strategies -> Amounts] /\ risk \in [Strategies -> Amounts]
  /\ orphans \subseteq Strategies /\ torn \subseteq Strategies
  /\ position \in [Strategies -> Nat]
  /\ slots \subseteq Strategies /\ trade \subseteq Strategies
  /\ newly \subseteq Strategies /\ entered \subseteq Strategies
  /\ trades \in Nat /\ pnl \in Int

Running == phase # "failed"

\* No contract is held that risk, the conflict slots and the strategy do not
\* know of: also after a resumption, since a half-applied entry never resumes.
RiskCoversExposure ==
  Running => \A s \in Strategies :
    /\ position[s] <= risk[s].qty
    /\ position[s] > 0 => s \in slots /\ s \in trade

\* With simulated fills all books agree exactly, except about a strategy whose
\* exit fill was interrupted: nothing is held back when a position is gone.
BooksAgree ==
  Running /\ mode = "simulated" => \A s \in Strategies \ torn :
    /\ risk[s].qty = position[s]
    /\ s \in slots <=> position[s] > 0
    /\ s \in trade <=> position[s] > 0

\* The strategies that hold contracts stay within the number of positions of the
\* policy, although an entry is only counted once it is filled.
PositionsWithinLimit ==
  Running => Cardinality({s \in Strategies : position[s] > 0}) <= MaxConcurrent

\* The contracts really held stay within the number of positions and the risk
\* of the policy, although risk is evaluated before earlier orders are filled.
ExposureWithinLimits ==
  /\ PositionsWithinLimit
  /\ Running =>
       MapThenSumSet(LAMBDA s : position[s] * risk[s].each, Strategies)
         <= MaxOpenRisk

\* What a pending entry may still add to the position is exactly what is left
\* of its authorization, through partial fills, cancellations and resumptions.
PendingEntryIsAuthorized ==
  Running => \A s \in Strategies :
    Working(order[s]) /\ order[s].action = "enter" =>
      /\ s \in pending
      /\ auth[s].qty = position[s] + Rest(order[s])

\* No fill, whole or interrupted, closes a position before a bar later than the
\* one that opened it is taken: told from the history of entry fills, which a
\* failure, a resumption and the redelivery of the bar all leave standing.
EntryBarIsNotManaged ==
  [][\A s \in entered : s \in entered' => position'[s] > 0]_vars

\* With simulated fills an order is settled or dropped within the next bars, or
\* the engine stops on an exception: no strategy is left waiting for an order.
OrdersSettle ==
  \A s \in Strategies :
    mode = "simulated" /\ s \in pending ~> s \notin pending \/ ~Running
=============================================================================
