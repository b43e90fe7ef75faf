------------------------- MODULE ExactlyOnceDelivery -------------------------
(***************************************************************************)
(* What the delivery of finalized minutes promises, without threads,       *)
(* files or crashes: minutes become available in order, each is applied    *)
(* exactly once and in order, and it is acknowledged only after it was     *)
(* applied.  Nothing is ever undone.                                       *)
(***************************************************************************)
EXTENDS Integers, Sequences

CONSTANT Minutes

VARIABLES
  available,  \* finalized minutes
  applied,    \* the minutes a restarted engine would contain, in order
  acked       \* acknowledged minutes

Init == available = {} /\ applied = <<>> /\ acked = {}

\* The next minute becomes available.
Finalize ==
  /\ \E m \in 1..Minutes \ available :
       /\ 1..(m - 1) \subseteq available
       /\ available' = available \union {m}
  /\ UNCHANGED <<applied, acked>>

\* The next minute is applied, durably.
Apply ==
  /\ Len(applied) + 1 \in available
  /\ applied' = Append(applied, Len(applied) + 1)
  /\ UNCHANGED <<available, acked>>

\* An applied minute is acknowledged, in order.
Acknowledge ==
  /\ \E m \in 1..Len(applied) \ acked :
       /\ 1..(m - 1) \subseteq acked
       /\ acked' = acked \union {m}
  /\ UNCHANGED <<available, applied>>

Next == Finalize \/ Apply \/ Acknowledge

Spec == Init /\ [][Next]_<<available, applied, acked>>

=============================================================================
