-------------------------- MODULE FinalizedStream --------------------------
(***************************************************************************)
(* What acquisition promises to delivery: finalized minutes appear one at  *)
(* a time, in exchange order, with no hole that was not reviewed, and a    *)
(* finalized minute never changes or disappears.                           *)
(***************************************************************************)
EXTENDS Integers

CONSTANTS Minutes, Cutoff, ClassifiedGaps, Values, Absent

VARIABLE stream    \* the value of each minute, Absent until it is finalized

Finished == {m \in 1..Minutes : stream[m] # Absent}

Init == stream = [m \in 1..Minutes |-> Absent]

Next ==
  \E m \in 1..Minutes :
    /\ m > Cutoff
    /\ \A f \in Finished : f < m
    /\ \A g \in (Cutoff + 1)..(m - 1) : g \in Finished \union ClassifiedGaps
    /\ \E v \in Values : stream' = [stream EXCEPT ![m] = v]

Spec == Init /\ [][Next]_stream

=============================================================================
