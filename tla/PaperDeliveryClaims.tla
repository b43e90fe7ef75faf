------------------------- MODULE PaperDeliveryClaims -------------------------
(* What the documentation says of the exit checkpoint and the code does not *)
(* do, refuted by a run.                                                    *)
EXTENDS PaperDelivery

\* The final checkpoint is that of the last fully processed bar, also when the
\* exit is caused by an exception inside process_bar.
ExitCheckpointIsWhole ==
  primary.valid => /\ primary.engine.context = [i \in 1..primary.last |-> i]
                   /\ primary.engine.clock = primary.last
=============================================================================
