------------------------- MODULE MCSupervisedRecovery -------------------------
(* Supervisors and workers are interchangeable.                            *)
EXTENDS SupervisedRecovery, TLC

MCSymmetry == Permutations(Supervisors) \union Permutations(Workers)
=============================================================================
