------------------------ MODULE MCDelayedAcquisition ------------------------
(* Instances of DelayedAcquisition for TLC: the constants are in the .cfg.  *)
EXTENDS DelayedAcquisition
=============================================================================
