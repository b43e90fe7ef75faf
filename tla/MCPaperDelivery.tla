--------------------------- MODULE MCPaperDelivery ---------------------------
(* Instances of PaperDelivery for TLC: the constants are set in the .cfg.   *)
EXTENDS PaperDelivery
=============================================================================
