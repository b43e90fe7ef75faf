--------------------------- MODULE MCOutageRecovery ---------------------------
(* One closed minute in the middle of the minutes published.               *)
EXTENDS OutageRecovery

MCClosed == {3}
=============================================================================
