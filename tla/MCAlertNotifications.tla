------------------------- MODULE MCAlertNotifications -------------------------
(* An instance of AlertNotifications for TLC: one condition, and incidents of
   which the first has its alert_id. *)
EXTENDS AlertNotifications

CONSTANTS c1, a2, none

MCConditions == {c1}
MCAlerts == {c1, a2}
MCAlertOf == [i \in 1..MaxIncidents |-> IF i = 1 THEN c1 ELSE a2]
=============================================================================
