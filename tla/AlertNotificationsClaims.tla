----------------------- MODULE AlertNotificationsClaims -----------------------
(* What a comment says of alerts and the code does not do. *)
EXTENDS MCAlertNotifications

\* monitoring_alerts.py:563: "Advance only after incident records have been durably
\* journaled."  The end of a reading lies behind a torn last row as soon as a whole
\* row came before it; the rest of that row cannot be read by any later poll.
Entered(i) == i <= saved.offset + (IF saved.cut THEN 1 ELSE 0)
AdvancesAfterJournalling ==
  \A i \in Incidents : i <= incidents /\ Entered(i) => i \in saved.ids
=============================================================================
