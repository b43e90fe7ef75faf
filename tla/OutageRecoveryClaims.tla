------------------------- MODULE OutageRecoveryClaims -------------------------
(***************************************************************************)
(* What a comment says of the end of a backfill and the code does not do,  *)
(* refuted by a run.                                                       *)
(***************************************************************************)
EXTENDS MCOutageRecovery

\* Minutes pass only while TWS is down: cycles are fast, outages are long.
LongOutages == Init /\ [][Next /\ (frontier' # frontier => ~tws)]_vars

\* "The acquisition cursor has reached the current safe delayed frontier.
\* Future cycles use rolling recent discovery."
\* (src/paper/ibkr_paper_runner.py:447-448): when a cycle on a working link
\* leaves the backfill for the discovery, every minute older than the reach of
\* the discovery was received.  The target of a backfill stays where the first
\* discovery put it, also when the link is lost a second time meanwhile.
DiscoveryTakesOver == complete /\ feed = "discover" /\ socket => ~Unreachable
=============================================================================
