-------------------------- MODULE PaperEngineClaims --------------------------
(***************************************************************************)
(* What a comment says of the risk limits and the code does not do,        *)
(* refuted by a run.                                                       *)
(***************************************************************************)
EXTENDS MCPaperEngine

\* src/risk/types.py:14 calls RiskLimits "Hard risk limits used by the
\* live/paper risk engine".  Entries of one bar are all evaluated before the
\* first of them is filled, and a fill does not check the daily count again.
DailyTradesWithinLimit == trades <= MaxDailyTrades
=============================================================================
