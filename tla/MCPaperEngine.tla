---------------------------- MODULE MCPaperEngine ----------------------------
(***************************************************************************)
(* An instance of PaperEngine for TLC: a mean-reversion strategy, and ORB, *)
(* which may force one contract, with room for two positions and risk that *)
(* two entries of one bar compete for.  MRS2 stands for MRL1 and S2R too,  *)
(* which differ from it in their signals only.                             *)
(***************************************************************************)
EXTENDS PaperEngine

MCTwo == <<"MRS2", "ORB">>
MCOutcomes == {-2, 1}
=============================================================================
