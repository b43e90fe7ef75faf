---------------------- MODULE DelayedAcquisitionClaims ----------------------
(* What the documentation of acquisition says and the code does not do,     *)
(* refuted by a run.                                                        *)
EXTENDS DelayedAcquisition

\* The finalization gate of REALTIME_PAPER.md:300-308: a minute that is old
\* enough and was observed twice unchanged is held back only by a gap before
\* it.  The minute right after the delivery point has none, so the response
\* that makes it ready delivers it.
GateIsSufficient ==
  phase = "finalize" =>
    \A m \in Pending :
      m = delivered + 1 /\ Ready(m, response.at) => Deliverable(m, response.at)

=============================================================================
