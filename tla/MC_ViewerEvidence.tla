------------------------- MODULE MC_ViewerEvidence -------------------------
(* Two attempts of the browser run, one termination case, two activations. *)
EXTENDS ViewerEvidence

CONSTANTS p1, p2, c1

MCPilots == <<p1, p2>>
MCCases == {c1}
=============================================================================
