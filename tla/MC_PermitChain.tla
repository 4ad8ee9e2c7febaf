----------------------------- MODULE MC_PermitChain -----------------------------
(* Instance of the permit chain for TLC. *)
EXTENDS PermitChain, TLC

CONSTANTS e1, g1, g2, k1

MCEvents == {e1}
MCSigners == {g1, g2}
MCTokens == {k1}
Symmetry == Permutations(MCSigners)
================================================================================
