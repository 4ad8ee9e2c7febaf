----------------------------- MODULE MC_ClaimLedger -----------------------------
(* Instance of the claim ledger for TLC. *)
EXTENDS ClaimLedger, TLC

CONSTANTS s1, s2, p1, p2

MCSessions == {s1, s2}
MCPlanners == {p1, p2}
Symmetry == Permutations(MCSessions) \cup Permutations(MCPlanners)
================================================================================
