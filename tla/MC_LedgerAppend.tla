---------------------------- MODULE MC_LedgerAppend ----------------------------
(* Instance of the ledger's write path for TLC. *)
EXTENDS LedgerAppend, TLC

CONSTANTS r1, r2, e1, i1, i2, i3, u1, u2

MCRetriers == {r1, r2}
MCOneRetrier == {r1}
MCEmitters == {e1}
MCIntents == {i1, i2}
MCThreeIntents == {i1, i2, i3}
MCFresh == {u1, u2}
MCOneFresh == {u1}
Symmetry == Permutations(MCRetriers) \cup Permutations(MCIntents)
================================================================================
