-------------------------- MODULE MC_StageRegistry --------------------------
(***************************************************************************)
(* One signed intent and three claims, in time units in which the outcome  *)
(* wait is two and the rollback headroom one.  The grant lives four units, *)
(* so that a lease can end early (clipped by the headroom), end at its     *)
(* full length, and outlive nothing but the last tick past the expiry.     *)
(***************************************************************************)
EXTENDS StageRegistry, TLC

MCExpiresAt == [r \in Requests |-> 4]
Symmetry == Permutations(Claims)
=============================================================================
