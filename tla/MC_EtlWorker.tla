---------------------------- MODULE MC_EtlWorker ----------------------------
(***************************************************************************)
(* Two tables and two processes for the same run.                          *)
(***************************************************************************)
EXTENDS EtlWorker, TLC

CONSTANTS t1, t2

MCManifest == <<t1, t2>>
Symmetry == Permutations(Workers)
MCRows == (t1 :> {1, 2}) @@ (t2 :> {1})
=============================================================================
