-------------------------- MODULE MC_DeploymentRun --------------------------
(***************************************************************************)
(* How the run of a stage comes to be, for TLC: the dispatch that starts   *)
(* it once (DispatchOutbox) and the signed reviews under which it passes   *)
(* the gate (EvidenceGate).  The two meet only in the run GitHub shows     *)
(* both of them, so a behaviour follows one of them from its initial       *)
(* state.                                                                  *)
(*                                                                         *)
(* Dispatches: one job and interchangeable CLI processes.  The intent is   *)
(* finalized at time 0 and expires at 2; with a claim window of two units  *)
(* a window ends at its full length or is clipped by the expiry, and a     *)
(* reconcile can start inside it, at its end or, within the clock skew,    *)
(* after it.                                                               *)
(***************************************************************************)
EXTENDS MC_EvidenceGate, DispatchOutbox, TLC

MCFinalizedAt == [j \in Jobs |-> 0]
ShortExpiresAt == [j \in Jobs |-> 2]
Symmetry == Permutations(Workers)

RunInit == Init /\ OutboxInit
RunNext ==
  \/ OutboxInit /\ Next /\ UNCHANGED outboxVars
  \/ Init /\ OutboxNext /\ UNCHANGED vars
RunSpec == RunInit /\ [][RunNext]_<<vars, outboxVars>>
=============================================================================
