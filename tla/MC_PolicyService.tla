-------------------------- MODULE MC_PolicyService --------------------------
(***************************************************************************)
(* One signed intent with the lifetime and the leases of MC_StageRegistry. *)
(* A run is named after its stage.                                         *)
(***************************************************************************)
EXTENDS PolicyService

ShortExpiresAt == [r \in Requests |-> 2]
HourExpiresAt == [r \in Requests |-> 12]
ApplyOnly == {"apply"}
ApplyAndRollback == {"apply", "compensating-rollback"}
=============================================================================
