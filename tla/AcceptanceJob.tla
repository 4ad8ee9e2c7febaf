--------------------------- MODULE AcceptanceJob ---------------------------
(***************************************************************************)
(* The frame of one acceptance job of scripts/faz24: a sequential driver   *)
(* (job) that calls a system it does not control (env) over HTTP, kubectl, *)
(* ssh or a socket, while that system goes on changing.  lane names the    *)
(* job; a job works on a session, a pod or a host of its own, so a         *)
(* behaviour follows one job from its start to its verdict.                *)
(***************************************************************************)
VARIABLES lane, env, job

jobVars == <<lane, env, job>>

(* The driver of lane l is at step pc. *)
At(l, pc) == lane = l /\ job.pc = pc

(* The system of lane l may still move: its job has given no verdict. *)
Live(l) == lane = l /\ job.pc # "done"

Step(e, j) == env' = e /\ job' = j /\ UNCHANGED lane

(* A job ends once, with a verdict that no step takes back. *)
Ends(j, v) == [j EXCEPT !.pc = "done", !.verdict = v]
=============================================================================
