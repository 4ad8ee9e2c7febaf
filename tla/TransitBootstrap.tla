-------------------------- MODULE TransitBootstrap --------------------------
(***************************************************************************)
(* bootstrap_cross_ai_transit.py: the owner's run that prepares the Vault  *)
(* Transit mount of the deployment evidence.  It creates what is missing,  *)
(* removes the authority of the decommissioned provider, installs the      *)
(* reconciler policy of the checkout and writes a receipt of what it read  *)
(* back.  Every request may fail with or without effect, after which the   *)
(* owner runs it again; another root holder may work on the same Vault.    *)
(***************************************************************************)
EXTENDS AcceptanceJob, Naturals, Sequences, SequencesExt

CONSTANTS MaxTransitFaults, MaxTransitRuns, MaxKeyVersion   \* bounds

(* Two of the five KEY_NAMES, in their order. *)
KeyOrder == <<"anthropic", "coordinator">>
TransitKeys == ToSet(KeyOrder)

(* A key is its latest version, 0 for none; policy is the revision of the
   installed reconciler policy, 0 for none.  disturbed: what the other root
   holder changed after this run last read it. *)
TransitInit ==
  /\ lane = "transit"
  /\ \E cluster \in {"test", "other"}, mount \in {"none", "transit", "kv"}, active, unsafe \in BOOLEAN :
       env = [cluster |-> cluster, active |-> active, mount |-> mount,
              keys |-> [k \in TransitKeys |-> IF mount = "transit" /\ k = "anthropic" THEN 1 ELSE 0],
              unsafe |-> IF unsafe THEN {"anthropic"} ELSE {},
              role |-> TRUE, acl |-> TRUE, policy |-> 0, disturbed |-> {}, others |-> 0, faults |-> 0]
  /\ \E rev \in {1, 2} :
       job = [pc |-> "health", runs |-> 1, rev |-> rev, todo |-> KeyOrder,
              versions |-> [k \in TransitKeys |-> 0], verdict |-> "none"]

-----------------------------------------------------------------------------
(* The other root holder. *)

MayDisturb == Live("transit") /\ env.others < 1
Disturbs(e, what) ==
  Step([e EXCEPT !.others = @ + 1, !.disturbed = @ \cup {what}], job)

RoleRecreated == MayDisturb /\ ~ env.role /\ Disturbs([env EXCEPT !.role = TRUE], "role")
PolicyReplaced ==
  MayDisturb /\ \E p \in {1, 2} : p # env.policy /\ Disturbs([env EXCEPT !.policy = p], "policy")
KeyRotated ==
  MayDisturb /\ \E k \in TransitKeys :
    /\ env.keys[k] \in 1..(MaxKeyVersion - 1)
    /\ Disturbs([env EXCEPT !.keys[k] = @ + 1], k)

-----------------------------------------------------------------------------
(* A request of the run: the owner starts over after an error, with the same
   checkout and token. *)

Unreceipted == [job EXCEPT !.pc = "failed", !.todo = KeyOrder,
                           !.versions = [k \in TransitKeys |-> 0]]

(* The request has its effect and answers, is refused, or its answer is lost. *)
Request(e, j) ==
  \/ Step(e, j)
  \/ env.faults < MaxTransitFaults /\ Step([env EXCEPT !.faults = @ + 1], Unreceipted)
  \/ env.faults < MaxTransitFaults /\ Step([e EXCEPT !.faults = env.faults + 1], Unreceipted)

Read(what, j) == Request([env EXCEPT !.disturbed = @ \ {what}], j)

RunAgain ==
  /\ At("transit", "failed") /\ job.runs < MaxTransitRuns
  /\ Step(env, [job EXCEPT !.pc = "health", !.runs = @ + 1])

-----------------------------------------------------------------------------
(* The run. *)

(* The active, unsealed node of the named cluster, a root token and AppRole. *)
CheckHealth ==
  /\ At("transit", "health")
  /\ IF env.cluster = "test" /\ env.active THEN Request(env, [job EXCEPT !.pc = "mount"])
     ELSE Step(env, Ends(job, "refused"))

EnsureMount ==
  /\ At("transit", "mount")
  /\ IF env.mount = "kv" THEN Step(env, Ends(job, "refused"))
     ELSE Request([env EXCEPT !.mount = "transit"], [job EXCEPT !.pc = "delrole"])

(* Decommission: role and policy are deleted, then both are seen to be gone. *)
DeleteRole ==
  At("transit", "delrole") /\ Request([env EXCEPT !.role = FALSE], [job EXCEPT !.pc = "delacl"])
DeleteAcl ==
  At("transit", "delacl") /\ Request([env EXCEPT !.acl = FALSE], [job EXCEPT !.pc = "norole"])
VerifyRoleAbsent ==
  /\ At("transit", "norole")
  /\ IF env.role THEN Step(env, Unreceipted)
     ELSE Read("role", [job EXCEPT !.pc = "noacl"])
VerifyAclAbsent ==
  /\ At("transit", "noacl")
  /\ IF env.acl THEN Step(env, Unreceipted)
     ELSE Read("acl", [job EXCEPT !.pc = "keys"])

(* A key that is missing is created; what counts is what is then read. *)
EnsureKey ==
  /\ At("transit", "keys") /\ job.todo # <<>>
  /\ LET k == Head(job.todo)
     IN  env.keys[k] = 0 /\ Request([env EXCEPT !.keys[k] = 1, !.unsafe = @ \ {k}], job)

PublicKeySafe(k) == k \notin env.unsafe
ReadKey ==
  /\ At("transit", "keys") /\ job.todo # <<>>
  /\ LET k == Head(job.todo)
     IN  /\ env.keys[k] # 0
         /\ IF PublicKeySafe(k)
            THEN Read(k, [job EXCEPT !.todo = Tail(@), !.versions[k] = env.keys[k]])
            ELSE Step(env, Ends(job, "refused"))

InstallPolicy ==
  /\ At("transit", "keys") /\ job.todo = <<>>
  /\ Request([env EXCEPT !.policy = job.rev], [job EXCEPT !.pc = "readback"])

(* Mutant: the policy that was written is taken to be installed. *)
ReadbackAssumed == TRUE
ReadbackMatches == env.policy = job.rev

VerifyPolicy ==
  /\ At("transit", "readback")
  /\ IF ReadbackMatches THEN Read("policy", [job EXCEPT !.pc = "write"])
     ELSE Step(env, Unreceipted)

(* _write_exclusive: a receipt path that exists already is refused. *)
WriteReceipt ==
  /\ At("transit", "write")
  /\ \E new \in BOOLEAN : Step(env, IF new THEN Ends(job, "receipt") ELSE Unreceipted)

TransitNext ==
  \/ RoleRecreated \/ PolicyReplaced \/ KeyRotated \/ RunAgain \/ CheckHealth \/ EnsureMount
  \/ DeleteRole \/ DeleteAcl \/ VerifyRoleAbsent \/ VerifyAclAbsent \/ EnsureKey \/ ReadKey
  \/ InstallPolicy \/ VerifyPolicy \/ WriteReceipt

-----------------------------------------------------------------------------
(***************************************************************************)
(* bootstrap: what a receipt says was so when it was read, whatever failed *)
(* in earlier runs and whoever else worked on the Vault.  Unless changed   *)
(* after it was read, the old provider's role and policy are gone, the     *)
(* reconciler policy is the one of the checkout and the keys are at the    *)
(* recorded versions; every key is safe and no version goes back.          *)
(***************************************************************************)
ReceiptIsWhatWasRead ==
  lane = "transit" /\ job.verdict = "receipt" =>
    /\ env.cluster = "test" /\ env.mount = "transit"
    /\ "role" \notin env.disturbed => ~ env.role
    /\ "acl" \notin env.disturbed => ~ env.acl
    /\ "policy" \notin env.disturbed => env.policy = job.rev
    /\ \A k \in TransitKeys :
         /\ k \notin env.unsafe /\ 1 <= job.versions[k] /\ job.versions[k] <= env.keys[k]
         /\ k \notin env.disturbed => job.versions[k] = env.keys[k]
=============================================================================
