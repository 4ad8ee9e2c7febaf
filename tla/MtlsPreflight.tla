--------------------------- MODULE MtlsPreflight ---------------------------
(***************************************************************************)
(* The client certificate of the direct-STT path: direct_stt_mtls_seed_-   *)
(* operator.py patches the three PEM values into Vault, External Secrets   *)
(* copies them to a Secret, kubelet into the pod, and the preflight        *)
(* collector reads that chain object by object and calls the STT host from *)
(* the pod, while the direct path is still switched off.  Each tool has a  *)
(* verifier of its evidence.                                               *)
(*                                                                         *)
(* A seed is a version number; 0 is no material.  Objects go on changing   *)
(* between two reads, and one thing of the deployment may be wrong.        *)
(***************************************************************************)
EXTENDS AcceptanceJob, Naturals

CONSTANTS MaxSeeds, MaxMtlsChanges   \* bounds: seeds, changes of the cluster

MtlsFaults == {"digest", "host-alias", "netpol", "no-mount", "mandatory-mount", "env-from",
               "aggregate", "contaminated", "store", "mapping", "unreachable"}

(* trusted: the seeds the STT host accepts; served: those with which a call
   from the pod got 200. *)
MtlsInit ==
  /\ lane = "mtls"
  /\ \E f \in MtlsFaults \cup {"none"}, t \in {{}, {1}, {2}} :
       env = [fault |-> f, vault |-> 0, elsewhere |-> 0, secret |-> 0, ready |-> FALSE,
              mounted |-> 0, podReady |-> TRUE, pod |-> 1, enabled |-> FALSE, trusted |-> t,
              served |-> {}, changes |-> 0]
  /\ job = [pc |-> "seed", seed |-> 0, apply |-> FALSE, path |-> TRUE, patched |-> FALSE,
            seedOk |-> FALSE, fails |-> {}, pod |-> 0, verdict |-> "none"]

-----------------------------------------------------------------------------
(* Vault's consumers and the cluster. *)

MtlsChange(e) == env.changes < MaxMtlsChanges /\ Step([e EXCEPT !.changes = @ + 1], job)

(* A wrong mapping or store never becomes ready. *)
EsoSyncs ==
  /\ Live("mtls") /\ env.vault # 0 /\ env.fault \notin {"store", "mapping"}
  /\ env.secret # env.vault \/ ~ env.ready
  /\ Step([env EXCEPT !.secret = env.vault, !.ready = TRUE], job)

EsoFails ==
  /\ Live("mtls") /\ env.ready /\ MtlsChange([env EXCEPT !.ready = FALSE])

KubeletRefreshes ==
  /\ Live("mtls") /\ env.fault # "no-mount" /\ env.mounted # env.secret
  /\ Step([env EXCEPT !.mounted = env.secret], job)

GatewayPodReplaced ==
  /\ Live("mtls") /\ \E r \in BOOLEAN :
       MtlsChange([env EXCEPT !.pod = 3 - @, !.podReady = r,
                              !.mounted = IF env.fault = "no-mount" THEN 0 ELSE env.secret])

FlagFlipped == Live("mtls") /\ MtlsChange([env EXCEPT !.enabled = ~ @])

-----------------------------------------------------------------------------
(* The seed operator. *)

(* build_payload and the arguments: unreadable, unrestricted or non-PEM files
   end it before Vault is called. *)
ReadMaterial ==
  /\ At("mtls", "seed") /\ job.seed < MaxSeeds
  /\ \/ Step(env, Ends(job, "error"))
     \/ \E apply, path \in BOOLEAN :
          Step(env, [job EXCEPT !.pc = "patch", !.seed = @ + 1, !.apply = apply, !.path = path])

(* patch_vault_kv2: one merge-patch of the three properties.  An error answer
   has no effect, a lost one may have had its effect. *)
Patched == IF job.path THEN [env EXCEPT !.vault = job.seed]
                       ELSE [env EXCEPT !.elsewhere = job.seed]
PatchVault ==
  /\ At("mtls", "patch")
  /\ IF ~ job.apply THEN Step(env, [job EXCEPT !.pc = "seeded"])
     ELSE \/ Step(Patched, [job EXCEPT !.pc = "seeded", !.patched = TRUE])
          \/ Step(Patched, [job EXCEPT !.pc = "seeded"])
          \/ Step(env, [job EXCEPT !.pc = "seeded"])

(* verify_direct_stt_mtls_seed_operator_evidence: dry runs, failed patches
   and another Vault path are refused. *)
SeedTopLevel == job.apply /\ job.patched

(* Mutant: any Vault path will do. *)
SeedVaultAny == TRUE
SeedVault == job.path

SeedResult == job.patched
VerifySeed ==
  /\ At("mtls", "seeded")
  /\ Step(env, [job EXCEPT !.pc = "choose", !.seedOk = SeedTopLevel /\ SeedVault /\ SeedResult])

(* Seed again, or go on to the preflight, whatever became of the seed. *)
GoOn ==
  /\ At("mtls", "choose")
  /\ \E again \in BOOLEAN :
       /\ again => job.seed < MaxSeeds
       /\ Step(env, [job EXCEPT !.pc = IF again THEN "seed" ELSE "access", !.apply = FALSE,
                                !.path = TRUE, !.patched = FALSE,
                                !.seed = IF again THEN @ ELSE 0, !.seedOk = ~ again /\ @])

-----------------------------------------------------------------------------
(* The preflight collector: every failed read and every mismatch is a failure
   code (fails holds the sections of the evidence with one), and the
   collection goes on. *)

FailuresAfter(section, sound) == IF sound THEN job.fails ELSE job.fails \cup {section}

ReadObjects(section, next, sound) ==
  \E answered \in BOOLEAN :
    Step(env, [job EXCEPT !.pc = next, !.fails = FailuresAfter(section, answered /\ sound)])

(* kube_access_status: without the namespace nothing else is read. *)
CheckAccess ==
  /\ At("mtls", "access")
  /\ IF env.fault = "unreachable"
     THEN Step(env, [job EXCEPT !.pc = "verify", !.fails = {"environment"}])
     ELSE ReadObjects("environment", "desired", TRUE)

(* Deployment: host alias, mount of the dedicated optional Secret, no envFrom. *)
MountInfo == env.fault \notin {"no-mount", "mandatory-mount"}
HostAlias == env.fault # "host-alias"
NotEnvFrom == env.fault # "env-from"
DirectSttDisabled == ~ env.enabled
ReadDesired ==
  /\ At("mtls", "desired")
  /\ ReadObjects("desired", "aggregate", MountInfo /\ HostAlias /\ NotEnvFrom /\ DirectSttDisabled)

(* The aggregate Secret keeps its Redis key and none of the three. *)
AggregateSound == env.fault \notin {"aggregate", "contaminated"}
ReadAggregate == At("mtls", "aggregate") /\ ReadObjects("aggregate", "external", AggregateSound)

(* ExternalSecret: Ready, its store, its Vault path and its mapping. *)
ExternalSecretSound == env.ready /\ env.fault \notin {"store", "mapping"}
ReadExternalSecret == At("mtls", "external") /\ ReadObjects("external", "secret", ExternalSecretSound)

(* The key names of the runtime Secret, and the network policy. *)
RuntimeKeys == env.secret # 0
NetpolSound == env.fault # "netpol"
ReadSecret == At("mtls", "secret") /\ ReadObjects("runtime", "pod", RuntimeKeys /\ NetpolSound)

(* find_audio_gateway_pod: the newest ready pod, else the newest. *)
PodSound == env.podReady /\ env.fault # "digest"
FindPod ==
  /\ At("mtls", "pod")
  /\ \E answered \in BOOLEAN :
       Step(env, [job EXCEPT !.pc = "probe", !.pod = IF answered THEN env.pod ELSE 0,
                             !.fails = FailuresAfter("environment", answered /\ PodSound)])

(* run_mtls_probe: curl in that pod with the mounted files.  A pod that is
   gone, missing files and a refused certificate all end it with an error. *)
Handshake == job.pod = env.pod /\ env.mounted # 0 /\ env.mounted \in env.trusted
             /\ env.fault \notin {"netpol", "host-alias"}
RunProbe ==
  /\ At("mtls", "probe")
  /\ IF Handshake
     THEN \/ Step([env EXCEPT !.served = @ \cup {env.mounted}], [job EXCEPT !.pc = "verify"])
          \/ Step(env, [job EXCEPT !.pc = "verify", !.fails = @ \cup {"probe"}])
     ELSE Step(env, [job EXCEPT !.pc = "verify", !.fails = @ \cup {"probe"}])

(* verify_direct_stt_mtls_enablement_preflight: no failure code at all, and
   each section once more. *)
PreflightTopLevel == job.fails = {}
EnvironmentValid == "environment" \notin job.fails /\ job.pod # 0
DesiredStateValid == "desired" \notin job.fails
ExternalSecretValid == "external" \notin job.fails
AggregateValid == "aggregate" \notin job.fails
RuntimeSecretValid == "runtime" \notin job.fails
ProbeValid == "probe" \notin job.fails
PreflightPasses ==
  /\ PreflightTopLevel /\ EnvironmentValid /\ DesiredStateValid /\ ExternalSecretValid
  /\ AggregateValid /\ RuntimeSecretValid /\ ProbeValid
VerifyPreflight ==
  /\ At("mtls", "verify")
  /\ Step(env, Ends(job, IF PreflightPasses THEN "accepted" ELSE "refused"))

MtlsNext ==
  \/ EsoSyncs \/ EsoFails \/ KubeletRefreshes \/ GatewayPodReplaced \/ FlagFlipped \/ ReadMaterial
  \/ PatchVault \/ VerifySeed \/ GoOn \/ CheckAccess \/ ReadDesired \/ ReadAggregate
  \/ ReadExternalSecret \/ ReadSecret \/ FindPod \/ RunProbe \/ VerifyPreflight

-----------------------------------------------------------------------------
(***************************************************************************)
(* An accepted seed is at the path External Secrets reads, even when an    *)
(* earlier answer was lost, and an accepted preflight means that a seed    *)
(* from that path went through Secret and mount and that the STT host      *)
(* served a call with it, on a deployment without a fault.                 *)
(***************************************************************************)
AcceptedMtlsIsServed ==
  lane = "mtls" =>
    /\ job.pc = "choose" /\ job.seedOk => env.vault = job.seed
    /\ job.verdict = "accepted" =>
         env.fault = "none" /\ env.served # {} /\ env.served \subseteq 1..env.vault
=============================================================================
