---------------------------- MODULE WgMasqProbe ----------------------------
(***************************************************************************)
(* collect-wg-bplus-i6-masq-evidence.py and its verifier: does traffic of  *)
(* a pod to the WireGuard peer pass the one masquerade rule the host owns? *)
(* The collector reads a dozen facts one command after the other and       *)
(* brackets a series of TCP connects from a probe pod with two reads of    *)
(* the rule and its packet counter.  The host is not held still: other     *)
(* traffic uses the rule, the drift timer installs it again (which zeroes  *)
(* the counter), the pod may go.  Besides, the host may have one static    *)
(* defect of MasqDefects.                                                  *)
(***************************************************************************)
EXTENDS AcceptanceJob, Integers

(* One defect for every fact that some check is there to refuse. *)
MasqDefects ==
  {"unbound-cluster", "cidr-outside-belt", "cidr-sources-conflict", "cidr-differs",
   "node-outside-cidr", "script-writable", "script-differs", "chain-check-fails",
   "route-not-wireguard", "peer-not-covered", "pod-off-node", "two-pods",
   "other-image", "unit-inactive", "no-drift-timer", "no-exec-stop", "drill-fails",
   "no-live-rollback", "live-rollback-elsewhere", "broad-nat"}
Is(d) == env.defect = d

CONSTANTS
  Attempts,                \* connects of one measurement
  MaxCounter, MaxChanges   \* bounds: the counter, and how often the host changes

ASSUME MasqAssumption == Attempts \in Nat

(* The counter of a rule that is not there. *)
Absent == -1

MasqInit ==
  /\ lane = "masq"
  /\ \E d \in MasqDefects \cup {"sound"}, viaRule \in BOOLEAN, c \in 0..1 :
       env = [defect |-> d, rule |-> TRUE, counter |-> c, viaRule |-> viaRule,
              pod |-> TRUE, changes |-> 0, window |-> FALSE, carried |-> 0]
  /\ job = [pc |-> "facts", failed |-> FALSE, podValid |-> FALSE, before |-> Absent,
            ruleBefore |-> FALSE, tries |-> 0, connected |-> 0, after |-> Absent,
            verdict |-> "none"]

(***************************************************************************)
(* What the collector concludes from each group of commands.               *)
(***************************************************************************)
ClusterIdentity == ~Is("unbound-cluster") /\ ~Is("cidr-outside-belt")
EffectiveCidr == ~Is("cidr-sources-conflict") /\ ~Is("cidr-differs")
NodePodCidrs == ~Is("node-outside-cidr")
(* Only a root-owned, unwritable installed script with the hash of the
   checkout is run, and only its answer counts. *)
ScriptAuthority == ~Is("script-writable") /\ ~Is("script-differs")
HostOwnedChain == ScriptAuthority /\ ~Is("chain-check-fails") /\ env.rule
PeerRoute == ~Is("route-not-wireguard") /\ ~Is("peer-not-covered")
Systemd == ~Is("unit-inactive")
DriftTimer == ~Is("no-drift-timer")
BroadNat == ~Is("broad-nat")
RollbackDrill == ScriptAuthority /\ ~Is("drill-fails")
(* The committed record of a live rollback must be of this cluster and node. *)
HistoricalRollback == ~Is("no-live-rollback") /\ ~Is("live-rollback-elsewhere")

Collects(next, passed) == [job EXCEPT !.pc = next, !.failed = @ \/ ~passed]

(* The checks before the measurement.  Any command may also just fail. *)
CollectFacts ==
  /\ At("masq", "facts")
  /\ \E answered \in BOOLEAN :
       Step(env, Collects("select", answered /\ ClusterIdentity /\ EffectiveCidr
                                    /\ NodePodCidrs /\ HostOwnedChain /\ PeerRoute))

(* select_probe_pod: one labelled pod, ready, in the cluster's CIDR and on
   the node; its image is not looked at here. *)
SelectProbePod ==
  /\ At("masq", "select")
  /\ LET valid == env.pod /\ ~Is("two-pods") /\ ~Is("pod-off-node")
     IN  Step(env, [Collects("before", valid) EXCEPT !.podValid = valid])

(* read_owned_chain_spec, then read_owned_chain_counter. *)
ReadRule == env.rule
ReadBefore ==
  /\ At("masq", "before")
  /\ Step([env EXCEPT !.window = TRUE, !.carried = 0],
          [job EXCEPT !.pc = "probe", !.ruleBefore = ReadRule,
                      !.before = IF env.rule THEN env.counter ELSE Absent])

Carried(e) == IF e.rule /\ e.counter < MaxCounter
              THEN [e EXCEPT !.counter = @ + 1, !.carried = IF e.window THEN @ + 1 ELSE @]
              ELSE e

(* One kubectl exec nc; a connect that goes over the rule is counted by it. *)
Probe ==
  /\ At("masq", "probe") /\ job.podValid /\ job.tries < Attempts
  /\ \/ /\ env.pod
        /\ env.viaRule => env.counter < MaxCounter
        /\ Step(IF env.viaRule THEN Carried(env) ELSE env,
                [job EXCEPT !.tries = @ + 1, !.connected = @ + 1])
     \/ Step(env, [job EXCEPT !.tries = @ + 1])

(* Mutant: the counter alone is compared with the attempts. *)
CounterReached(after) == after >= Attempts
CounterPass(after) ==
  /\ after # Absent /\ job.before # Absent
  /\ after >= job.before /\ after - job.before >= Attempts

TcpPass == job.podValid /\ job.tries = Attempts /\ job.connected = Attempts

ReadAfter ==
  /\ At("masq", "probe") /\ (job.podValid => job.tries = Attempts)
  /\ LET after == IF env.rule THEN env.counter ELSE Absent
         stable == job.ruleBefore /\ ReadRule
     IN  Step([env EXCEPT !.window = FALSE],
              [Collects("host", TcpPass /\ stable /\ CounterPass(after)) EXCEPT !.after = after])

(* systemd, nat table, drill and the historical record; then the status. *)
CollectHost ==
  /\ At("masq", "host")
  /\ \E answered \in BOOLEAN :
       Step(env, Collects("verify",
              answered /\ Systemd /\ DriftTimer /\ BroadNat /\ ~Is("no-exec-stop")
              /\ RollbackDrill /\ HistoricalRollback))

(***************************************************************************)
(* The verifier wants every check passed, and derives it once more from    *)
(* the metadata; the image of the probe pod it alone looks at.             *)
(***************************************************************************)
RequiredMetadata == ~job.failed
FactSemantics == ClusterIdentity /\ EffectiveCidr /\ NodePodCidrs /\ ScriptAuthority /\ PeerRoute
HostSemantics == Systemd /\ DriftTimer /\ RollbackDrill /\ HistoricalRollback /\ BroadNat
ProbeSemantics == TcpPass /\ ~Is("other-image")
CounterSemantics == CounterPass(job.after)
VerifyMasq ==
  /\ At("masq", "verify")
  /\ Step(env, Ends(job, IF /\ RequiredMetadata /\ FactSemantics /\ HostSemantics
                            /\ ProbeSemantics /\ CounterSemantics
                         THEN "accepted" ELSE "rejected"))

(* The host meanwhile. *)
Changing == Live("masq") /\ env.changes < MaxChanges
OtherTraffic ==
  /\ Changing /\ env.rule /\ env.counter < MaxCounter
  /\ Step([Carried(env) EXCEPT !.changes = @ + 1], job)
RuleDropped ==
  /\ Changing /\ env.rule
  /\ Step([env EXCEPT !.rule = FALSE, !.counter = 0, !.changes = @ + 1], job)
RuleReinstalled ==
  /\ Live("masq") /\ ~env.rule
  /\ Step([env EXCEPT !.rule = TRUE], job)
PodGone ==
  /\ Changing /\ env.pod
  /\ Step([env EXCEPT !.pod = FALSE, !.changes = @ + 1], job)

MasqNext ==
  \/ CollectFacts \/ SelectProbePod \/ ReadBefore \/ Probe \/ ReadAfter \/ CollectHost
  \/ VerifyMasq \/ OtherTraffic \/ RuleDropped \/ RuleReinstalled \/ PodGone

(***************************************************************************)
(* Evidence the I6 verifier accepts is about a host without any of the     *)
(* defects, and the owned rule really carried at least one packet per      *)
(* connect between the two reads: a rule that was installed anew in        *)
(* between, with its counter back at zero, cannot fake that.  (It need not *)
(* have been the probe's packets: other traffic counts too.)               *)
(***************************************************************************)
AcceptedMasqIsCarried ==
  lane = "masq" /\ job.verdict = "accepted" =>
    /\ env.defect = "sound"
    /\ job.connected = Attempts /\ env.carried >= Attempts
=============================================================================
