---------------------------- MODULE HostCeremony ----------------------------
(***************************************************************************)
(* recover_test_ready_permit.py and promote_test_live_analysis.py: the two *)
(* ceremonies that change what runs on the Windows GPU host.  renew        *)
(* installs a fresh permit on a fenced host; promote stops the baseline,   *)
(* pins the target commit, obtains a permit for it and accepts the         *)
(* runtime, and goes back to the baseline when that fails.                 *)
(*                                                                         *)
(* A ceremony sends scripts over ssh one at a time.  A script is a         *)
(* sequence of steps; it throws at a check that does not hold or at any    *)
(* step, and when the call is cut off it may go on by itself (stray).      *)
(***************************************************************************)
EXTENDS AcceptanceJob, Naturals, Sequences, FiniteSets

CONSTANT MaxHostFaults   \* bound: calls that fail or are cut off

(* The host a ceremony starts from: renew finds both tasks fenced and the
   permit expired, promote finds the baseline running. *)
HostBefore(kind) ==
  LET state == IF kind = "renew" THEN "disabled" ELSE "running"
  IN  [head |-> "base", live |-> state, meet |-> state, consumer |-> TRUE,
       permit |-> IF kind = "renew" THEN "expired" ELSE "base"]

(* A script under way: its steps, the one that comes next, and the source it
   names. *)
NoScript == [ops |-> <<>>, at |-> 1, src |-> "base"]

CeremonyInit ==
  /\ lane = "ceremony"
  /\ \E kind \in {"renew", "promote"} :
       env = [kind |-> kind, host |-> HostBefore(kind), script |-> NoScript, stray |-> NoScript,
              calm |-> TRUE, faults |-> 0]
  /\ job = [pc |-> "preflight", sent |-> FALSE, goal |-> "base", src |-> "base",
            containment |-> "none", verdict |-> "none"]

Promoting == env.kind = "promote"

-----------------------------------------------------------------------------
(* The scripts.  HEADER: the repository is at the source the script is for. *)

PREFLIGHT ==
  <<"head", IF Promoting THEN "both-running" ELSE "both-fenced", "enabled">>
STAGE == <<"head", "both-fenced", "enabled", "consumer-off", "enable-meet", "start-meet", "consumer-idle">>
STOP_AND_STAGE ==
  <<"head", "stop-live", "stop-meet", "enable-live", "enable-meet", "consumer-off">>
PIN == <<"pin", "head">>
START_DISABLED == <<"head", "enable-meet", "start-meet", "consumer-idle">>
ACTIVATE == <<"head", "disabled", "install", "permitted", "stop-meet", "disable-meet">>
FENCE == <<"stop-live", "disable-live", "stop-meet", "disable-meet">>
READY == <<"head", "enabled", "both-running">>

(* run_gpu_host_exact_sha_rollout with --recover-fenced-runtime (GpuRollout). *)
ROLLOUT == <<"head", "enable-live", "start-live", "enable-meet", "start-meet">>

(* The script of a step of the ceremony and the source it names. *)
ScriptOf(pc) ==
  CASE pc = "preflight" -> PREFLIGHT
    [] pc = "stage" -> IF Promoting THEN STOP_AND_STAGE ELSE STAGE
    [] pc = "pin" -> PIN
    [] pc = "start" -> START_DISABLED
    [] pc = "activate" -> ACTIVATE
    [] pc = "rollout" -> ROLLOUT
    [] pc = "ready" -> READY
    [] pc = "fence" -> FENCE
HostScript ==
  [ops |-> ScriptOf(job.pc), at |-> 1, src |-> IF job.pc = "pin" THEN job.goal ELSE job.src]

-----------------------------------------------------------------------------
(* The host.  start-meeting-ai.ps1 starts an enabled consumer only under a
   permit for the source. *)

Holds(op, src) ==
  LET h == env.host
  IN  /\ op = "head" => h.head = src
      /\ op = "both-running" => h.live = "running" /\ h.meet = "running"
      /\ op = "both-fenced" => h.live = "disabled" /\ h.meet = "disabled"
      /\ op = "enabled" => h.consumer
      /\ op = "disabled" => ~ h.consumer
      /\ op = "consumer-idle" => h.meet = "running" /\ ~ h.consumer
      /\ op = "permitted" => h.consumer /\ h.permit = src
      /\ op = "start-live" => h.live # "disabled"
      /\ op = "start-meet" => h.meet # "disabled" /\ (h.consumer => h.permit = h.head)

Took(op, src) ==
  LET Task(was, stop, disable, enable, start) ==
        IF op = stop /\ was = "running" THEN "stopped"
        ELSE IF op = disable THEN "disabled"
        ELSE IF op = enable /\ was = "disabled" THEN "stopped"
        ELSE IF op = start THEN "running" ELSE was
  IN  [env.host EXCEPT
         !.live = Task(@, "stop-live", "disable-live", "enable-live", "start-live"),
         !.meet = Task(@, "stop-meet", "disable-meet", "enable-meet", "start-meet"),
         !.head = IF op = "pin" THEN src ELSE @,
         !.consumer = IF op = "install" THEN TRUE ELSE IF op = "consumer-off" THEN FALSE ELSE @,
         !.permit = IF op = "install" THEN src ELSE @]

Rest(s) == IF s.at = Len(s.ops) THEN NoScript ELSE [s EXCEPT !.at = @ + 1]

-----------------------------------------------------------------------------
(* What an answer means. *)

CeremonyFails(j) == [j EXCEPT !.pc = "done", !.verdict = "failed"]

(* staged, mutated: set before the first call that changes the host. *)

(* Mutant: set when that call has answered. *)
MutatedLate(pc) == pc \notin {"preflight", "stage"}
Mutated(pc) == pc # "preflight"

(* The end of a ceremony by an error: fence what may have been changed. *)
Contain(j) == IF Mutated(j.pc) THEN [j EXCEPT !.pc = "fence", !.sent = FALSE]
              ELSE CeremonyFails([j EXCEPT !.sent = FALSE])

(* The first pass of promote compensates: back to the source of before, for
   whatever source the host is at.  A call that timed out may still be at
   work on the host, so there is no second updater then. *)
Rejected(j, timedOut) ==
  IF j.pc = "fence" THEN CeremonyFails([j EXCEPT !.containment = "unverified", !.sent = FALSE])
  ELSE IF Promoting /\ j.goal = "target" /\ Mutated(j.pc) /\ ~ timedOut
  THEN [j EXCEPT !.pc = "readhead", !.goal = "base", !.sent = FALSE]
  ELSE Contain(j)

Answered(j) ==
  LET Goes(pc) == [j EXCEPT !.pc = pc, !.sent = FALSE]
      Judged(v) == [Goes("done") EXCEPT !.verdict = v]
  IN  CASE j.pc = "stage" -> Goes(IF Promoting THEN "pin" ELSE "permit")
        [] j.pc = "pin" -> [Goes("start") EXCEPT !.src = j.goal]
        [] j.pc = "start" -> Goes("permit")
        [] j.pc = "activate" -> IF Promoting THEN Goes("rollout") ELSE Judged("installed")
        [] j.pc = "rollout" -> Goes("ready")
        [] j.pc = "ready" -> Judged(IF j.goal = "target" THEN "accepted" ELSE "reaccepted")
        [] j.pc = "fence" -> Judged("failed")
        [] j.pc = "preflight" -> Goes("root")

-----------------------------------------------------------------------------
(* The calls. *)

MayFault == env.faults < MaxHostFaults

SendScript ==
  /\ lane = "ceremony" /\ ~ job.sent
  /\ job.pc \in {"preflight", "stage", "pin", "start", "activate", "rollout", "ready", "fence"}
  /\ Step([env EXCEPT !.script = HostScript],
          [job EXCEPT !.sent = TRUE,
                      !.containment = IF job.pc = "fence" THEN "fenced" ELSE @])

ScriptStep ==
  /\ lane = "ceremony" /\ job.sent /\ env.script # NoScript
  /\ LET op == env.script.ops[env.script.at]  src == env.script.src
         thrown == [env EXCEPT !.script = NoScript]
     IN  \/ /\ Holds(op, src)
            /\ Step([env EXCEPT !.host = Took(op, src), !.script = Rest(@)], job)
         \/ ~ Holds(op, src) /\ Step(thrown, Rejected(job, FALSE))
         \/ MayFault /\ Step([thrown EXCEPT !.faults = @ + 1], Rejected(job, FALSE))

(* The marker line of the script: main and perform go on. *)
RemoteAnswers ==
  /\ lane = "ceremony" /\ job.sent /\ env.script = NoScript
  /\ Step(env, Answered(job))

(* same_key_renewal, and the root pin of promote: another key, a root that
   has not expired or an unreachable Vault end the ceremony here.  From the
   next call on the host may be changed. *)
CheckRoot ==
  /\ At("ceremony", "root")
  /\ \/ \E apply \in BOOLEAN :
          Step(env, IF apply THEN [job EXCEPT !.pc = "stage",
                                              !.goal = IF Promoting THEN "target" ELSE "base"]
                    ELSE Ends(job, "preflight-only"))
     \/ MayFault /\ Step([env EXCEPT !.faults = @ + 1], CeremonyFails(job))

(* The connection is lost, or the call times out.  The script is killed with
   it, or goes on. *)
CallCutOff ==
  /\ lane = "ceremony" /\ job.sent /\ MayFault
  /\ \E timedOut, goesOn \in BOOLEAN :
       Step([env EXCEPT !.script = NoScript, !.faults = @ + 1,
                        !.stray = IF goesOn THEN env.script ELSE @,
                        !.calm = @ /\ (~ goesOn \/ env.script = NoScript)],
            Rejected(job, timedOut))

StrayStep ==
  /\ Live("ceremony") /\ env.stray # NoScript
  /\ LET op == env.stray.ops[env.stray.at]  src == env.stray.src
     IN  IF Holds(op, src)
         THEN Step([env EXCEPT !.host = Took(op, src), !.stray = Rest(@)], job)
         ELSE Step([env EXCEPT !.stray = NoScript], job)

(* issue_permit: the evidence ceremony (PermitChain) issues or refuses. *)
IssuePermit ==
  /\ At("ceremony", "permit")
  /\ \/ Step(env, [job EXCEPT !.pc = "activate"])
     \/ MayFault /\ \E timedOut \in BOOLEAN :
                      Step([env EXCEPT !.faults = @ + 1], Rejected(job, timedOut))

(* Compensation starts from the source the host is really at. *)
ReadHead ==
  /\ At("ceremony", "readhead")
  /\ \/ Step(env, [job EXCEPT !.pc = "stage", !.src = env.host.head])
     \/ MayFault /\ Step([env EXCEPT !.faults = @ + 1], Contain(job))

CeremonyNext ==
  \/ SendScript \/ ScriptStep \/ RemoteAnswers \/ CheckRoot \/ CallCutOff \/ StrayStep
  \/ IssuePermit \/ ReadHead

-----------------------------------------------------------------------------
(***************************************************************************)
(* The report of a ceremony says what became of the host, wherever a call  *)
(* failed.  Accepted: the named source runs with an enabled consumer under *)
(* a permit for it.  Installed: a fresh permit on a host that is still     *)
(* fenced.  Failed and fenced: nothing runs.  Failed without containment,  *)
(* or a dry run: the host is as it was.  Only a script that outlived its   *)
(* call may void the report.                                               *)
(***************************************************************************)
CeremonyReportIsTrue ==
  lane = "ceremony" /\ job.pc = "done" /\ env.calm =>
    LET h == env.host
        RunsOn(s) == /\ h.head = s /\ h.permit = s /\ h.consumer
                     /\ h.live = "running" /\ h.meet = "running"
    IN  /\ job.verdict = "accepted" => RunsOn("target")
        /\ job.verdict = "reaccepted" => RunsOn("base")
        /\ job.verdict = "installed" =>
             /\ h.head = "base" /\ h.permit = "base" /\ h.consumer
             /\ h.live = "disabled" /\ h.meet = "disabled"
        /\ job.verdict = "failed" /\ job.containment = "fenced" =>
             h.live = "disabled" /\ h.meet = "disabled"
        /\ job.verdict = "preflight-only"
           \/ (job.verdict = "failed" /\ job.containment = "none") =>
             h = HostBefore(env.kind)
=============================================================================
