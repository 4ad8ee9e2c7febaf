---------------------------- MODULE GpuRollout -----------------------------
(***************************************************************************)
(* run_gpu_host_exact_sha_rollout.py: a driver sends one PowerShell script *)
(* over ssh to the GPU host (job.pc is the driver, job.script the script)  *)
(* and verify_gpu_host_exact_sha_rollout_evidence.py judges what it        *)
(* printed.  The script calls the updater and the task migration of the    *)
(* target commit as child processes; those are external.  A child may fail *)
(* with or without its effect, its exit code may get lost, the ssh session *)
(* may time out while the script goes on, and workers restart meanwhile.   *)
(***************************************************************************)
EXTENDS AcceptanceJob

Commits == {"before", "target"}

NoEvidenceYet == [after |-> "none", ledger |-> "none", restarted |-> FALSE, canonical |-> FALSE,
                  running |-> FALSE, healthy |-> FALSE, runtime |-> "none", socket |-> FALSE]

(* The host may be at the target already: a retry, or a recovery. *)
RolloutInit ==
  /\ lane = "rollout"
  /\ \E head \in Commits, canonical, fenced, recover \in BOOLEAN :
       /\ env = [head |-> head, ledger |-> head, restarted |-> TRUE, runtime |-> head,
                 canonical |-> canonical, fenced |-> fenced, ready |-> ~fenced]
       /\ job = [pc |-> "ssh", script |-> "check", recover |-> recover, before |-> "none",
                 required |-> FALSE, pinned |-> FALSE, pinOk |-> FALSE, handed |-> FALSE,
                 deployOk |-> FALSE, failure |-> "none", settled |-> FALSE,
                 ev |-> NoEvidenceYet, sent |-> "nothing", verdict |-> "none"]

In(pc) == lane = "rollout" /\ job.script = pc
Script(pc) == [job EXCEPT !.script = pc]
Throw(class) == [job EXCEPT !.script = "catch", !.failure = class]

(* Format, identity, administrator, repository, HEAD, fetch, ancestry of
   origin/main and the controller worktree: each may throw. *)
CheckTarget ==
  /\ In("check")
  /\ \/ Step(env, [Script("tasks") EXCEPT !.before = env.head])
     \/ Step(env, [Throw("precheck") EXCEPT !.before = env.head])

(* Get-TaskMetadata of both tasks, and Assert-FencedRecoveryContract. *)
ReadTasks ==
  /\ In("tasks")
  /\ \/ Step(env, Throw("task"))
     \/ LET required == ~env.canonical
            recoverable == job.before = "target" /\ ~required /\ env.fenced
        IN  Step(env, IF job.recover /\ ~recoverable THEN Throw("recovery")
                      ELSE [Script("whatif") EXCEPT !.required = required])

(* Invoke-UpdaterChild -WhatIf has no effect. *)
UpdaterWhatIf ==
  /\ In("whatif")
  /\ \/ Step(env, Throw("updater-whatif-rejected"))
     \/ Step(env, Script(IF job.required THEN "pin" ELSE "deploy"))

(* What the updater does: -NoRestart moves the source and the ledger only. *)
Pinned(c) == [env EXCEPT !.head = c, !.ledger = c, !.restarted = FALSE]
Deployed(c) == [env EXCEPT !.head = c, !.ledger = c, !.restarted = TRUE, !.runtime = c,
                           !.fenced = FALSE, !.ready = FALSE]

(* The flag is set only after the exit code was read, and only when the
   source moved. *)
PinWithoutRestart ==
  /\ In("pin")
  /\ \/ \E c \in {env.head, "target"} : Step(Pinned(c), Throw("updater-pin-rejected"))
     \/ Step(Pinned("target"),
             [Script("migrate") EXCEPT !.pinned = (job.before # "target"), !.pinOk = TRUE])

(* Mutant: the flag is cleared before the tasks are read back. *)
MigratedNotReadBack(j) == [j EXCEPT !.script = "readback", !.pinned = FALSE]
Migrated(j) == [j EXCEPT !.script = "readback"]

MigrateTasks ==
  /\ In("migrate")
  /\ \/ \E done \in {env.canonical, TRUE} :
          Step([env EXCEPT !.canonical = done], Throw("task-migration-rejected"))
     \/ Step([env EXCEPT !.canonical = TRUE], Migrated(job))

Handover(j) == [j EXCEPT !.pinned = FALSE, !.handed = TRUE]

(* The tasks are read again; then the final updater owns the recovery. *)
ReadBackTasks ==
  /\ In("readback")
  /\ \/ Step(env, Throw("task-migration-readback-rejected"))
     \/ env.canonical /\ Step(env, Handover(Script("deploy")))

(* The deploying updater restarts the tasks; when it fails it may have
   restored what was there, or not. *)
Deploy ==
  /\ In("deploy")
  /\ \/ Step(Deployed("target"), [Script("finally") EXCEPT !.deployOk = TRUE])
     \/ \E c \in Commits :
          \/ Step(Pinned(c), Throw("updater-deploy-rejected"))
          \/ Step(Deployed(c), Throw("updater-deploy-rejected"))

(* catch: only a source that was pinned and not handed over is rolled back.
   A child that throws here leaves the script without any evidence. *)
Mended(j, class) == [j EXCEPT !.script = "finally", !.failure = class]
Catch ==
  /\ In("catch")
  /\ IF ~job.pinned THEN Step(env, Mended(job, job.failure))
     ELSE \/ Step(Pinned("before"), Mended(job, job.failure))
          \/ \E c \in Commits : Step(Pinned(c), Mended(job, "source-rollback-failed"))
          \/ \E c \in Commits : Step(Pinned(c), Script("gone"))

(* finally: the worktree goes, then HEAD, the ledger and the tasks are read. *)
Finally ==
  /\ In("finally")
  /\ \E removed \in BOOLEAN :
       LET seen == [job.ev EXCEPT !.after = env.head, !.ledger = env.ledger,
                                  !.restarted = env.restarted, !.canonical = env.canonical,
                                  !.running = ~env.fenced]
       IN  Step(env, [Script("settle") EXCEPT
                        !.ev = seen,
                        !.failure = IF ~removed /\ @ = "none" THEN "controller-cleanup" ELSE @])

(* An acceptance diagnostic, or one that cannot be read, is a failure. *)
ReadDiagnostic ==
  /\ In("settle") /\ job.failure = "none"
  /\ Step(env, [job EXCEPT !.failure = "acceptance-candidate-rejected"])

ReadyFor(c) == env.ready /\ env.runtime = c
(* Wait-StreamingReadinessSettled polls up to its bound; it is skipped after
   a failure. *)
WaitSettled ==
  /\ In("settle")
  /\ IF job.failure = "none" /\ job.deployOk
     THEN \/ ReadyFor("target") /\ Step(env, [Script("health") EXCEPT !.settled = TRUE])
          \/ Step(env, Script("health"))
     ELSE Step(env, Script("health"))

(* Health of both services; neither answer names a commit. *)
ReadHealth ==
  /\ In("health")
  /\ \E healthy \in BOOLEAN : Step(env, [Script("readiness") EXCEPT !.ev.healthy = healthy])
ReadReadiness ==
  /\ In("readiness")
  /\ Step(env, [Script("socket") EXCEPT !.ev.runtime = IF env.ready THEN env.runtime ELSE "none"])
TestWebSocketReady ==
  /\ In("socket")
  /\ \E ready \in {FALSE, env.ready} : Step(env, [Script("emit") EXCEPT !.ev.socket = ready])

(* $go of the script. *)
SourceCommitVerified(ev) == job.deployOk /\ ev.after = "target" /\ ev.ledger = "target"
MigrationAccepted == job.required => job.pinOk /\ job.handed
Go(ev) ==
  /\ job.failure = "none" /\ MigrationAccepted /\ SourceCommitVerified(ev)
  /\ ev.restarted /\ ev.running /\ ev.canonical
  /\ ev.healthy /\ ev.runtime = "target" /\ ev.socket

EmitEvidence ==
  /\ In("emit")
  /\ Step(env, [Script("gone") EXCEPT !.sent = IF job.pc # "ssh" THEN "lost"
                                               ELSE IF Go(job.ev) THEN "go" ELSE "no-go"])

(* Workers recycle and come back on the source their task starts from. *)
WorkerRestarts ==
  /\ lane = "rollout" /\ job.script # "gone" /\ ~env.fenced
  /\ Step([env EXCEPT !.ready = ~@, !.runtime = IF env.ready THEN env.head ELSE @], job)

(* The driver: subprocess.run returns, loses the marker, or times out.  A
   timeout does not stop the script. *)
ReturnFromSsh ==
  /\ At("rollout", "ssh") /\ job.script = "gone"
  /\ \/ Step(env, [job EXCEPT !.pc = "verify"])
     \/ Step(env, [job EXCEPT !.pc = "verify", !.sent = "lost"])
SshTimesOut ==
  /\ At("rollout", "ssh")
  /\ Step(env, [job EXCEPT !.pc = "verify", !.sent = "lost"])

(* verify: go is not enough, the readiness must have settled, and a recovery
   must not have moved the source. *)
Verified ==
  /\ job.sent = "go" /\ job.settled
  /\ job.recover => job.before = "target" /\ ~job.required
VerifyRollout ==
  /\ At("rollout", "verify")
  /\ Step(env, Ends(job, IF Verified THEN "accepted" ELSE "rejected"))

RolloutNext ==
  \/ CheckTarget \/ ReadTasks \/ UpdaterWhatIf \/ PinWithoutRestart \/ MigrateTasks
  \/ ReadBackTasks \/ Deploy \/ Catch \/ Finally \/ ReadDiagnostic \/ WaitSettled
  \/ ReadHealth \/ ReadReadiness \/ TestWebSocketReady \/ EmitEvidence
  \/ WorkerRestarts \/ ReturnFromSsh \/ SshTimesOut \/ VerifyRollout

(***************************************************************************)
(* The verdict of a rollout is true of the host.  Accepted: source, ledger *)
(* and live runtime are at the target and both tasks start from the        *)
(* canonical repository.  Refused by a script that pinned the source but   *)
(* did not come to the handover: the source is back where it was, or the   *)
(* failure class says that the rollback failed.                            *)
(***************************************************************************)
RolloutVerdictIsTrue ==
  lane = "rollout" =>
    /\ job.verdict = "accepted" =>
         /\ env.head = "target" /\ env.ledger = "target" /\ env.restarted
         /\ env.runtime = "target" /\ env.canonical /\ ~env.fenced
    /\ job.sent = "no-go" /\ job.pinOk /\ ~job.handed
       /\ job.failure # "source-rollback-failed" => env.head = job.before
=============================================================================
