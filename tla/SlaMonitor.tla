---------------------------- MODULE SlaMonitor -----------------------------
(***************************************************************************)
(* critical_fix_sla_monitor.py: the scan that looks, for every merged      *)
(* critical-fix pull request, for a production deploy that carried it, and *)
(* warns on the pull request or opens a tracking issue when there is none. *)
(* The workflow's concurrency group runs one scan at a time; the scan is   *)
(* repeated every 15 minutes.  Merges, deploys and people go on meanwhile. *)
(***************************************************************************)
EXTENDS AcceptanceJob, Naturals, Sequences, SequencesExt

CONSTANTS FixPrs,                        \* the numbers of the critical-fix pull requests
          WarningHours, CriticalHours,   \* the ages that warn and that open an issue
          WindowHours,                   \* the age up to which a merge is scanned
          MaxDeploys, MaxHours, MaxGhFaults   \* bounds: deploy runs, hours, failed calls

ASSUME SlaAssumption ==
  /\ FixPrs \subseteq Nat
  /\ WarningHours \in Nat /\ CriticalHours \in Nat /\ WindowHours \in Nat

(* A deploy run of the workflow that ended with success: the fixes in the
   main branch when it ran (head), the fixes in the revision it was asked to
   sync (rev), whether it left the prod-sync-result artifact, and what that
   artifact concludes. *)
SlaInit ==
  /\ lane = "sla"
  /\ env = [hour |-> 0, merges |-> <<>>, mergedAt |-> [p \in FixPrs |-> 0], runs |-> <<>>,
            open |-> {}, warned |-> {}, faults |-> 0]
  /\ job = [pc |-> "idle", dry |-> FALSE, todo |-> {}, pr |-> 0, overdue |-> {},
            covered |-> {}, blind |-> FALSE, errors |-> FALSE,
            verdict |-> "none"]

-----------------------------------------------------------------------------
(* The repository, the deploys and the people. *)

MergeFix ==
  /\ Live("sla")
  /\ \E p \in FixPrs :
       /\ ~ Contains(env.merges, p)
       /\ Step([env EXCEPT !.merges = Append(@, p), !.mergedAt[p] = env.hour], job)

(* A revision contains the fixes up to some point of the main branch; a
   rollback syncs an older one.  Runs of before the artifact have none. *)
DeployRuns ==
  /\ Live("sla") /\ Len(env.runs) < MaxDeploys /\ env.merges # <<>>
  /\ \E k \in 0..Len(env.merges), artifact, ok \in BOOLEAN :
       /\ ~ artifact => ok
       /\ Step([env EXCEPT !.runs =
                  Append(@, [head |-> ToSet(env.merges), rev |-> ToSet(SubSeq(env.merges, 1, k)),
                             artifact |-> artifact, ok |-> ok])], job)

IssueClosed ==
  /\ Live("sla") /\ \E p \in env.open : Step([env EXCEPT !.open = @ \ {p}], job)

(* A scan is stopped after ten minutes (timeout-minutes) and takes the ages
   once, so hours pass between scans. *)
HourPasses ==
  /\ At("sla", "idle") /\ env.hour < MaxHours
  /\ Step([env EXCEPT !.hour = @ + 1, !.warned = {}], job)

-----------------------------------------------------------------------------
(* The scan. *)

GhFault(e) == [e EXCEPT !.faults = @ + 1]
MayFail == env.faults < MaxGhFaults

(* The scan ends with its exit code; what it knew is forgotten, except for
   the record of a scan that claims to be complete. *)
Exits(j, code) ==
  LET over == [j EXCEPT !.pc = "judged", !.verdict = code, !.todo = {}, !.pr = 0]
  IN  IF code = "0" /\ ~ j.dry /\ ~ j.blind THEN over
      ELSE [over EXCEPT !.overdue = {}, !.covered = {}, !.errors = FALSE]

ScanAgain ==
  /\ At("sla", "judged")
  /\ Step(env, [job EXCEPT !.pc = "idle", !.dry = FALSE, !.overdue = {}, !.covered = {},
                           !.blind = FALSE, !.errors = FALSE, !.verdict = "none"])

(* list_critical_fix_prs: merged within the window; a failed read ends the
   scan with 1.  The ages are taken once. *)
Age(p) == env.hour - env.mergedAt[p]
InScan == {p \in ToSet(env.merges) : Age(p) <= WindowHours}
StartScan ==
  /\ At("sla", "idle") /\ env.merges # <<>>
  /\ \/ \E dry \in BOOLEAN :
          Step(env, [job EXCEPT !.pc = "next", !.dry = dry, !.todo = InScan,
                                !.overdue = {p \in InScan : Age(p) >= CriticalHours}])
     \/ MayFail /\ Step(GhFault(env), Exits(job, "1"))

NextPr ==
  /\ At("sla", "next") /\ job.todo # {}
  /\ \E p \in job.todo :
       Step(env, [job EXCEPT !.pc = "correlate", !.pr = p, !.todo = @ \ {p}])

(* find_successful_deploy: for a run created after the merge the artifact
   decides; without it the revision in the log; without that the head of the
   run.  mute: the runs whose artifact (deaf: whose log) could not be read. *)
Carries(r, p, mute, deaf) ==
  LET run == env.runs[r]
  IN  /\ p \in run.head
      /\ IF run.artifact /\ r \notin mute THEN run.ok /\ p \in run.rev
         ELSE r \notin deaf => p \in run.rev

(* A fix that reached production needs nothing; else the age decides. *)
Correlated(p, reached) ==
  IF reached THEN [job EXCEPT !.pc = "next", !.pr = 0]
  ELSE IF Age(p) >= CriticalHours THEN [job EXCEPT !.pc = "issue"]
  ELSE IF Age(p) >= WarningHours THEN [job EXCEPT !.pc = "warn"]
  ELSE [job EXCEPT !.pc = "next", !.pr = 0]

CorrelateDeploys ==
  /\ At("sla", "correlate")
  /\ LET p == job.pr  runs == DOMAIN env.runs
     IN  \/ Step(env, Correlated(p, \E r \in runs : Carries(r, p, {}, {})))
         \/ \E mute, deaf \in SUBSET runs :
              /\ MayFail /\ mute # {}
              /\ Step(GhFault(env), [Correlated(p, \E r \in runs : Carries(r, p, mute, deaf))
                                       EXCEPT !.blind = TRUE])
         \/ MayFail /\ Step(GhFault(env), [job EXCEPT !.pc = "next", !.pr = 0, !.errors = TRUE])

(* find_existing_sla_issue: the marker of the issue names the pull request
   and ends there. *)

(* Mutant: the marker is looked for as a prefix. *)
MarkedAsPrefix(p) == IF p = 6 THEN env.open # {} ELSE p \in env.open
Marked(p) == p \in env.open

(* create_or_update_issue: an open issue gets a comment, else one is created.
   A call that fails, or whose answer is lost, ends the scan with an
   uncaught error: exit 1, the remaining pull requests unseen. *)
OpenIssue ==
  /\ At("sla", "issue")
  /\ LET p == job.pr
         opened == IF Marked(p) THEN env ELSE [env EXCEPT !.open = @ \cup {p}]
         dealt == [job EXCEPT !.pc = "next", !.pr = 0]
     IN  IF job.dry THEN Step(env, dealt)
         ELSE \/ Step(opened, IF p \in opened.open THEN [dealt EXCEPT !.covered = @ \cup {p}]
                              ELSE dealt)
              \/ MayFail /\ Step(GhFault(env), Exits(job, "1"))
              \/ MayFail /\ Step(GhFault(opened), Exits(job, "1"))

(* warn_on_pr: at most one warning comment an hour. *)
WarnOnPr ==
  /\ At("sla", "warn")
  /\ LET p == job.pr
         dealt == [job EXCEPT !.pc = "next", !.pr = 0]
     IN  \/ Step(IF job.dry THEN env ELSE [env EXCEPT !.warned = @ \cup {p}], dealt)
         \/ MayFail /\ ~ job.dry /\ p \notin env.warned /\ Step(GhFault(env), Exits(job, "1"))

EndScan ==
  /\ At("sla", "next") /\ job.todo = {}
  /\ Step(env, Exits(job, IF job.errors THEN "1" ELSE "0"))

SlaNext ==
  \/ MergeFix \/ DeployRuns \/ IssueClosed \/ HourPasses \/ ScanAgain \/ StartScan \/ NextPr
  \/ CorrelateDeploys \/ OpenIssue \/ WarnOnPr \/ EndScan

-----------------------------------------------------------------------------
(* A run that synced a revision with the fix. *)
ReachedProd(p) == \E r \in DOMAIN env.runs : env.runs[r].ok /\ p \in env.runs[r].rev

(***************************************************************************)
(* main: a scan that exits 0 left no overdue fix unseen.  Each fix past    *)
(* the critical age was carried by some deploy, or its own tracking issue  *)
(* was open when the scan came to it.  A dry run, and a scan that could    *)
(* not read an artifact and went by a weaker sign, promise nothing.        *)
(***************************************************************************)
CleanScanSeesOverdue ==
  lane = "sla" /\ job.pc = "judged" /\ job.verdict = "0" /\ ~ job.dry /\ ~ job.blind =>
    \A p \in job.overdue : ReachedProd(p) \/ p \in job.covered
=============================================================================
