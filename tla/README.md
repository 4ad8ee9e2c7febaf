# Formal models of the deployment gate, the ETL worker, the coordination ledger and the evidence chains

The repository is a GitOps tree: manifests, runbooks, and the programs that
gate, migrate, record and prove. These models cover the programs that keep
state, or draw a conclusion from state that others change meanwhile:

* the **signed cross-AI deployment gate** (`scripts/github_apps/`; a path
  without a directory is in `cross_ai_deployment_policy/` there): AI providers
  issue signed reviews, a coordinator composes a bundle, a GitHub App answers
  deployment-protection webhooks from a SQLite registry of one-time stage
  grants, a dispatcher CLI starts the workflows, background threads settle them;
* the **ETL worker** (`scripts/migration/etl_worker/`) from MSSQL to
  PostgreSQL, with its audit, resume and reconcile commands;
* the **coordination ledger** (`scripts/coordination/`): a hash-chained JSONL
  file on a git branch, from which work claims are replayed;
* the **evidence chains**: the permit of the transcript-ready consumer and the
  acceptance jobs of `scripts/faz24`, the viewer pilot of
  `scripts/faz22-remote-ops`, the promotion ledger, the SLA monitor and the
  Alertmanager bridge.

## 1. Inventory

| Component | State | Operations | Interacts with |
|---|---|---|---|
| Intent and stage registry (`intent_store.py`) | `intents`, `intent_stages`, `stage_outcomes`, `bootstrap_consumptions`, `intent_events` | register, finalize_ref, reserve_stage, transition_stage, record_stage_outcome, consume_bootstrap, expire_pending_stages | called by every part of the gate, from several processes, one transaction per call |
| Dispatch outbox (`intent_store.py`, `dispatcher.py`, `../run_cross_ai_intent_dispatcher.py`) | `intent_dispatches`; the locals of each CLI process | queue, claim, snapshot, watermark, POST, mark/resolve, reconcile | GitHub's workflow-dispatch API |
| Reviews, bundle and evaluator (`provider.py`, `contract.py`, `coordinator.py`, `evaluator.py`, `workflow.py`, `bootstrap.py`, the runner's scripts) | review chains, trust keys, revocation lists, the bundle, the runner's package | issue, compose, evaluate read by read, authorize, verify, work, build evidence | registry, GitHub, Vault Transit |
| Policy service (`server.py`, `ledger.py`) | in-memory queue, two locks, `deliveries`, `decision_records` | accept, worker loop, process_polled, _enforce, _post_claimed_decision | ledger, registry, evaluator, GitHub |
| Sweeper (`reconciler.py`, `outcome.py`), runner bootstrap (`bootstrap.py`) | their thread and request locals | expire, reconcile; authorize | registry, GitHub runs and artifacts |
| Delivery poller (`delivery_poller.py`) | durable high-water mark, volatile health | poll_once | service, GitHub's delivery log |
| Transit bootstrap (`bootstrap_cross_ai_transit.py`) | none | one request after the other, receipt | Vault, another root holder |
| ETL worker and reconcile (`etl_worker/`) | `migration_runs`, `migration_table_state`, `migration_rejects`, the canonical tables, an advisory lock per run_id | run, resume, reconcile | a source in use, PostgreSQL through three sessions |
| Coordination ledger (`scripts/coordination`) | the branch, a local debt queue, the plans of operators and reapers, the issue's mirrors | emit, retry debt, claim, heartbeat, revoke, takeover, tombstone, reap, mirror | git remote, GitHub issues |
| Permit chain (`scripts/faz24/*transcript_ready*`) | evidence, verdict and token files | collect, verify, bootstrap, sign | the pipeline it observes, Vault |
| Viewer pilot evidence (`scripts/faz22-remote-ops`) | workflow runs and their artifacts | activate, browse, collect, produce, assemble, verify | broker, GitHub artifacts |
| Acceptance jobs (`scripts/faz24`) | one driver each | see `AcceptanceJob` below | HTTP services, kubectl, ssh |
| Promotion ledger, SLA monitor, Alertmanager bridge | ledger file; tracking issues; SMS counter, tokens, undelivered log | mark, gate, lag check; scan; alert to issue, SMS and mail | overlays and cluster; GitHub; GitHub, SMS gateway, Graph |

What is hard here. Every process may die between two transactions. A POST, a
push or an ssh call may take effect although its answer is lost. A worker, a
poller, a sweeper and a bootstrap handler move the same row between each
other's reads and writes; leases and grants expire under all of them. A batch
and its audit rows are committed in different sessions. A plan is made from a
ledger that grows before it is appended. And a collector reads one fact after
the other of a system that does not hold still, so that what it reports was
perhaps true of no moment. `PROJECT.json` lists the hazards line by line, with
the properties that would catch each.

What makes each part correct:

* registry: a grant is taken once by one run and settled once by a verified
  outcome; rollback and success exclude each other; browser evidence follows
  only a verified apply; a bootstrap bundle goes only to an approved run;
* outbox: at most one POST per job, its run above the recorded watermark;
* gate: a job works only under reviews that agreed knowing each other's
  answers, and under nothing revoked when its bootstrap was answered;
* service: one decision per run, no stage progress without GitHub's approval,
  no rollback beside a running apply, nobody waits for ever;
* ETL worker: a row of a VALIDATED table is loaded or recorded as a reject;
  the reject limit cannot be dodged by resuming; SUCCESS means complete;
* coordination ledger: one linear log whatever the pushes race; no denial is
  struck off that is not in it; an ousted session stays out;
* evidence: what is signed, marked or reported as passed was true of the
  system at a moment the evidence speaks of.

## 2. Modules

| Module | Models |
|---|---|
| `OneTimeGrant` | abstract: three grants per intent, each taken once and settled once |
| `StageRegistry` | `IntentRegistry`'s intent and stage tables; any caller may make any call at any time. Implements `OneTimeGrant` |
| `DispatchOutbox` | `intent_dispatches`, the dispatcher CLI processes, GitHub's workflow dispatch |
| `ReviewBundle` | pure: what `contract.py` verifies of reviews, chains, closure, consensus, lease, grant |
| `EvidenceGate` | extends it: providers, coordinator, evaluator, bootstrap, runner, one deployment |
| `PolicyService` | composition for one intent: `StageRegistry` extended with service, ledger, sweeper, bootstrap handler and GitHub's gate. Implements `StageRegistry` |
| `EtlWorker` | one run_id: its audit rows, the canonical tables, the processes started for it |
| `AppendOnlyLog` | abstract: a log that only grows, of distinct events |
| `LedgerAppend` | the write path of the coordination ledger. Implements `AppendOnlyLog` |
| `ClaimLedger` | the claims of one issue, replayed by two folds, and the planners |
| `PermitChain` | collector, verifier, Transit bootstrap, trust root and signer over a changing pipeline |
| `ViewerEvidence` | the viewer pilot's runs, artifacts, children, root and marker |
| `AcceptanceJob` | the frame of the fifteen lanes below: a driver (`job`) and the system it calls (`env`) |
| `RecorderE2e`, `ExpirySmoke`, `RealtimeLifecycle`, `AnalysisIngest` | acceptance of recording, session expiry, realtime transcription and result ingest |
| `GpuRollout`, `HostCeremony` | what changes the GPU host: rollout, permit recovery, promotion |
| `WgMasqProbe`, `AuditControls`, `MtlsPreflight` | collectors and verifiers of WireGuard, audit controls and the client certificate |
| `AlertBridge`, `DeliveryPoller`, `SlaMonitor`, `EtlReconcile`, `TransitBootstrap`, `PromotionLedger` | the operational services and commands of those names |
| `*Proofs` | the theorems: of the registry and the service (`PolicyServiceProofs`), the outbox and the gate (`DeploymentRunProofs`), the ETL worker, the coordination ledger (`CoordinationProofs`), the permit chain, the viewer pilot, and the fifteen lanes (`AcceptanceProofs`, `OperationsProofs`) |
| `MC_*` | the constants of the runs |

**State to code.** In `StageRegistry` a table column is a function of request
and stage; SQL NULL is `None`, -1 or 0 as the declaration says. A claim
stands for the triple `(run_id, run_attempt, app_rule_id)`. `approvedAt` is
what `stage_approved_at()` finds in the event log: only that event is kept.
Each public method is one action because it runs under `BEGIN IMMEDIATE` and
rolls back on every exception; calls that raise or repeat are not steps. A
sealed target in `ALLOWED_STAGE_TRANSITIONS` is left out of the model's table because
`transition_stage` refuses it first. `RecordStageOutcome` takes the run's start time and
the caller's own timestamp as parameters, since the code takes both from its
caller and either may lie in the past.

In `DispatchOutbox`, `pc` is where a CLI process stands between two calls of
`dispatch_stage` or `reconcile_dispatch`; `began` is the `current` it took at
its start, `found` the runs it fetched, `read` the row it read. A process may
die or raise at any point. An HTTP status is the class the code
gives it. GitHub's run IDs are positions in `runs`; a run created by somebody
else on the same tag and workflow is not `own`.

In `ReviewBundle` a digest is the identity of what it digests: a review's
digest is its position in the order of issue, a closure root the pair of
subject and entries. In `EvidenceGate` the evaluation, the authorization and
the runner's own verification are sequences of reads (environment, run, ref,
runners, workflow), and refs, runners, revocation lists and the clock change
between them. There is one lease and one deployment; a provider chains to its
own family's reviews; the runner verifies with the revocation list of its
pinned package; `authorize` does not read the Environment again.

In `PolicyService` a run has the name of its stage. `proc` is the one
enforcement that holds `_process_lock`; its `pc` moves through evaluate,
reserve, recheck, claim, post, complete, advance, one database or GitHub call
each. `sweep` is the sweeper's current `reconcile`, with the state (`seen`) and the time
(`at`) it took at its start. `Crash` loses the queue and every thread.
The poller is reduced to its effect here, `process_polled` of a delivery GitHub
logged as failed. `GateAfter` is GitHub: a 204 means the run has that decision, a
definitive refusal that the POST changed nothing, a timeout or an
exception nothing at all. `posted`, `abandoned` and `crashes` are history.

In `EtlWorker` every PostgreSQL transaction is an action, because the audit
session autocommits and the load session commits a batch or a row. `proc` holds the
locals of `run_orchestrator`, with `pc` between two transactions. A row is its
key; `Extract` decides what will happen to it: `transform_row` refuses it,
PostgreSQL refuses it for good, or neither. `rejects` holds the rows a record
stands for: a record without a `source_pk` stands for its batch. The inserts of
one `insert_rejects_batch` are taken as one step; part of them followed by an
error accounts for no more than none of them followed by the error. The counters of
`migration_table_state` are left out; nothing in the worker reads them. A
process that dies or raises does so at any point, and a statement
whose answer is lost is either its success or nothing, followed by an error.
`last` is history: what the last extraction of a table found and how it was
counted.

In `LedgerAppend` a prefix hash is the prefix. A writer reads it, comments,
fetches, replays, compares, appends in its work tree and pushes with a lease on
the commit it fetched; a push may succeed with its answer lost. The uuid of a
denial is its intent (uuid5). In `ClaimLedger` the log is represented by the
values of the two folds after its last event and the prefix hash by the number
of events; a planner keeps what it read and the number it read it at.

In `PermitChain` the collector's steps are its commands, each with the
observation and its time; the pipeline emits, processes, drains and enables
between them. A verdict and a signature name the evidence they are about. The
world is followed only while a collection is under way or its evidence is in
use; `CreateToken` is the operator's bootstrap after an accepted verdict; a
store has at most one accepted remediation.

In `ViewerEvidence` each workflow run is an action or two, in any order, and
the browser run may be repeated: GitHub may then list the artifacts of both
attempts. A child's binding is the attempt it was read from. `meter.sent` is the
broker's frame counter, `meter.others` history: the frames sent to sessions
other than each pilot.

In an acceptance lane `job.pc` is the driver's place, `env` what it calls.
Where a job exists to detect a fault, `env.fault` is chosen at the start among
those it looks for and none, and the property says that a pass means none.

Operators whose comment begins with "Mutant" are not part of the models: each is a
plausible bug, used to confirm that a property notices it.

## 3. Runs

| Run | Question | Result |
|---|---|---|
| `stage_registry` | Do the registry's grants survive every order of calls (`Inv`), and does it implement `OneTimeGrant`? | holds |
| `deployment_run` | Two processes on one job, dying anywhere, lost answers, foreign runs: one POST above a durable watermark? And from the reviews to the runner: did every family agree knowing the answers, and was nothing revoked when the bootstrap was answered? | holds |
| `policy_service` | One apply under repeated and lost deliveries, exceptions, ambiguous callbacks, one crash: one decision, no progress without approval, only registry steps? | holds |
| `policy_rollback` | Apply and rollback: is the rollback ever bound beside a running apply, or left without its prerequisite? | holds |
| `policy_liveness` | Are leases enforced, overdue stages resolved, recorded deliveries decided? | holds under `FairSpec` |
| `etl_worker` | A run and a resume, killed or failing between any two transactions, on a changing source: is a row lost, the limit dodged, SUCCESS hollow? | holds |
| `ledger_append` | Emitters and retriers that race, crash and lose push answers: one linear log, and no debt struck off in vain? | holds |
| `claim_ledger` | Plans from stale readings: does an ousted session stay out, do the two replays agree, are only current plans appended? | holds |
| `permit_chain` | Is a signed permit true of the moment it speaks of, fresh, and one per token? | holds |
| `viewer_evidence` | Does a marker speak of one pilot under one authorization, although runs are repeated between the reads? | holds |
| `acceptance_jobs` | Fifteen lanes: is what each job reports, or each service promises, true? | holds |
| `rollback_window` | Is an unlocked rollback lane admissible to the evaluator? | no |

Deadlock is not checked: a finished intent, a clock at its bound, a run
without a process left and a job with its verdict all stop.

**Bounds and why they are enough.** Time is in units chosen so that every
comparison of the code falls on both sides.

* `stage_registry`: one intent, three claims (one per stage; claims are
  symmetric), wait 2, headroom 1, expiry 4, clock to 5: leases at full length,
  clipped by the headroom, and a tick past the expiry. Rows of different
  intents meet only in `unique_run_rule`; the proofs cover any number.
* `deployment_run`: a behaviour follows the outbox or the gate, which share no
  variable. Outbox: one job (jobs share nothing but GitHub's run numbers), two
  symmetric processes, up to two runs of which one may be foreign before or
  after the POST, window 2, skew 1, clock to 3. Gate: two provider families,
  one finding, six kinds of provider execution, at most four reviews (a
  finding, its answer, and the final agreement of both), a review's life of one
  tick in a grant of two, one change (of a list, a ref, the runners, the
  environment), revocation of a review and of a key, a workflow file that
  passes inspection and one that does not. Issuing stops one tick before the
  clock's bound. The proofs cover any number of these.
* `policy_service`: the apply stage with bootstrap, one crash, a
  queue of one, clock to 3 with expiry 2. The row moves through every state.
* `policy_rollback`: two stages, no crash and no bootstrap, clock skew 1; exceptions already
  cut an enforcement off at any GitHub call, which is how a crash bites here.
* `policy_liveness`: the apply stage without bootstrap and crash.
* `rollback_window`: five-minute units with the code's constants (wait 30,
  headroom 15, window 10 minutes) and a grant of one hour.
* `etl_worker`: two symmetric processes (a run and a resume, or two racing
  for the lock), two tables with up to two rows and one row, one retry, a
  ratio of one half, and a mode of each kind the threshold knows. Two rows let
  a batch be partly refused, partly stored and partly rejected, and put the
  ratio on, below and above the limit; a second table makes the totals of a
  process differ from those of the run. The ratio is the same for the
  run and its resume, since both read it from the same configuration.
* `ledger_append`: two retriers, one emitter, two intents, one fresh uuid, a
  queue of three, one crash: two retriers with the same debt, and an event in
  between.
* `claim_ledger`: two sessions, two planners, four events, heartbeat window 0
  and life 1 on a clock to 2: a claim, its expiry or revocation, a takeover
  planned against a heartbeat, and what follows.
* `permit_chain`: one event, two signers, one token, one collection, ages of
  one tick on a clock to 3, the reactivation mode (the stricter of the two).
* `viewer_evidence`: two attempts with a pilot each, one termination case and
  the negative one, two activations, one frame, clock to 1.
* `acceptance_jobs`: the constants at the head of each lane, with what they
  stand for: one or two of each object, one or two faults or changes, and the
  code's limits (SMS cap, hour, overlap, page cap, ages, windows) so small that
  each is reached and passed. The proofs cover any values.
* `MaxClock`, `MaxMinutes`, `MaxNow`, `MaxRuns`, `MaxCrashes`, `MaxEvents`, `MaxQueue`,
  `MaxReviews`, `MaxChanges`, `MaxActivations`, `MaxFrames`, `MaxCollections`,
  `MaxOccurrences`, `QueueSize` and the lanes' own are bounds of the models, not
  of the programs.

**Fairness** (`FairSpec` of `PolicyService`). The sweeper is a thread that loops for ever, calls
`expire_pending_stages` and then `reconcile` for every pending stage in each
round, and catches every exception, so its three working steps are strongly
fair: they are disabled only while it is busy with another row, and a GitHub
read that sometimes fails is tried again. `pending_stages` returns at most 100 rows, which one
intent cannot reach. The worker takes what is queued and an enforcement goes
on (weak fairness): every GitHub call has a timeout. Nothing is assumed about
time, GitHub's runs, crashes or the poller.

## 4. What the models show beyond the code's own tests

`rollback_window` is a finding: the evaluator's ten minutes from finalization
apply to the rollback stage too, although an apply lease alone may last thirty.

`RollbackAfterApplyRun` holds although a crash may leave a Rejected row beside
an approved run: a run is terminal before its stage becomes CallbackUnknown, a
second evaluation refuses a completed run, and one lock serialises the
enforcements.

Met while modelling, and not part of any property:

* **Dispatcher.** `mark_dispatch_posted` leaves the row `Sending`, so the CLI
  exits 3 after a 204, where the runbook (line 532) says 0. A reconcile that
  read the row before a 204 was recorded passes its stale `http_status` to
  `resolve_dispatch` and erases it (`dispatcher.py:299`).
* **Service.** The queue is in memory: a crash after the 202 loses a delivery
  GitHub believes delivered, and its dedup row stays (runbook 304-305). After a
  crash between approval and `complete_decision`, a polled retry whose recheck
  fails rejects a stage that is running. A late 204 moves CallbackUnknown back
  to ApprovedPendingOutcome, which ADR 0045:730 allows only with a verified
  outcome. A webhook that arrives before reconcile-dispatch accepted the run
  (`evaluator.py:476`) is refused for good. `pending_stages` returns 100 rows.
* **Gate.** `_verify_closure` and `_verify_consensus` (`contract.py:853-926`)
  look only at the reviews in the bundle; a dissent the coordinator left out is
  not missed, where ADR 0045:305-307 asks for every one of them.
* **Coordination.** `load_queue` (`retry-audit-debt.py:132-149`) counts terminal
  markers against its limit, so later debts may never load. `derive_claims`
  ignores TAKEOVER, so the mirror check flags drift after a committed takeover.
  A TAKEOVER_COMMITTED payload has no `claim_expires_at`; a TOMBSTONE does not
  stop a later claim; the reaper may call a session stale from its old claim.
* **Permit chain.** The signer's cleanup unlinks the token path even if a new
  bootstrap wrote another token there; it looks only at the pod's observation
  age.
* **Viewer.** The collectors as committed list only `evidence/browser.json`
  (`matrix-collector.yml:137-140`, `termination-collector.yml:149-152`) while the
  browser run uploads three files and `extract-exact-zip.py:54-59` refuses
  extra ones; the instance uses the full list. The "ended" metric is global.
* **ETL.** The advisory lock lives in a session whose loss the process does not
  notice; two run_ids on the same tables take different locks. In
  `EtlReconcile` the full scope never compares checksums (354-361), a rejected
  row never loaded counts as a match, the CLI exits 0 whatever the verdict, and
  `--scope delta` always raises.
* **Lanes.** `GpuRollout`: when the pin's exit code is lost the source stays
  pinned and a retry never rolls back; an ssh timeout leaves the script
  running. `HostCeremony`: a stray script can undo the fence. `AlertBridge`: a
  failed search opens a duplicate or leaves a resolved issue open; a page is
  lost when the thread's send fails; the cap counts groups. `DeliveryPoller`:
  a delivery that cannot be enforced blocks those behind it until
  `max_delivery_age`. `SlaMonitor`: the headSha fallback takes a rollback run
  for a deploy (50-55). `RealtimeLifecycle`: `create_lifecycle` raising after
  `start_session` leaks the session. `RecorderE2e`: the smoke never finishes
  its session on failure; the log check reads the pod seen at collection.
  `AuditControls` trusts the timestamps of the clock it vouches for.
  `WgMasqProbe` reads a counter that other traffic shares. `TransitBootstrap`:
  `created` under-reports after a lost answer. `PromotionLedger`: the smoke
  never looks at digests while the marker records those of the checkout's
  overlay; the lag check looks only at the latest verified digest.

## 5. What is proved

Every theorem is for any value of the constants under the assumptions named in
the modules: times and bounds are natural numbers, sets that must not meet do
not, NULL is no value. None of the bounds of section 3 is assumed small.

**`PolicyServiceProofs`**, registry (`TimeAssumption`, `NoneAssumption`).
`RegistryInvariant`: `Spec => []Inv`. `Inv` is the conjunction of the type
invariant and the safety invariants with one addition, `ApprovedHasEvent`:
`BootstrapOnlyApproved` is not inductive without it, because a bundle is
handed out on the state `ApprovedPendingOutcome` and not on the event.
`RollbackExcludesSuccess` and `BrowserNeedsVerifiedApply` need each other: a
rollback starts from CallbackUnknown or Failed, where the second says no
browser stage is open. `NoSuccessBesideRollback` and `OneStagePerClaim` are
parts of it, `NothingFreed` the action property `NeverFreed`, and
`RegistryRefinesGrant` the refinement of `OneTimeGrant` with the mapping
`Phase`: the four waiting states are one held grant, Rejected a void one. The
argument is per row: lemmas say which pairs of old and new row each action
allows, and the invariants follow from those pairs.

**`PolicyServiceProofs`**, service (also `ServiceAssumption`, `RowAssumption`).
`ServiceRefinesRegistry`: every step of every thread is a call `StageRegistry`
allows or leaves the registry alone, so the registry's theorems hold of the
service (`ServiceKeepsRegistry` spells one out). `SvcInvariant` is the
inductive invariant behind `DecisionGatesProgress` and `NoConcurrentWriters`:
the decision row precedes the POST, so an enforcement past `claim_decision`
works for the row's decision and a second one for the same; nothing runs or
moves behind a closed gate; unknown and sealed rows belong to runs that are
over, since the sweeper takes both from a terminal run and the service from a
completed one; and beside a bound rollback an enforcement of the apply holds no
reservation, so none can bring it back. `RollbackAfterApplyRun` alone says
nothing of the enforcement or the sweeper that is on its way.

**`DeploymentRunProofs`**, outbox (`OutboxAssumption`). `OnePostPerJob` proves
`OnePostAboveWatermark` for any number of jobs and processes. Its invariant
`OutboxInv` adds `OneClaim` (at most one process is past the claim of a job, and
only while the row is Sending), `NotYetPosted` (nothing of the job is on its
way before that process posts) and `WatermarkStands` (what it recorded never
exceeds the runs there are, which only grow).

**`DeploymentRunProofs`**, gate (`LifetimesAssumption`, `BoundsAssumption`).
`AgreedKnowing` proves `AgreedKnowingTheAnswers`, `RevocationStops`
`RevokedBeforeAnswerNeverWorks`. `GateInv` says of the reviews that digests are
positions, rounds rise along a chain and a closure root names older reviews
only (`ReviewsInv`); of a finalized bundle that its families agree and its
findings are answered (`BundleInv`, from lemmas on what `verify_bundle`
accepts); and of a run on its way that what was checked so far was clean when
it was read (`RunShape`, `AnswersClean`). The property itself only speaks of
jobs that have worked.

**`EtlWorkerProofs`** (`EtlAssumption`: no table twice in the manifest, finite
sets of rows). `EtlInvariant`: `HoldsLock` makes the process at work the only
one; `BatchAccounted` says for every `pc` where the rows of the batch are:
still to be tried, stored, collected in `LoadStats`, or recorded; `LoopPlace`
says that a VALIDATED table is one the process skips or has passed; `RunExists`
and `Untouched` tie a new run to tables nobody has validated. `NoRowLost`,
`SuccessComplete` and the action property `ValidatedFinal` follow.
`LimitOverResumes` proves `LimitHoldsOverResumes` from a second invariant,
`LimitInv`: the totals of a process (`Counted`) are those of the tables
validated since it attached and of the one in work; what it skips was within the
limit when it attached, `should_abort` keeps the rest within it, and two totals
within a ratio add up to one within it (`WithinAdds`). Without the first part
nothing ties the totals of a resumed process, which start from zero, to what
earlier processes validated. The sums of `MapThenSumSet` are a recursion over a
finite set; that it has exactly one solution, and that the order in which the
tables are taken is irrelevant, is shown on a smallest counterexample
(`LeastFiniteSet`), which takes the place of an induction.

**`CoordinationProofs`**, write path (`LedgerConstants`). `LedgerInv`: a candidate about to
be pushed was validated against the base it carries, which is what the lease
compares with the branch, and a terminal marker, or a writer about to leave
one, has its event in the branch.
`NothingWrittenOff` proves `AckedIsRecorded`; `LedgerRefinesLog` proves
`RefinesLog`: a push is a step of `AppendOnlyLog`, everything else a stutter,
and distinctness is the refusal of a uuid already in the replayed base.

**`CoordinationProofs`**, claims (`ClaimConstants`). `ClaimInv`: the winner of the replay
is nobody ousted, both replays agree, and every plan made at the present number
of events is still due. Time passes under a plan, so being due is stated so
that it is stable under the clock; an event raises the number and makes every
other plan old. `OustedOut`, `FoldsAgree` and the action property
`PlansCurrent` follow.

**`PermitChainProofs`** (`PermitConstants`). `PermitInv` says for each place of
the collector which observations it holds and what they prove of the world
(`CollectorOk`); what an evidence file proves (`EvidenceOk`) and which file a
verdict is about (`IdsOk`); and that a signer in possession of a token is
counted with it (`HeldTokens`, `TokensCounted`, `SignersJustified`).
`PermitsJustified` and `PermitPerToken` are the two properties of the run.

**`ViewerEvidenceProofs`** (`ViewerConstants`). `MarkerOnePilot` proves
`OnePilot`, `MarkerAuthorized` `UnderOneAuthorization` and `CasesTerminate`
`TerminationProven`, for any number of attempts, cases, activations and frames
and any windows. `ViewerInv` rests on what no re-run changes (`Keeps`): the
record and the session of a settled attempt, an issued authorization, a finished
collector. The first read of the counters precedes every frame of the pilot and
the second one follows the last (`ReadsInOrder`, `SessionsFollow`), so that a
child whose frame count agrees excludes frames of others. The D30 child carries
no session, and a producer may read its two artifacts from different attempts:
such a child names an attempt older than the one its snapshots came from
(`HalvesOk`), and since a run lists its browser child before its snapshots
(`ShelvesInOrder`), the older attempt's child is never again the only one listed
and the assembler never takes it (`KidsOk`). `RootOk` carries this from the
assembled root to the marker.

**`AcceptanceProofs`** (`MasqAssumption`, `ControlsAssumption`: the limits are
natural numbers). `AcceptanceInvariant` proves the invariants of the eight
acceptance jobs, each of which gives the property of its lane. A verdict is
about a system that went on changing after it was read, so what has to be shown
is which readings still stand, and why.

* `RecorderE2e` (`RecordingsAreReal`): the answered calls put the recording
  where it is (`CallsMade`), and a result or a chained audit row once seen is
  never taken back (`CollectedStands`).
* `ExpirySmoke` (`ExpiryVerdictsAreSound`): each fault shows in a metric and is
  ruled out from a known step on (`FaultsShow`); the first session keeps its
  reservation until its cleanup as long as no chunk was dropped, which the smoke
  notices only at the reuse (`FirstIsTracked`).
* `RealtimeLifecycle` (`RealtimeVerdictsAreLive`): an event still in flight
  tells when it was sent (`EventsInOrder`), so a usable one read before the
  recording is closed was published before the end of file; a later run never
  has the number that was read (`ReadIsStored`).
* `AnalysisIngest` (`IngestIsIdempotent`): how many capabilities and writes a
  job without a failed check has behind it, and what each has ruled out.
* `GpuRollout` (`RolloutVerdictsAreTrue`): the flag the rollback goes by says
  whether the source moved (`PinIsTracked`), and after the updater deployed only
  workers move, onto the target (`DeployStands`).
* `WgMasqProbe` (`MasqProbesAreCarried`): between the two reads the counter is
  at most what it was and what the rule carried (`CounterInWindow`); less, when
  the rule was installed anew.
* `AuditControls` (`ControlsAreRecent`): a snapshot has the host's time, and a
  clock that is not synchronized is among its failures (`SnapshotTrue`).
* `MtlsPreflight` (`MtlsMaterialIsServed`): Secret, mount and STT host have seen
  nothing that was not at the Vault path (`MaterialFlows`); what a preflight
  without a failure code has ruled out at each step (`PreflightRules`).

**`OperationsProofs`** (`BridgeAssumption`, `PollerAssumption`, `SlaAssumption`,
`ReconcileAssumption`, `PromotionAssumption`: limits are natural numbers, the
manifest has a table, its keys are a finite set of numbers).
`OperationsInvariant` does the same for the seven services and gates.

* `AlertBridge` (`AlertsAreOnRecord`, `SmsCapAlwaysHolds`): the counter of
  `_sms_allowed` is exactly the tail of all pages that is not older than an hour
  (`CounterIsTail`), which is what spaces the pages `SmsCap` apart; while the
  calls are answered truthfully the open issues follow the last answered
  webhook and what the handler found (`IssuesFollow`).
* `DeliveryPoller` (`ReadyPollerIsCaughtUp`): behind the high-water mark less
  the overlap nothing is undecided that has not outlived `max_delivery_age`
  (`BehindHighWater`), and what an advance could pass over is due in the cycle
  (`CycleCovers`). Both need that GitHub lists a delivery within the overlap.
* `SlaMonitor` (`CleanScansSeeOverdue`): each overdue fix of a scan is still to
  come, at hand, deployed or covered by an open issue (`ScanComplete`).
* `HostCeremony` (`CeremonyReportsAreTrue`): an annotation for each step of each
  script, saying what the host is like once the step was taken (`HostTracks`).
  It holds while no script outlived its call (`CalmTracks`).
* `EtlReconcile` (`MatchesMeanSameRows`): the four queries read at four times,
  and a match needs that PostgreSQL overwrites rows and never deletes them: a
  key found by the lookup is in the checksum (`LookedUp`, `Summed`). With equal
  counts both key sets are equal, and equal aggregates are equal row by row
  because the ranks of a finite set of keys are its positions (`RankOrders`).
* `TransitBootstrap` (`ReceiptsAreWhatWasRead`): what the run has seen holds
  unless someone changed it since (`Prepared`), key by key (`KeysRead`).
* `PromotionLedger` (`PromotionsHaveEvidence`): prod, every base a pull request
  was opened on and every gated pull request hold digests with evidence only
  (`ProdBacked`); exact evidence is of an image that was probed (`ProbeTracks`).

A behaviour follows one lane (`LaneStays`), so the invariants of the lanes are
independent of one another; `OperationsProofs` extends `AcceptanceProofs` for
that lemma alone.

All these inductive invariants were checked by TLC on the runs' instances
before they were proved.

**Only model-checked.** The three liveness properties, since fairness and
ENABLED are out of the prover's reach, and `UnlockedRollbackAdmissible`, which
does not hold. Every invariant, action property and refinement of a passing run
has a theorem.

## 6. Not modelled

Cryptography, canonical encoding and DSSE envelopes, taken to work; webhook and
OIDC parsing; the content-addressed store; the hash-chained `ledger_events`;
observe mode, which changes no state; database failures; re-runs of a stage's
run (a new attempt never matches the stored claim); review chains across
provider families; more than one runner lease. Of the ETL worker: `status` and
`rejects`, which only read; `copy_to_raw_staging`, which nothing calls; the
loss of the lock's session and a second run_id. Of the evidence chains: broker
restarts, re-runs of the activation and the revocation ledger, a file of the
commit; dead-letter recovery; evidence written by hand and the git_sha
fallback of the promotion gate. Elsewhere: the operator package builders, the
verifiers of self-declared gates, the linters of `ci/`, `drift_detection/` and
`governance/`, which are sequential programs over files, and manifests, Argo CD
applications and host configuration, which are data.

## 7. Plan

Done: all the modules above; the theorems of section 5. Next:

1. The sweeper's round over many intents with the limit of `pending_stages`.
2. `EtlWorker` with a second run_id, to say what the last writer leaves in a
   canonical table.
3. Re-runs of the viewer's activation, and broker restarts, in `ViewerEvidence`.
