--------------------------- MODULE DispatchOutbox ---------------------------
(***************************************************************************)
(* The dispatch outbox: the intent_dispatches table (intent_store.py), the *)
(* dispatcher CLI processes that work on it (IntentDispatchOrchestrator,   *)
(* run_cross_ai_intent_dispatcher.py) and GitHub's workflow-dispatch       *)
(* endpoint.  Every registry call is one transaction and one action; the   *)
(* calls of one CLI process interleave with those of every other, and a    *)
(* process may die, or fail on an external call, between any two of them.  *)
(*                                                                         *)
(* GitHub is external: it hands out growing run IDs, may answer a POST     *)
(* ambiguously whether or not it took it, and may create the run late.     *)
(* Every job has a workflow of its own, so a run belongs to one job; it is *)
(* foreign when no POST of this outbox asked for it.                       *)
(***************************************************************************)
EXTENDS Integers, Sequences

CONSTANTS
  Jobs,               \* (request, stage) pairs of finalized intents
  Workers,            \* CLI processes
  NoValue,            \* SQL NULL
  FinalizedAt,        \* intents.finalized_at of each job's intent
  IntentExpiresAt,    \* intents.expires_at of each job's intent
  MaxDispatchDelay,   \* MAX_DISPATCH_DELAY, 10 minutes
  MaxQueryWindow,     \* the 15 minutes workflow_runs_for_dispatch accepts
  MaxClockSkew,       \* maxClockSkewSeconds of the trust root, at most 5 minutes
  MaxNow,             \* bound on the modelled clock
  MaxRuns             \* bound on the runs foreign ones may add up to

ASSUME OutboxAssumption ==
  /\ FinalizedAt \in [Jobs -> Nat]
  /\ IntentExpiresAt \in [Jobs -> Nat]
  /\ MaxDispatchDelay \in Nat \ {0}
  /\ MaxQueryWindow \in Nat
  /\ MaxClockSkew \in Nat
  /\ MaxNow \in Nat
  /\ MaxRuns \in Nat
  /\ NoValue \notin Nat \cup Jobs

VARIABLES
  now,
  \* the intent_dispatches row of each job
  dstate,       \* state, "Absent" when there is no row
  claimedAt,    \* claimed_at
  watermark,    \* pre_dispatch_run_id_watermark
  httpStatus,   \* http_status, as the class of the answer it stands for
  runId,        \* run_id
  \* GitHub
  runs,         \* the runs by run ID: [job, created, own]
  inflight,     \* jobs whose accepted POST has not become a run yet
  \* the CLI processes
  pc, job, began, result, found, read, exit,
  \* history
  posts         \* workflow-dispatch POSTs sent for each job

rowVars == <<dstate, claimedAt, watermark, httpStatus, runId>>
githubVars == <<runs, inflight>>
outboxVars == <<now, rowVars, githubVars, pc, job, began, result, found, read,
                exit, posts>>

-----------------------------------------------------------------------------
\* What dispatch_workflow makes of an answer: an empty 204; a timeout, 5xx,
\* 408, 409, 422, 425, 429 or a 204 with a body; any other status.
PostResults == {"accepted", "ambiguous", "rejected"}

OutboxInit ==
  /\ now = 0
  /\ dstate = [j \in Jobs |-> "Absent"]
  /\ claimedAt = [j \in Jobs |-> NoValue]
  /\ watermark = [j \in Jobs |-> NoValue]
  /\ httpStatus = [j \in Jobs |-> NoValue]
  /\ runId = [j \in Jobs |-> NoValue]
  /\ runs = << >>
  /\ inflight = {}
  /\ pc = [w \in Workers |-> "idle"]
  /\ job = [w \in Workers |-> NoValue]
  /\ began = [w \in Workers |-> 0]
  /\ result = [w \in Workers |-> NoValue]
  /\ found = [w \in Workers |-> {}]
  /\ read = [w \in Workers |-> NoValue]
  /\ exit = [w \in Workers |-> NoValue]
  /\ posts = [j \in Jobs |-> 0]

\* main(): 0 for an Accepted job, 3 for any other job it prints.
ExitCode(state) == IF state = "Accepted" THEN 0 ELSE 3

\* The process of w ends with the given exit code; its locals are gone.
Ends(w, code) ==
  /\ pc' = [pc EXCEPT ![w] = "idle"]
  /\ exit' = [exit EXCEPT ![w] = code]
  /\ found' = [found EXCEPT ![w] = {}]
  /\ read' = [read EXCEPT ![w] = NoValue]
  /\ began' = [began EXCEPT ![w] = 0]

GoesTo(w, label) ==
  /\ pc' = [pc EXCEPT ![w] = label]
  /\ UNCHANGED <<exit, found, read, began>>

-----------------------------------------------------------------------------
(* dispatch-stage *)

\* queue_dispatch.  A job not in the table yet is inserted when its stage is
\* Available and its prerequisite holds, which StageRegistry models and this
\* module leaves open.  A job in the table is returned as it is.
Queue(w, j) ==
  /\ pc[w] = "idle"
  /\ now < IntentExpiresAt[j]
  /\ FinalizedAt[j] <= now
  /\ job' = [job EXCEPT ![w] = j]
  /\ result' = [result EXCEPT ![w] = NoValue]
  /\ dstate' = IF dstate[j] = "Absent" THEN [dstate EXCEPT ![j] = "Pending"]
                                       ELSE dstate
  /\ IF dstate'[j] = "Pending"
       THEN /\ pc' = [pc EXCEPT ![w] = "queued"]
            /\ began' = [began EXCEPT ![w] = now]
            /\ UNCHANGED <<exit, found, read>>
       ELSE Ends(w, ExitCode(dstate[j]))
  /\ UNCHANGED <<now, claimedAt, watermark, httpStatus, runId, githubVars,
                 posts>>

\* claim_dispatch: the row's compare-and-swap from Pending to Sending, with
\* the time the process began.
Claim(w) ==
  /\ pc[w] = "queued"
  /\ IF dstate[job[w]] = "Pending"
       THEN /\ dstate' = [dstate EXCEPT ![job[w]] = "Sending"]
            /\ claimedAt' = [claimedAt EXCEPT ![job[w]] = began[w]]
            /\ GoesTo(w, "claimed")
       ELSE /\ UNCHANGED <<dstate, claimedAt>>
            /\ Ends(w, 2)
  /\ UNCHANGED <<now, watermark, httpStatus, runId, githubVars, job,
                 result, posts>>

\* workflow_runs_for_dispatch answers for a window that is neither empty nor
\* longer than 15 minutes.
SnapshotWindowValid(j) ==
  /\ FinalizedAt[j] < now
  /\ now - FinalizedAt[j] <= MaxQueryWindow

\* The runs of the job's workflow that exist before the POST.
Snapshot(w) ==
  /\ pc[w] = "claimed"
  /\ SnapshotWindowValid(job[w])
  /\ pc' = [pc EXCEPT ![w] = "snapshotted"]
  /\ found' = [found EXCEPT ![w] =
       {i \in DOMAIN runs : /\ runs[i].job = job[w]
                            /\ FinalizedAt[job[w]] <= runs[i].created}]
  /\ UNCHANGED <<now, rowVars, githubVars, job, began, result, read, exit,
                 posts>>

\* max(run_ids, default=0)
HighestOf(ids) ==
  IF ids = {} THEN 0 ELSE CHOOSE i \in ids : \A k \in ids : k <= i

\* record_dispatch_watermark: written once; the same value again is accepted
\* (snapshot_at, which must be the same too, is not modelled).
RecordWatermark(w) ==
  LET high == HighestOf(found[w]) IN
  /\ pc[w] = "snapshotted"
  /\ IF dstate[job[w]] = "Sending" /\ watermark[job[w]] \in {NoValue, high}
       THEN /\ watermark' = [watermark EXCEPT ![job[w]] = high]
            /\ GoesTo(w, "ready")
       ELSE /\ UNCHANGED watermark
            /\ Ends(w, 2)
  /\ UNCHANGED <<now, dstate, claimedAt, httpStatus, runId, githubVars, job, result, posts>>

\* Mutant: an ambiguous POST is sent again.
PostWithRetry(w) ==
  /\ pc[w] = "ready"
  /\ posts' = [posts EXCEPT ![job[w]] = @ + 1]
  /\ \/ /\ result' = [result EXCEPT ![w] = "ambiguous"]
        /\ UNCHANGED <<inflight, pc>>
     \/ /\ result' = [result EXCEPT ![w] = "accepted"]
        /\ inflight' = inflight \cup {job[w]}
        /\ pc' = [pc EXCEPT ![w] = "posted"]
  /\ UNCHANGED <<now, rowVars, runs, job, exit, found, read, began>>

\* dispatch_workflow.  An accepted POST was taken, an ambiguous one may have
\* been, any other was not.
Post(w) ==
  /\ pc[w] = "ready"
  /\ posts' = [posts EXCEPT ![job[w]] = @ + 1]
  /\ \E res \in PostResults :
       /\ result' = [result EXCEPT ![w] = res]
       /\ \/ /\ res # "rejected"
             /\ inflight' = inflight \cup {job[w]}
          \/ /\ res # "accepted"
             /\ UNCHANGED inflight
  /\ GoesTo(w, "posted")
  /\ UNCHANGED <<now, rowVars, runs, job>>

\* mark_dispatch_posted: the 204 is recorded and the row stays Sending, to be
\* accepted when its run is found; an Accepted row is returned unchanged.
MarkPosted(w) ==
  LET j == job[w] IN
  /\ pc[w] = "posted" /\ result[w] = "accepted"
  /\ IF dstate[j] = "Sending" /\ httpStatus[j] \in {NoValue, "accepted"}
       THEN /\ httpStatus' = [httpStatus EXCEPT ![j] = "accepted"]
            /\ Ends(w, ExitCode("Sending"))
       ELSE /\ UNCHANGED httpStatus
            /\ Ends(w, IF dstate[j] = "Accepted" THEN 0 ELSE 2)
  /\ UNCHANGED <<now, dstate, claimedAt, watermark, runId, githubVars, job, result, posts>>

\* resolve_dispatch, called with a result the caller saw; only a Sending row
\* changes.
Resolve(j, state, status) ==
  /\ dstate' = [dstate EXCEPT ![j] = state]
  /\ httpStatus' = [httpStatus EXCEPT ![j] = status]

Unaccepted(res) == IF res = "ambiguous" THEN "Uncertain" ELSE "Rejected"

ResolvePost(w) ==
  /\ pc[w] = "posted" /\ result[w] # "accepted"
  /\ IF dstate[job[w]] = "Sending"
       THEN /\ Resolve(job[w], Unaccepted(result[w]), result[w])
            /\ Ends(w, 3)
       ELSE /\ UNCHANGED <<dstate, httpStatus>>
            /\ Ends(w, 2)
  /\ UNCHANGED <<now, claimedAt, watermark, runId, githubVars, job,
                 result, posts>>

-----------------------------------------------------------------------------
(* reconcile-dispatch *)

Reconcilable(state) == state \in {"Sending", "Uncertain"}

\* get_dispatch and the checks on the row it returned.
StartReconcile(w, j) ==
  /\ pc[w] = "idle"
  /\ now <= IntentExpiresAt[j] + MaxClockSkew
  /\ Reconcilable(dstate[j])
  /\ watermark[j] # NoValue
  /\ job' = [job EXCEPT ![w] = j]
  /\ began' = [began EXCEPT ![w] = now]
  /\ result' = [result EXCEPT ![w] = NoValue]
  /\ read' = [read EXCEPT ![w] = [state |-> dstate[j],
                                  status |-> httpStatus[j]]]
  /\ pc' = [pc EXCEPT ![w] = "reconciling"]
  /\ UNCHANGED <<now, rowVars, githubVars, found, exit, posts>>

WindowEnd(j) ==
  IF claimedAt[j] + MaxDispatchDelay <= IntentExpiresAt[j]
    THEN claimedAt[j] + MaxDispatchDelay
    ELSE IntentExpiresAt[j]

\* _matching_run: dispatched on the signed ref after the watermark and within
\* the window of the claim.
Matching(j, i) ==
  /\ runs[i].job = j
  /\ watermark[j] < i
  /\ claimedAt[j] <= runs[i].created
  /\ runs[i].created <= WindowEnd(j)

FetchRuns(w) ==
  /\ pc[w] = "reconciling"
  /\ found' = [found EXCEPT ![w] =
                 {i \in DOMAIN runs : Matching(job[w], i)}]
  /\ pc' = [pc EXCEPT ![w] = "fetched"]
  /\ UNCHANGED <<now, rowVars, githubVars, job, began, result, read, exit,
                 posts>>

\* Several matches, or none after the window: a row read as Sending becomes
\* Uncertain, with the status that was read.  A write the row refuses ends the
\* process with 2, unless the row already holds this very resolution (its
\* reason code, which tells the two cases apart, is not modelled).
GiveUp(w) ==
  LET j == job[w]
      many == \E i, k \in found[w] : i # k
      late == found[w] = {} /\ WindowEnd(j) < began[w]
      writes == read[w].state = "Sending" /\ (many \/ late)
  IN
  /\ pc[w] = "fetched"
  /\ many \/ found[w] = {}
  /\ IF writes /\ dstate[j] = "Sending"
       THEN Resolve(j, "Uncertain", read[w].status)
       ELSE UNCHANGED <<dstate, httpStatus>>
  /\ \/ many /\ Ends(w, 2)
     \/ ~many /\ Ends(w, 3)
     \/ writes /\ dstate[j] # "Sending" /\ Ends(w, 2)
  /\ UNCHANGED <<now, claimedAt, watermark, runId, githubVars, job,
                 result, posts>>

\* Exactly one match: IntentRegistry.reconcile_dispatch accepts it if the row
\* is still open.
AcceptRun(w) ==
  LET j == job[w] IN
  /\ pc[w] = "fetched"
  /\ \E i \in found[w] :
       /\ found[w] = {i}
       /\ IF Reconcilable(dstate[j])
            THEN /\ dstate' = [dstate EXCEPT ![j] = "Accepted"]
                 /\ runId' = [runId EXCEPT ![j] = i]
                 /\ Ends(w, 0)
            ELSE /\ UNCHANGED <<dstate, runId>>
                 /\ Ends(w, IF dstate[j] = "Accepted" /\ runId[j] = i
                              THEN 0 ELSE 2)
  /\ UNCHANGED <<now, claimedAt, watermark, httpStatus, githubVars, job, result, posts>>

-----------------------------------------------------------------------------
\* The process dies, or an external call of it raises (exit code 2).
Abort(w) ==
  /\ pc[w] # "idle"
  /\ Ends(w, 2)
  /\ UNCHANGED <<now, rowVars, githubVars, job, result, posts>>

\* GitHub creates the run of a POST it took.
CreateRun(j) ==
  /\ j \in inflight
  /\ inflight' = inflight \ {j}
  /\ runs' = Append(runs, [job |-> j, created |-> now, own |-> TRUE])
  /\ UNCHANGED <<now, rowVars, pc, job, began, result, found, read, exit,
                 posts>>

\* Somebody dispatches the workflow on the signed ref by other means.
CreateForeignRun(j) ==
  /\ Len(runs) < MaxRuns
  /\ runs' = Append(runs, [job |-> j, created |-> now, own |-> FALSE])
  /\ UNCHANGED <<now, rowVars, inflight, pc, job, began, result, found,
                 read, exit, posts>>

OutboxTick ==
  /\ now < MaxNow
  /\ now' = now + 1
  /\ UNCHANGED <<rowVars, githubVars, pc, job, began, result, found, read,
                 exit, posts>>

OutboxNext ==
  \/ OutboxTick
  \/ \E j \in Jobs : CreateRun(j) \/ CreateForeignRun(j)
  \/ \E w \in Workers :
       \/ \E j \in Jobs : Queue(w, j) \/ StartReconcile(w, j)
       \/ Claim(w) \/ Snapshot(w) \/ RecordWatermark(w) \/ Post(w)
       \/ MarkPosted(w) \/ ResolvePost(w)
       \/ FetchRuns(w) \/ GiveUp(w) \/ AcceptRun(w)
       \/ Abort(w)

OutboxSpec == OutboxInit /\ [][OutboxNext]_outboxVars
-----------------------------------------------------------------------------
(***************************************************************************)
(* Properties.                                                             *)
(***************************************************************************)
\* However many CLI processes work on a job and wherever they die, GitHub
\* receives at most one workflow-dispatch POST for it ("automatic dispatch is
\* limited to one durable claim"); its watermark is durable before that POST,
\* and the run the POST creates, at once or late, always lies above it, so
\* that reconciliation can tell it from every run that was there before.
OnePostAboveWatermark ==
  \A j \in Jobs :
    /\ posts[j] <= 1
    /\ posts[j] > 0 => watermark[j] # NoValue
    /\ \A i \in DOMAIN runs : runs[i].job = j /\ runs[i].own =>
         posts[j] > 0 /\ watermark[j] < i
=============================================================================
