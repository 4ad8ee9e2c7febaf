---------------------------- MODULE PolicyService ----------------------------
(***************************************************************************)
(* The policy service in enforce mode (server.py) around the registry: the *)
(* webhook handler, the worker and the delivery poller (which share        *)
(* _process_lock, so at most one of them enforces a run at a time), the    *)
(* decision ledger (ledger.py), the outcome sweeper (reconciler.py), the   *)
(* runner-bootstrap handler (bootstrap.py) and GitHub's deployment gate,   *)
(* for one signed intent.                                                  *)
(*                                                                         *)
(* Each stage has one run, named after it: the outbox posts one dispatch   *)
(* per stage (DispatchOutbox) and a new attempt of a run never matches the *)
(* reservation or the decision of the first.  Every database call is one   *)
(* step, every GitHub call is one step, and the threads interleave between *)
(* them.  A crash loses the queue and every thread; the two databases and  *)
(* GitHub keep their state.                                                *)
(***************************************************************************)
EXTENDS StageRegistry, Sequences

CONSTANTS
  Req,               \* the signed intent
  Active,            \* the stages whose workflows are dispatched
  Bootstrapping,     \* those of them whose job asks for its bootstrap bundle
  Unreliable,        \* those of them whose webhook delivery may fail
  RejectCodes,       \* reason codes of a failed evaluation
  MaxDispatchDelay,  \* MAX_DISPATCH_DELAY of evaluator.py, 10 minutes
  MaxBootstrapDelay, \* MAX_BOOTSTRAP_DELAY, 2 minutes
  MaxClockSkew,      \* maxClockSkewSeconds of the trust root, at most 5 minutes
  QueueSize,         \* queue_size of the in-memory queue
  MaxCrashes         \* bound on the modelled crashes

ASSUME ServiceAssumption ==
  /\ Req \in Requests
  /\ Active \subseteq Stages /\ Active \subseteq Claims
  /\ Bootstrapping \subseteq Active /\ Unreliable \subseteq Active
  /\ MaxDispatchDelay \in Nat
  /\ MaxBootstrapDelay \in Nat
  /\ MaxClockSkew \in Nat

\* The rows claim_decision inserts; none of them is the missing row.
DecisionRows ==
  [state : {"approved", "rejected"}, reason : RejectCodes \cup {"VALID"},
   callback : {"Pending", "Succeeded", "Unknown", "DefinitiveFailure"}]

ASSUME RowAssumption ==
  None \notin DecisionRows \cup {"success", "failure"} \cup StageStates

VARIABLES
  \* GitHub
  runStatus,    \* "none", "waiting", "in_progress" or "completed"
  created,      \* run.created_at
  started,      \* run.run_started_at
  verdict,      \* the conclusion its outcome artifact proves, None without one
  gate,         \* the decision GitHub applied: "none", "approved", "rejected"
  failed,       \* runs whose webhook delivery GitHub logged as failed
  \* the outbox and the ledger
  accepted,     \* stages whose dispatch row is Accepted with this run
  recorded,     \* deliveries rows
  decision,     \* decision_records row, or None
  \* the process
  queue,        \* runs in the in-memory queue
  proc,         \* the enforcement under _process_lock
  sweep,        \* the sweeper's reconcile call
  boot,         \* the bootstrap request of each run
  \* history
  posted,       \* decisions POSTed for each run
  abandoned,    \* runs whose processing ended without a decision
  crashes

githubVars == <<runStatus, created, started, verdict, gate>>
ledgerVars == <<recorded, decision>>
threadVars == <<queue, proc, sweep, boot>>
svcVars == <<vars, githubVars, failed, accepted, ledgerVars, threadVars,
             posted, abandoned, crashes>>

St(s) == stage[Req][s]
Undecided == {s \in Active : decision[s] = None}

\* No enforcement is running; res and result are read only while one is.
NoProc == [pc |-> "idle", run |-> None, res |-> None, state |-> None,
           reason |-> None, result |-> None]
NoSweep == [pc |-> "idle", run |-> None, seen |-> None, at |-> 0]

\* EvidenceVerifier takes the grant as valid until its expiry plus the skew.
GrantVerifies == clock <= ExpiresAt[Req] + MaxClockSkew

SvcInit ==
  /\ Init
  /\ runStatus = [s \in Active |-> "none"]
  /\ created = [s \in Active |-> 0]
  /\ started = [s \in Active |-> 0]
  /\ verdict = [s \in Active |-> None]
  /\ gate = [s \in Active |-> "none"]
  /\ failed = {} /\ accepted = {} /\ recorded = {}
  /\ queue = << >>
  /\ decision = [s \in Active |-> None]
  /\ proc = NoProc
  /\ sweep = NoSweep
  /\ boot = [s \in Active |-> "idle"]
  /\ posted = [s \in Active |-> {}]
  /\ abandoned = {}
  /\ crashes = 0

-----------------------------------------------------------------------------
(* The dispatcher CLI, seen from the service *)

RegisterIntent ==
  /\ Register(Req) \/ FinalizeRef(Req)
  /\ UNCHANGED <<githubVars, failed, accepted, ledgerVars, threadVars, posted,
                 abandoned, crashes>>

\* queue_dispatch admits the stage and GitHub creates its run, which waits at
\* the Environment's gate.
DispatchRun(s) ==
  /\ runStatus[s] = "none"
  /\ intent[Req] = "Finalized"
  /\ clock < ExpiresAt[Req]
  /\ St(s) = "Available"
  /\ PrerequisiteSatisfied(Req, s)
  /\ runStatus' = [runStatus EXCEPT ![s] = "waiting"]
  /\ created' = [created EXCEPT ![s] = clock]
  /\ UNCHANGED <<vars, started, verdict, gate, failed, accepted,
                 ledgerVars, threadVars, posted, abandoned, crashes>>

\* reconcile-dispatch binds the run to the stage's dispatch row.
AcceptDispatch(s) ==
  /\ runStatus[s] # "none" /\ s \notin accepted
  /\ accepted' = accepted \cup {s}
  /\ UNCHANGED <<vars, githubVars, failed, ledgerVars, threadVars, posted,
                 abandoned, crashes>>

-----------------------------------------------------------------------------
(* GitHub *)

\* The job behind an approved gate gets a runner.
StartRun(s) ==
  /\ runStatus[s] = "waiting" /\ gate[s] = "approved"
  /\ runStatus' = [runStatus EXCEPT ![s] = "in_progress"]
  /\ started' = [started EXCEPT ![s] = clock]
  /\ UNCHANGED <<vars, created, verdict, gate, failed, accepted,
                 ledgerVars, threadVars, posted, abandoned, crashes>>

\* A run ends: after its job ran, with or without an outcome artifact that
\* verifies, or because the gate turned it away or the run was cancelled.
CompleteRun(s) ==
  /\ runStatus[s] \in {"waiting", "in_progress"}
  /\ runStatus' = [runStatus EXCEPT ![s] = "completed"]
  /\ \/ /\ runStatus[s] = "in_progress"
        /\ \E v \in {"success", "failure"} :
             verdict' = [verdict EXCEPT ![s] = v]
     \/ UNCHANGED verdict
  /\ UNCHANGED <<vars, created, started, gate, failed, accepted, ledgerVars,
                 threadVars, posted, abandoned, crashes>>

\* What a decision POST of the service does at GitHub.  An undecided waiting
\* run takes the decision.  A 204 means that the run has it, now or from an
\* earlier POST; a definitive refusal, that this POST changed nothing; an
\* ambiguous answer or an exception says nothing.
GateAfter(s, state, result) ==
  LET applied == IF gate[s] = "none" /\ runStatus[s] = "waiting"
                   THEN [gate EXCEPT ![s] = state] ELSE gate
  IN  {g \in {applied, gate} :
         /\ result = "accepted" => g[s] = state
         /\ result = "definitive" => g = gate}

-----------------------------------------------------------------------------
(* Webhook deliveries *)

\* Mutant: the delivery is recorded and acknowledged but not queued.
AcceptUnqueued(s) ==
  /\ runStatus[s] # "none"
  /\ s \notin recorded
  /\ recorded' = recorded \cup {s}
  /\ UNCHANGED <<vars, githubVars, failed, accepted, decision, threadVars,
                 posted, abandoned, crashes>>

\* accept(): recorded and queued in one step under _accept_lock, unless the
\* queue is full.  A repeated delivery is recorded already and not queued.
\* The answer may be lost on its way to GitHub.
Accept(s) ==
  /\ runStatus[s] # "none"
  /\ Len(queue) < QueueSize
  /\ s \notin recorded
  /\ recorded' = recorded \cup {s}
  /\ queue' = Append(queue, s)
  /\ \/ UNCHANGED failed
     \/ s \in Unreliable /\ failed' = failed \cup {s}
  /\ UNCHANGED <<vars, githubVars, accepted, decision, proc, sweep, boot,
                 posted, abandoned, crashes>>

\* The service is down or answers 503, and GitHub logs a failed delivery.
DeliveryFails(s) ==
  /\ s \in Unreliable
  /\ runStatus[s] # "none" /\ s \notin recorded /\ s \notin failed
  /\ failed' = failed \cup {s}
  /\ UNCHANGED <<vars, githubVars, accepted, ledgerVars, threadVars, posted,
                 abandoned, crashes>>
-----------------------------------------------------------------------------
(* Enforcement: _enforce and _post_claimed_decision under _process_lock *)

enforceElse == <<failed, accepted, sweep, boot, abandoned, crashes>>

Begin(s) == [NoProc EXCEPT !.pc = "evaluate", !.run = s]

\* _worker_loop takes the next delivery off the queue.
WorkerTakes ==
  /\ proc.pc = "idle" /\ queue # << >>
  /\ queue' = Tail(queue)
  /\ proc' = Begin(Head(queue))
  /\ UNCHANGED <<vars, githubVars, ledgerVars, enforceElse, posted>>

\* process_polled for a delivery GitHub logged as failed: recorded if it was
\* not, and enforced unless its decision reached GitHub.
PollerTakes(s) ==
  /\ proc.pc = "idle" /\ s \in failed
  /\ recorded' = recorded \cup {s}
  /\ ~(decision[s] # None /\ decision[s].callback = "Succeeded")
  /\ proc' = Begin(s)
  /\ UNCHANGED <<vars, githubVars, decision, queue, enforceElse, posted>>

\* What evaluate() needs of the registry, of the dispatch row and of the live
\* run.  Its other checks compare signed or configured data and may fail at
\* any time, as may the GitHub calls.
EvaluationPasses(s) ==
  /\ intent[Req] = "Finalized"
  /\ GrantVerifies
  /\ s \in accepted
  /\ runStatus[s] \in {"waiting", "in_progress"}
  /\ finalizedAt[Req] <= created[s]
  /\ created[s] <= finalizedAt[Req] + MaxDispatchDelay

ToReject(code) ==
  proc' = [proc EXCEPT !.pc = "claim", !.state = "rejected", !.reason = code,
                       !.res = None]

Evaluate ==
  /\ proc.pc = "evaluate"
  /\ \/ /\ EvaluationPasses(proc.run)
        /\ proc' = [proc EXCEPT !.pc = "reserve"]
     \/ \E code \in RejectCodes : ToReject(code)
  /\ UNCHANGED <<vars, githubVars, ledgerVars, queue, enforceElse, posted>>

\* reserve_stage binds the stage, returns the reservation the same run holds
\* already, or refuses.
Reserve ==
  LET s == proc.run
      held == clock < ExpiresAt[Req] /\ claim[Req][s] = s
  IN
  /\ proc.pc = "reserve"
  /\ \/ /\ ReserveStage(Req, s, s)
        /\ proc' = [proc EXCEPT !.pc = "recheck", !.res = "Reserved"]
     \/ /\ held
        /\ proc' = [proc EXCEPT !.pc = "recheck", !.res = St(s)]
        /\ UNCHANGED vars
     \/ /\ ~held /\ ~CanReserve(Req, s, s)
        /\ \E code \in RejectCodes : ToReject(code)
        /\ UNCHANGED vars
  /\ UNCHANGED <<githubVars, ledgerVars, queue, enforceElse, posted>>

\* The second evaluation.  If it fails, the reservation it had just read as
\* Reserved is rejected first.
Recheck ==
  LET s == proc.run IN
  /\ proc.pc = "recheck"
  /\ \/ /\ EvaluationPasses(s)
        /\ proc' = [proc EXCEPT !.pc = "claim", !.state = "approved",
                                !.reason = "VALID"]
        /\ UNCHANGED vars
     \/ /\ proc.res = "Reserved"
        /\ TransitionStage(Req, s, "Rejected")
        /\ \E code \in RejectCodes : ToReject(code)
     \/ /\ proc.res # "Reserved"
        /\ \E code \in RejectCodes : ToReject(code)
        /\ UNCHANGED vars
  /\ UNCHANGED <<githubVars, ledgerVars, queue, enforceElse, posted>>

\* An evaluation raises something other than PolicyError, or the rejection of
\* a reservation raises because its row moved on meanwhile: the processing
\* fails without a decision (PROCESSING_FAILED) and the row stays as it is.
EnforceRaises ==
  /\ proc.pc \in {"evaluate", "recheck"}
  /\ proc' = NoProc
  /\ abandoned' = abandoned \cup ({proc.run} \cap Undecided)
  /\ UNCHANGED <<vars, githubVars, failed, accepted, ledgerVars, queue, sweep,
                 boot, posted, crashes>>

\* claim_decision: the first decision of a run is inserted; a different one
\* is refused; the same one is posted unless its callback is settled.
ClaimDecision ==
  LET s == proc.run
      d == decision[s]
      same == d # None /\ d.state = proc.state /\ d.reason = proc.reason
      settled == same /\ d.callback \in {"Succeeded", "DefinitiveFailure"}
      post == d = None \/ (same /\ ~settled)
  IN
  /\ proc.pc = "claim"
  /\ decision' = IF d # None THEN decision
                 ELSE [decision EXCEPT ![s] =
                         [state |-> proc.state, reason |-> proc.reason,
                          callback |-> "Pending"]]
  /\ proc' = IF post THEN [proc EXCEPT !.pc = "post"] ELSE NoProc
  /\ UNCHANGED <<vars, githubVars, recorded, queue, enforceElse, posted>>

\* post_decision and the class it gives the answer; it may also raise (no
\* token, an answer it cannot read), which leaves the decision Pending.
PostDecision ==
  LET s == proc.run IN
  /\ proc.pc = "post"
  /\ \E result \in {"accepted", "ambiguous", "definitive", "raised"} :
       /\ gate' \in GateAfter(s, proc.state, result)
       /\ proc' = IF result = "raised" THEN NoProc
                  ELSE [proc EXCEPT !.pc = "complete", !.result = result]
  /\ posted' = [posted EXCEPT ![s] = @ \cup {proc.state}]
  /\ UNCHANGED <<vars, runStatus, created, started, verdict,
                 ledgerVars, queue, enforceElse>>

CallbackOf(result) ==
  IF result = "accepted" THEN "Succeeded"
  ELSE IF result = "ambiguous" THEN "Unknown" ELSE "DefinitiveFailure"

\* complete_decision.  Only this enforcement can have settled the callback
\* since claim_decision read it open, so it never conflicts.
CompleteDecision ==
  /\ proc.pc = "complete"
  /\ decision' = [decision EXCEPT ![proc.run].callback =
                    CallbackOf(proc.result)]
  /\ proc' = IF proc.res = None THEN NoProc
             ELSE [proc EXCEPT !.pc = "advance"]
  /\ UNCHANGED <<vars, githubVars, recorded, queue, enforceElse, posted>>

\* Mutant: a timed-out approval counts as an approval.
TargetOfOptimist(result) ==
  IF result = "definitive" THEN "Rejected" ELSE "ApprovedPendingOutcome"

\* The stage an approval's answer asks for.
TargetOf(result) ==
  IF result = "accepted" THEN "ApprovedPendingOutcome"
  ELSE IF result = "ambiguous" THEN "OutcomeOverdue" ELSE "Rejected"

\* Mutant: the row is updated without the compare-and-swap.
AdvanceBlindly ==
  /\ proc.pc = "advance"
  /\ stage' = [stage EXCEPT ![Req][proc.run] = TargetOf(proc.result)]
  /\ proc' = NoProc
  /\ UNCHANGED <<clock, intent, finalizedAt, claim, leaseEnd, outcome,
                 bootstrapped, approvedAt, githubVars, ledgerVars, queue,
                 enforceElse, posted>>

\* The transition after the callback, which raises if the row moved on.
Advance ==
  LET s == proc.run
      target == TargetOf(proc.result)
      calls == target # "Rejected" \/ proc.res = "Reserved"
  IN
  /\ proc.pc = "advance"
  /\ \/ calls /\ TransitionStage(Req, s, target)
     \/ /\ ~calls \/ <<St(s), target>> \notin AllowedStageTransitions
        /\ UNCHANGED vars
  /\ proc' = NoProc
  /\ UNCHANGED <<githubVars, ledgerVars, queue, enforceElse, posted>>

-----------------------------------------------------------------------------
(* The outcome sweeper: run_once and reconcile *)

sweepElse == <<githubVars, failed, accepted, ledgerVars, queue, proc, boot,
               posted, abandoned, crashes>>

SweepExpires ==
  /\ sweep.pc = "idle"
  /\ ExpirePendingStages
  /\ UNCHANGED <<sweep, sweepElse>>

\* Mutant: the query leaves out the rows that are overdue already.
SweepReadsWaiting(s) ==
  /\ sweep.pc = "idle"
  /\ St(s) \in {"Reserved", "ApprovedPendingOutcome"}
  /\ GrantVerifies
  /\ sweep' = [pc |-> "read", run |-> s, seen |-> St(s), at |-> clock]
  /\ UNCHANGED <<vars, sweepElse>>

\* pending_stages; the time and the verified bundle of reconcile; get_stage.
SweepReads(s) ==
  /\ sweep.pc = "idle"
  /\ intent[Req] = "Finalized"
  /\ St(s) \in {"Reserved", "ApprovedPendingOutcome", "OutcomeOverdue",
                "CallbackUnknown"}
  /\ GrantVerifies
  /\ sweep' = [pc |-> "read", run |-> s, seen |-> St(s), at |-> clock]
  /\ UNCHANGED <<vars, sweepElse>>

\* Mutant: a timer alone makes an overdue row unknown.
SweepQuarantinesByTimer ==
  /\ sweep.pc = "read" /\ sweep.seen = "OutcomeOverdue"
  /\ TransitionStage(Req, sweep.run, "CallbackUnknown")
  /\ sweep' = NoSweep
  /\ UNCHANGED sweepElse

\* The attempt is terminal: a row read as overdue becomes CallbackUnknown.
\* Only the sweeper moves an overdue row, so it is still where it was read.
SweepQuarantines ==
  LET s == sweep.run IN
  /\ sweep.pc = "read"
  /\ runStatus[s] = "completed"
  /\ \/ sweep.seen = "OutcomeOverdue" /\ TransitionStage(Req, s, "CallbackUnknown")
     \/ sweep.seen # "OutcomeOverdue" /\ UNCHANGED vars
  /\ sweep' = [sweep EXCEPT !.pc = "seal"]
  /\ UNCHANGED sweepElse

VerdictOf(s) ==
  IF verdict[s] = "failure" THEN "Failed"
  ELSE IF s = "compensating-rollback" THEN "RolledBack" ELSE "Succeeded"

\* The artifact's outcome is recorded, if the registry takes it.
SweepSeals ==
  LET s == sweep.run IN
  /\ sweep.pc = "seal"
  /\ \/ /\ verdict[s] # None
        /\ RecordStageOutcome(Req, s, s, VerdictOf(s), started[s], sweep.at)
     \/ UNCHANGED vars
  /\ sweep' = NoSweep
  /\ UNCHANGED sweepElse

\* The run is not terminal yet, or a GitHub read fails: the next sweep tries
\* again.
SweepGivesUp ==
  /\ sweep.pc = "read"
  /\ sweep' = NoSweep
  /\ UNCHANGED <<vars, sweepElse>>

-----------------------------------------------------------------------------
(* The bootstrap handler: authorize *)

bootElse == <<githubVars, failed, accepted, ledgerVars, queue, proc, sweep,
              posted, abandoned, crashes>>

\* The stage waits for this run's outcome and was approved a short while ago.
BootReads(s) ==
  /\ boot[s] = "idle" /\ s \in Bootstrapping
  /\ runStatus[s] = "in_progress"
  /\ GrantVerifies
  /\ St(s) = "ApprovedPendingOutcome" /\ claim[Req][s] = s
  /\ approvedAt[Req][s] <= clock
  /\ clock <= approvedAt[Req][s] + MaxBootstrapDelay
  /\ boot' = [boot EXCEPT ![s] = "read"]
  /\ UNCHANGED <<vars, bootElse>>

\* _verify_live_run_and_runner: the run's job is in progress.
BootChecksRun(s) ==
  /\ boot[s] = "read"
  /\ runStatus[s] = "in_progress"
  /\ boot' = [boot EXCEPT ![s] = "live"]
  /\ UNCHANGED <<vars, bootElse>>

\* The response of a later stage carries the apply outcome; only a rollback
\* may do without one, and only while its apply is CallbackUnknown.
PriorReadable(s) ==
  \/ s = "apply"
  \/ outcome[Req]["apply"] # None
  \/ s = "compensating-rollback" /\ St("apply") = "CallbackUnknown"

BootConsumes(s) ==
  /\ boot[s] = "live"
  /\ PriorReadable(s)
  /\ ConsumeBootstrap(Req, s, s)
  /\ boot' = [boot EXCEPT ![s] = "idle"]
  /\ UNCHANGED bootElse

BootFails(s) ==
  /\ boot[s] # "idle"
  /\ boot' = [boot EXCEPT ![s] = "idle"]
  /\ UNCHANGED <<vars, bootElse>>

-----------------------------------------------------------------------------
\* The process stops and starts again.
Crash ==
  /\ crashes < MaxCrashes
  /\ crashes' = crashes + 1
  /\ queue' = << >>
  /\ proc' = NoProc
  /\ sweep' = NoSweep
  /\ boot' = [s \in Active |-> "idle"]
  /\ abandoned' = abandoned \cup
       (Undecided \cap ({proc.run} \cup {queue[i] : i \in DOMAIN queue}))
  /\ UNCHANGED <<vars, githubVars, failed, accepted, ledgerVars, posted>>

\* The clock measures the time since the intent was finalized.
Time ==
  /\ intent[Req] = "Finalized"
  /\ Tick
  /\ UNCHANGED <<githubVars, failed, accepted, ledgerVars, threadVars, posted,
                 abandoned, crashes>>

Enforce ==
  \/ Evaluate \/ Reserve \/ Recheck \/ EnforceRaises
  \/ ClaimDecision \/ PostDecision \/ CompleteDecision \/ Advance

SvcNext ==
  \/ Time \/ RegisterIntent \/ Crash
  \/ WorkerTakes \/ Enforce
  \/ SweepExpires \/ SweepQuarantines \/ SweepSeals \/ SweepGivesUp
  \/ \E s \in Active :
       \/ DispatchRun(s) \/ AcceptDispatch(s)
       \/ StartRun(s) \/ CompleteRun(s)
       \/ Accept(s) \/ DeliveryFails(s) \/ PollerTakes(s)
       \/ SweepReads(s)
       \/ BootReads(s) \/ BootChecksRun(s) \/ BootConsumes(s) \/ BootFails(s)

SvcSpec == SvcInit /\ [][SvcNext]_svcVars

\* The sweeper thread loops for ever and visits every pending stage in each
\* round (run_once; its limit of 100 rows is far above one intent), and GitHub answers its reads again and again; a handler
\* thread that began an enforcement goes on with it, and the worker takes
\* what is queued.  Nothing is assumed of time, of crashes, of GitHub's runs
\* or of the poller.
FairSpec ==
  /\ SvcSpec
  /\ SF_svcVars(SweepExpires)
  /\ SF_svcVars(SweepQuarantines)
  /\ WF_svcVars(SweepSeals) /\ WF_svcVars(SweepGivesUp)
  /\ \A s \in Active : SF_svcVars(SweepReads(s))
  /\ WF_svcVars(WorkerTakes) /\ WF_svcVars(Enforce)

-----------------------------------------------------------------------------
(***************************************************************************)
(* Properties.                                                             *)
(***************************************************************************)
\* Whatever crashes, redeliveries and repeated evaluations do, a run is never
\* sent both an approval and a rejection, GitHub applied the decision that the
\* ledger holds, and a stage waits for an outcome, has one or hands out a
\* bootstrap bundle only if that decision let its run through the gate ("one
\* run cannot receive contradictory decisions").
OneDecisionGatesProgress ==
  \A s \in Active :
    /\ posted[s] # {"approved", "rejected"}
    /\ gate[s] # "none" => decision[s] # None /\ decision[s].state = gate[s]
    /\ \/ St(s) = "ApprovedPendingOutcome"
       \/ St(s) \in SealedStates
       \/ bootstrapped[Req][s] # None
       => gate[s] = "approved"

\* No concurrent writers: a rollback is bound only when the apply run is
\* over, and for as long as it is bound its apply stays where the rollback's
\* bootstrap can read it, CallbackUnknown or Failed, although late callbacks
\* may take an unknown apply elsewhere.
RollbackAfterApplyRun ==
  claim[Req]["compensating-rollback"] # None =>
    /\ runStatus["apply"] = "completed"
    /\ St("apply") \in {"CallbackUnknown", "Failed"}

\* Every step of the service is a step of the registry or leaves it alone:
\* what is proved of StageRegistry holds of the service.
ImplementsRegistry == Spec

\* When a lease has ended, the sweeper takes the stage out of the waiting
\* states: nobody waits for an outcome for ever.
LeaseEnforced ==
  \A s \in Active :
    (claim[Req][s] # None /\ leaseEnd[Req][s] <= clock) ~>
      St(s) \notin {"Reserved", "ApprovedPendingOutcome"}

\* An overdue stage whose run is over is resolved, which is what unlocks the
\* rollback, unless the grant no longer verifies.
OverdueResolved ==
  \A s \in Active :
    (St(s) = "OutcomeOverdue" /\ runStatus[s] = "completed") ~>
      (St(s) # "OutcomeOverdue" \/ ~GrantVerifies)

\* A recorded delivery gets its decision unless a crash or an exception ends
\* its own processing: a full queue, the poller, the sweeper and a conflict
\* never lose it.
DecidedUnlessLost ==
  \A s \in Active : s \in recorded ~> decision[s] # None \/ s \in abandoned

\* The ADR's rollback lane: while it is unlocked and the grant lives, a
\* rollback run dispatched now passes the evaluator's window.
UnlockedRollbackAdmissible ==
  /\ St("apply") = "CallbackUnknown"
  /\ St("compensating-rollback") = "Available"
  /\ clock < ExpiresAt[Req]
  => clock <= finalizedAt[Req] + MaxDispatchDelay
=============================================================================
