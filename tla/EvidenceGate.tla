---------------------------- MODULE EvidenceGate ----------------------------
(***************************************************************************)
(* One deployment from its reviews to the stages that change the target:   *)
(* providers run and issue signed reviews (provider.py), the coordinator   *)
(* composes a bundle (coordinator.py), the policy service evaluates each   *)
(* stage's run against the bundle and against what GitHub shows, one read  *)
(* after the other (evaluator.py, github.py, workflow.py), the service     *)
(* answers the runner's bootstrap request (bootstrap.py), the runner       *)
(* verifies the answer with the list of its pinned package                 *)
(* (run_cross_ai_runner_bootstrap.py), works, and builds the evidence from *)
(* which the stage's outcome is recorded (build_cross_ai_stage_evidence.py,*)
(* outcome.py).  The registry's rows, the one-time decision and the        *)
(* callbacks are those of StageRegistry and PolicyService; here a stage    *)
(* has at most one run, and the runs share one concurrency group.          *)
(***************************************************************************)
EXTENDS ReviewBundle

CONSTANTS
  Executions,     \* what a provider run can return: [family, route, subject,
                  \* verdict, raised, resolved, acknowledged]
  Leases,         \* runner leases that can be handed to the coordinator
  Workflows,      \* workflow files the reviewed head may hold
  Entries,        \* <<type, id>> of the revocations that may be published
  Drifts,         \* parts of GitHub's state that may change under the deployment
  ReviewTtl,      \* lifetime of a review, at most 120 minutes
  GrantEnd,       \* the grant is valid from tick 0 to GrantEnd
  ListTtl,        \* nextUpdate - issuedAt of a published list
  PinnedUntil,    \* nextUpdate of the list in the runner's pinned package
  DispatchDelay,  \* MAX_DISPATCH_DELAY
  BootstrapDelay, \* MAX_BOOTSTRAP_DELAY
  MaxClock, MaxReviews,
  MaxChanges      \* revocations and drifts of one behaviour

ASSUME BoundsAssumption ==
  /\ {ReviewTtl, GrantEnd, ListTtl, MaxClock} \subseteq Nat
  /\ {MaxReviews, MaxChanges} \subseteq Nat
  /\ {DispatchDelay, BootstrapDelay, PinnedUntil} \subseteq Nat

VARIABLES
  clock,
  reviews,    \* sequence of issued reviews; nothing keeps those the coordinator leaves out
  bundle,     \* the finalized bundle, or Null
  finalized,  \* when it was finalized
  list,       \* the revocation list the policy service reads
  drift,      \* what has changed at GitHub
  run,        \* the run that holds the concurrency group, or Null
  dispatched, \* stages that have had their run
  outcome,    \* what the registry knows of each stage
  worked      \* history: [stage, entries, drift] of each bootstrap answer a runner acted on

vars == <<clock, reviews, bundle, finalized, list, drift, run, dispatched, outcome, worked>>

Null == [digest |-> 0]
Stages == {"apply", "browser-evidence", "compensating-rollback"}
Subject == "subject"
Reviews == {reviews[i] : i \in 1..Len(reviews)}
Grant == [id |-> "request", notBefore |-> 0, expiresAt |-> GrantEnd]
PinnedList == [entries |-> {}, at |-> 0, nextUpdate |-> PinnedUntil]

Init ==
  /\ clock = 0
  /\ reviews = <<>>
  /\ bundle = Null
  /\ finalized = 0
  /\ list = [entries |-> {}, at |-> 0, nextUpdate |-> ListTtl]
  /\ drift = {}
  /\ run = Null
  /\ dispatched = {}
  /\ outcome = [s \in Stages |-> None]
  /\ worked = {}

Tick ==
  /\ clock < MaxClock
  /\ clock' = clock + 1
  /\ UNCHANGED <<reviews, bundle, finalized, list, drift, run, dispatched, outcome, worked>>

(***************************************************************************)
(* Providers                                                               *)
(***************************************************************************)

\* The Anthropic CLI reports the model it used and the receipt names it.
ClaudeReceipt(x) == x.family = "anthropic" /\ x.route = "direct"

\* The Codex CLI runs from a private copy and answers with one message.
CodexReceipt(x) == x.family = "openai" /\ x.route = "direct"

\* Cursor runs any family's model, never directly.
CursorReceipt(x) == x.route = "cursor"

\* The text a provider returns must be a verdict with three finding lists.
ReviewResultOk(x) ==
  /\ x.verdict \in {"AGREE", "REVISE", "RED", "PARTIAL"}
  /\ x.raised \cup x.resolved \cup x.acknowledged \subseteq Findings

\* Closure entries that can be written down with the reviews issued so far:
\* a digest names a review that exists.
KnownEntries(rs) ==
  {[finding |-> f, raisedBy |-> r.digest, acknowledgedBy |-> q.digest] :
     f \in Findings, r \in rs, q \in rs}
RelevantEntries(rs) ==
  {e \in KnownEntries(rs) :
     /\ \E r \in rs : r.digest = e.raisedBy /\ e.finding \in r.raised
     /\ \E q \in rs : q.digest = e.acknowledgedBy /\ e.finding \in q.acknowledged}

\* A review is signed for the coordinates it was asked for: any chain
\* position, any closure root known by now.  The issuer checks the receipt
\* and the shape of the result, never the chain.
Issue(x, previous, root) ==
  /\ bundle = Null
  /\ Len(reviews) < MaxReviews
  /\ ClaudeReceipt(x) \/ CodexReceipt(x) \/ CursorReceipt(x)
  /\ ReviewResultOk(x)
  /\ LET new == Len(reviews) + 1
         first == previous = 0
     IN reviews' = Append(reviews,
          [digest |-> new,
           key |-> x.family,
           family |-> x.family,
           route |-> x.route,
           subject |-> x.subject,
           chain |-> IF first THEN new ELSE reviews[previous].chain,
           round |-> IF first THEN 1 ELSE reviews[previous].round + 1,
           previous |-> previous,
           verdict |-> x.verdict,
           raised |-> x.raised,
           resolved |-> x.resolved,
           acknowledged |-> x.acknowledged,
           closureRoot |-> root,
           issuedAt |-> clock,
           expiresAt |-> clock + ReviewTtl])
  /\ UNCHANGED <<clock, bundle, finalized, list, drift, run, dispatched, outcome, worked>>

\* Only a final review is asked for with a closure that answers findings.
RootsFor(x) ==
  {ClosureRoot(Subject, c) :
     c \in IF x.verdict = "AGREE" THEN SUBSET RelevantEntries(Reviews) ELSE {{}}}

\* A review opens a chain or continues one of its family; the last tick is
\* left to the deployment.
IssueReview ==
  /\ clock < MaxClock
  /\ \E x \in Executions :
       \E previous \in {0} \cup {r.digest : r \in {t \in Tips(Reviews) : t.family = x.family}},
          root \in RootsFor(x) : Issue(x, previous, root)

(***************************************************************************)
(* The coordinator                                                         *)
(***************************************************************************)

Compose(rs, closure, final, lease, workflow) ==
  [digest |-> 1, id |-> "bundle", key |-> "coordinator", subject |-> Subject,
   stages |-> <<"apply", "browser-evidence", "compensating-rollback">>,
   grant |-> Grant, lease |-> lease, workflow |-> workflow,
   reviews |-> rs, closure |-> closure, final |-> final]

Agreeing(rs) == {r \in rs : r.verdict = "AGREE"}

\* Reviews worth composing: an AGREE of every family is among them.
Composable == {rs \in SUBSET Reviews : Families \subseteq {r.family : r \in Agreeing(rs)}}

\* The coordinator composes any reviews it is given and hands out only what
\* verifies; the registry finalizes it.
Coordinate ==
  /\ bundle = Null
  /\ Families \subseteq {r.family : r \in Agreeing(Reviews)}
  /\ \E rs \in Composable :
       \E closure \in SUBSET RelevantEntries(rs), final \in {Tips(rs), Agreeing(rs)},
          lease \in Leases, workflow \in Workflows :
         LET b == Compose(rs, closure, final, lease, workflow)
         IN VerifyBundle(b, clock, list) /\ bundle' = b
  /\ reviews' = <<>>
  /\ finalized' = clock
  /\ UNCHANGED <<clock, list, drift, run, dispatched, outcome, worked>>

(***************************************************************************)
(* What changes under the deployment                                       *)
(***************************************************************************)

Changes == Cardinality(list.entries) + Cardinality(drift)

\* A new list is published, with one more entry or when the next is due.
Publish ==
  /\ bundle # Null
  /\ \E new \in SUBSET Entries :
       /\ Cardinality(new) <= 1
       /\ new = {} => list.nextUpdate < clock
       /\ Changes + Cardinality(new) <= MaxChanges
       /\ list' = [entries |-> list.entries \cup {<<e[1], e[2], clock>> : e \in new},
                   at |-> clock, nextUpdate |-> clock + ListTtl]
  /\ UNCHANGED <<clock, reviews, bundle, finalized, drift, run, dispatched, outcome, worked>>

\* Someone moves the intent tag, edits the Environment or the runner fleet.
Drift(d) ==
  /\ bundle # Null
  /\ d \notin drift
  /\ Changes < MaxChanges
  /\ drift' = drift \cup {d}
  /\ UNCHANGED <<clock, reviews, bundle, finalized, list, run, dispatched, outcome, worked>>

(***************************************************************************)
(* Evaluation of a run: deployment_protection_rule webhook                 *)
(***************************************************************************)

\* apply first; evidence after its success; rollback after its failure or
\* when nobody knows.
PrerequisiteSatisfied(s) ==
  CASE s = "apply" -> TRUE
    [] s = "browser-evidence" -> outcome["apply"] = "Succeeded"
    [] OTHER -> outcome["apply"] \in {"Failed", "CallbackUnknown"}

Dispatch(s) ==
  /\ bundle # Null
  /\ run = Null
  /\ s \notin dispatched
  /\ PrerequisiteSatisfied(s)
  /\ run' = [digest |-> 1, stage |-> s, pc |-> "waiting", created |-> clock,
             approved |-> 0, entries |-> {}, drift |-> {}]
  /\ dispatched' = dispatched \cup {s}
  /\ UNCHANGED <<clock, reviews, bundle, finalized, list, drift, outcome, worked>>

Go(pc) == run' = [run EXCEPT !.pc = pc]
RunOnly == UNCHANGED <<clock, reviews, bundle, finalized, list, drift, dispatched, outcome, worked>>

\* evaluate: the list is loaded and the bundle verified before GitHub is
\* asked anything.
EvaluateBegin ==
  /\ run # Null
  /\ run.pc = "waiting"
  /\ VerifyBundle(bundle, clock, list)
  /\ GrantEnd - Grant.notBefore <= MaxGrantTtl
  /\ Go("environment")
  /\ RunOnly

\* A read whose answer differs ends the evaluation: the run keeps waiting
\* and a redelivery may evaluate it again.
Refuse == Go("waiting")

\* The Environment still carries the App's rule and the human reviewer.
EnvironmentBinding == "environment" \notin drift

\* The run was dispatched from the intent ref, soon after finalization.
RunBinding ==
  /\ finalized <= run.created
  /\ run.created <= finalized + DispatchDelay

\* The Environment is read, then the run, of which nothing changes here.
ReadEnvironment ==
  /\ run # Null
  /\ run.pc = "environment"
  /\ IF EnvironmentBinding /\ RunBinding THEN Go("ref") ELSE Refuse
  /\ RunOnly

\* The intent ref still names the tag object and the head of the intent.
RefBinding == "ref" \notin drift

ReadRef ==
  /\ run # Null
  /\ run.pc = "ref"
  /\ IF RefBinding THEN Go("runners") ELSE Refuse
  /\ RunOnly

\* The eligible online runners are exactly those of the lease.
RunnerInventory == "runners" \notin drift

\* Checkout, then the pinned bootstrap action, then one to eight actions of
\* the same revision.
BootstrapStepOk(steps) ==
  /\ Cardinality({i \in 1..Len(steps) : steps[i] = "bootstrap"}) = 1
  /\ Len(steps) >= 2
  /\ steps[1] = "checkout"
  /\ steps[2] = "bootstrap"
  /\ Len(steps) - 2 \in 1..8
  /\ \A i \in 3..Len(steps) : steps[i] = "pinned"

\* Started by dispatch alone, without inputs.
TriggerOk(w) == w.trigger = "workflow_dispatch"

\* One literal group that does not cancel.
ConcurrencyGroupOk(w) == w.group = "literal"

\* One job, in the Environment, that begins with the bootstrap.
InspectWorkflow(w) ==
  /\ TriggerOk(w)
  /\ ConcurrencyGroupOk(w)
  /\ w.jobs = 1
  /\ BootstrapStepOk(w.steps)

\* The runners are read, then the workflow at the reviewed head, which cannot
\* change; then the run is approved.
ReadRunners ==
  /\ run # Null
  /\ run.pc = "runners"
  /\ IF RunnerInventory /\ InspectWorkflow(bundle.workflow)
     THEN run' = [run EXCEPT !.pc = "released", !.approved = clock]
     ELSE Refuse
  /\ RunOnly

(***************************************************************************)
(* Bootstrap: the service's answer and the runner's own verification       *)
(***************************************************************************)

\* authorize: bundle, approval window, ref, runners, then the answer is
\* written down as consumed.
Authorize ==
  /\ run # Null
  /\ run.pc = "released"
  /\ VerifyBundle(bundle, clock, list)
  /\ clock <= run.approved + BootstrapDelay
  /\ RefBinding
  /\ RunnerInventory
  /\ run' = [run EXCEPT !.pc = "answered", !.approved = 0,
                        !.entries = list.entries, !.drift = drift]
  /\ RunOnly

\* The state of apply the answer carries, as the runner demands it.
PriorOutcomeOk(s) ==
  CASE s = "apply" -> TRUE
    [] s = "browser-evidence" -> outcome["apply"] = "Succeeded"
    [] OTHER -> outcome["apply"] \in {"Failed", "CallbackUnknown"}

\* execute: the runner verifies the bundle with the list of its package.
RunnerVerify ==
  /\ run # Null
  /\ run.pc = "answered"
  /\ VerifyBundle(bundle, clock, PinnedList)
  /\ PriorOutcomeOk(run.stage)
  /\ run' = [run EXCEPT !.pc = "working", !.entries = {}, !.drift = {}]
  /\ worked' = worked \cup {[stage |-> run.stage, entries |-> run.entries, drift |-> run.drift]}
  /\ UNCHANGED <<clock, reviews, bundle, finalized, list, drift, dispatched, outcome>>

(***************************************************************************)
(* Stage evidence and outcome                                              *)
(***************************************************************************)

Conclusions(s) == IF s = "compensating-rollback" THEN {"rolled-back", "failure"}
                  ELSE {"success", "failure"}

\* A successful apply leaves a watchdog that ends in the grant, after now.
WatchdogOk(s, conclusion, watchdog) ==
  s = "apply" /\ conclusion = "success" => clock < watchdog /\ watchdog <= GrantEnd

\* Evidence is built only while the grant runs.
StageEvidenceBuilt(s, conclusion, watchdog) ==
  /\ Grant.notBefore <= clock
  /\ clock < GrantEnd
  /\ WatchdogOk(s, conclusion, watchdog)

TargetState(conclusion) ==
  CASE conclusion = "success" -> "Succeeded"
    [] conclusion = "failure" -> "Failed"
    [] OTHER -> "RolledBack"

\* The run ends with an artifact and its outcome is verified and recorded.
Conclude ==
  /\ run # Null
  /\ run.pc = "working"
  /\ \E c \in Conclusions(run.stage), watchdog \in 0..GrantEnd :
       /\ StageEvidenceBuilt(run.stage, c, watchdog)
       /\ outcome' = [outcome EXCEPT ![run.stage] = TargetState(c)]
  /\ run' = Null
  /\ UNCHANGED <<clock, reviews, bundle, finalized, list, drift, dispatched, worked>>

\* The run ends without usable evidence: cancelled, refused by its own
\* verification, too late.  Once approved, nobody knows what it did.
EndUnproven ==
  /\ run # Null
  /\ outcome' = IF run.pc \in {"released", "answered", "working"}
                THEN [outcome EXCEPT ![run.stage] = "CallbackUnknown"] ELSE outcome
  /\ run' = Null
  /\ UNCHANGED <<clock, reviews, bundle, finalized, list, drift, dispatched, worked>>

Next ==
  \/ Tick
  \/ IssueReview
  \/ Coordinate
  \/ Publish
  \/ \E d \in Drifts : Drift(d)
  \/ \E s \in Stages : Dispatch(s)
  \/ EvaluateBegin
  \/ ReadEnvironment
  \/ ReadRef
  \/ ReadRunners
  \/ Authorize
  \/ RunnerVerify
  \/ Conclude
  \/ EndUnproven

Spec == Init /\ [][Next]_vars

(***************************************************************************)
(* Properties                                                              *)
(***************************************************************************)

\* What stands behind the bundle: revoking any of it must stop the stages.
Backing ==
  {<<"bundle", bundle.id>>, <<"subject", bundle.subject>>, <<"grant", bundle.grant.id>>,
   <<"runner-lease", bundle.lease.id>>, <<"key", bundle.key>>, <<"key", bundle.lease.key>>}
  \cup {<<"review", r.digest>> : r \in bundle.reviews}
  \cup {<<"key", r.key>> : r \in bundle.reviews}

\* No stage's job works unless every required family's last word in the bundle
\* is an AGREE about this subject that was issued after each finding of the
\* bundle had been acknowledged, in a later review, by the family that raised
\* it: no AGREE was given before the answers it stands for existed.
\* (verify_bundle, through evaluate, authorize and the runner's execute)
AgreedKnowingTheAnswers ==
  worked # {} =>
    /\ \A f \in Families :
         \E t \in bundle.reviews :
           /\ t.family = f /\ t.verdict = "AGREE" /\ t.subject = Subject
           /\ \A r \in bundle.reviews : r.family = f /\ r.chain = t.chain => r.digest <= t.digest
           /\ \A q \in bundle.reviews : q.acknowledged # {} => q.digest < t.digest
    /\ \A r \in bundle.reviews, f \in Findings :
         f \in r.raised =>
           \E q \in bundle.reviews :
             f \in q.acknowledged /\ q.family = r.family /\ q.issuedAt > r.issuedAt

\* No stage's job works whose bundle, subject, grant, lease, reviews or signing
\* keys were on the service's list when it answered the bootstrap request, or
\* whose intent ref or runners had changed by then; a revocation published
\* after the approval still stops the stage.  (bootstrap.py authorize)
RevokedBeforeAnswerNeverWorks ==
  \A w \in worked :
    /\ {<<e[1], e[2]>> : e \in w.entries} \cap Backing = {}
    /\ w.drift \cap {"ref", "runners"} = {}

=============================================================================
