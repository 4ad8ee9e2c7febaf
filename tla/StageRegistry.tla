---------------------------- MODULE StageRegistry ----------------------------
(***************************************************************************)
(* The intent and stage tables of IntentRegistry (intent_store.py): the    *)
(* durable half of the signed deployment gate.  A signed intent carries a  *)
(* one-time grant for each of three workflow stages.  Every public method  *)
(* of the class runs under BEGIN IMMEDIATE and either commits completely   *)
(* or raises and rolls back, so each one is a single action here; a call   *)
(* that raises, or that an idempotent caller repeats, changes nothing and  *)
(* is not a step.                                                          *)
(*                                                                         *)
(* Next lets any caller make any call at any time: the HTTP service, the   *)
(* outcome sweeper, the bootstrap handler and the dispatcher CLI all open  *)
(* the same database.  What is proved of Spec therefore holds whatever     *)
(* those callers do.                                                       *)
(***************************************************************************)
EXTENDS Integers

CONSTANTS
  Requests,                 \* request IDs of signed intents
  Claims,                   \* (run ID, run attempt, App rule ID) triples
  None,                     \* SQL NULL
  ExpiresAt,                \* grant.expiresAt of each intent
  MaxStageOutcomeWait,      \* MAX_STAGE_OUTCOME_WAIT, 30 minutes
  RollbackDispatchHeadroom, \* ROLLBACK_DISPATCH_HEADROOM, 15 minutes
  MaxClock                  \* bound on the modelled clock

ASSUME TimeAssumption ==
  /\ ExpiresAt \in [Requests -> Nat]
  /\ MaxStageOutcomeWait \in Nat
  /\ RollbackDispatchHeadroom \in Nat
  /\ MaxClock \in Nat

ASSUME NoneAssumption ==
  None \notin Claims \cup {"Succeeded", "Failed", "RolledBack"}

VARIABLES
  clock,         \* utc_now()
  intent,        \* intents.state, "Absent" when there is no row
  finalizedAt,   \* intents.finalized_at, -1 while NULL
  stage,         \* intent_stages.state
  claim,         \* intent_stages.(run_id, run_attempt, app_rule_id)
  leaseEnd,      \* intent_stages.reservation_expires_at, 0 while NULL
  outcome,       \* stage_outcomes.target_state
  bootstrapped,  \* bootstrap_consumptions.(run_id, run_attempt)
  approvedAt     \* what stage_approved_at() returns, -1 while no such event

vars == <<clock, intent, finalizedAt, stage, claim, leaseEnd, outcome,
          bootstrapped, approvedAt>>

-----------------------------------------------------------------------------
Stages == {"apply", "browser-evidence", "compensating-rollback"}

StageStates ==
  {"Available", "Reserved", "ApprovedPendingOutcome", "OutcomeOverdue",
   "CallbackUnknown", "Rejected", "Succeeded", "Failed", "RolledBack"}

\* The states only an atomically recorded outcome may enter.
SealedStates == {"Succeeded", "Failed", "RolledBack"}

\* ALLOWED_STAGE_TRANSITIONS, without the sealed targets transition_stage
\* refuses before it reads the table.
AllowedStageTransitions ==
  {<<"Reserved", "ApprovedPendingOutcome">>,
   <<"Reserved", "Rejected">>,
   <<"Reserved", "OutcomeOverdue">>,
   <<"OutcomeOverdue", "CallbackUnknown">>,
   <<"CallbackUnknown", "ApprovedPendingOutcome">>}

\* Mutant: a green run of any stage counts as a success.
AnyTargets(s) == IF s \in Stages THEN {"Succeeded", "Failed"} ELSE {}

\* allowed_targets of record_stage_outcome.
AllowedTargets(s) ==
  IF s = "compensating-rollback" THEN {"RolledBack", "Failed"}
                                 ELSE {"Succeeded", "Failed"}

PrerequisiteSatisfied(r, s) ==
  /\ s = "browser-evidence" =>
       /\ stage[r]["apply"] = "Succeeded"
       /\ outcome[r]["apply"] = "Succeeded"
  /\ s = "compensating-rollback" =>
       \/ stage[r]["apply"] = "CallbackUnknown"
       \/ /\ stage[r]["apply"] = "Failed"
          /\ outcome[r]["apply"] = "Failed"

Headroom(s) == IF s = "apply" THEN RollbackDispatchHeadroom ELSE 0

\* min(now + MAX_STAGE_OUTCOME_WAIT, expires_at - rollback_headroom)
ReservationDeadline(r, s) ==
  LET wait == clock + MaxStageOutcomeWait
      last == ExpiresAt[r] - Headroom(s)
  IN  IF wait <= last THEN wait ELSE last

-----------------------------------------------------------------------------
Init ==
  /\ clock = 0
  /\ intent = [r \in Requests |-> "Absent"]
  /\ finalizedAt = [r \in Requests |-> -1]
  /\ stage = [r \in Requests |-> [s \in Stages |-> "Available"]]
  /\ claim = [r \in Requests |-> [s \in Stages |-> None]]
  /\ leaseEnd = [r \in Requests |-> [s \in Stages |-> 0]]
  /\ outcome = [r \in Requests |-> [s \in Stages |-> None]]
  /\ bootstrapped = [r \in Requests |-> [s \in Stages |-> None]]
  /\ approvedAt = [r \in Requests |-> [s \in Stages |-> -1]]

\* A new intent; its stage rows are inserted as Available, as in Init.
Register(r) ==
  /\ intent[r] = "Absent"
  /\ intent' = [intent EXCEPT ![r] = "Registered"]
  /\ UNCHANGED <<clock, finalizedAt, stage, claim, leaseEnd, outcome, bootstrapped,
                 approvedAt>>

\* The live tag resolved to the reviewed head.
FinalizeRef(r) ==
  /\ intent[r] = "Registered"
  /\ intent' = [intent EXCEPT ![r] = "Finalized"]
  /\ finalizedAt' = [finalizedAt EXCEPT ![r] = clock]
  /\ UNCHANGED <<clock, stage, claim, leaseEnd, outcome, bootstrapped,
                 approvedAt>>

\* unique_run_rule: no other stage row of any intent holds the triple.
ClaimUnused(c) == \A r \in Requests, s \in Stages : claim[r][s] # c

\* The conditions under which reserve_stage binds an Available stage.
CanReserve(r, s, c) ==
  /\ intent[r] = "Finalized"
  /\ clock < ExpiresAt[r]
  /\ stage[r][s] = "Available"
  /\ PrerequisiteSatisfied(r, s)
  /\ clock < ReservationDeadline(r, s)
  /\ ClaimUnused(c)

ReserveStage(r, s, c) ==
  /\ CanReserve(r, s, c)
  /\ stage' = [stage EXCEPT ![r][s] = "Reserved"]
  /\ claim' = [claim EXCEPT ![r][s] = c]
  /\ leaseEnd' = [leaseEnd EXCEPT ![r][s] = ReservationDeadline(r, s)]
  /\ UNCHANGED <<clock, intent, finalizedAt, outcome, bootstrapped, approvedAt>>

TransitionStage(r, s, to) ==
  /\ <<stage[r][s], to>> \in AllowedStageTransitions
  /\ stage' = [stage EXCEPT ![r][s] = to]
  /\ approvedAt' = IF to = "ApprovedPendingOutcome"
                     THEN [approvedAt EXCEPT ![r][s] = clock]
                     ELSE approvedAt
  /\ UNCHANGED <<clock, intent, finalizedAt, claim, leaseEnd, outcome, bootstrapped>>

\* Mutant: a late success is taken whatever the rollback does.
OvertakesRollback(r, s, target) == target \in AllowedTargets(s)

\* "late success cannot overtake an activated rollback"
NotOvertakingRollback(r, s, target) ==
  (s = "apply" /\ target = "Succeeded") =>
    stage[r]["compensating-rollback"] = "Available"

\* The conditions under which record_stage_outcome inserts a new outcome.  Its
\* caller passes the time it began (recorded_at), which may be in the past.
CanRecord(r, s, c, target, started, at) ==
  /\ claim[r][s] = c
  /\ target \in AllowedTargets(s)
  /\ at <= ExpiresAt[r]
  /\ outcome[r][s] = None
  /\ stage[r][s] \in {"Reserved", "CallbackUnknown", "ApprovedPendingOutcome"}
  /\ NotOvertakingRollback(r, s, target)
  /\ stage[r][s] \in {"Reserved", "CallbackUnknown"} =>
       started <= leaseEnd[r][s]

\* From Reserved and CallbackUnknown the row passes through
\* ApprovedPendingOutcome, with an event of its own, inside the transaction.
RecordStageOutcome(r, s, c, target, started, at) ==
  /\ CanRecord(r, s, c, target, started, at)
  /\ outcome' = [outcome EXCEPT ![r][s] = target]
  /\ stage' = [stage EXCEPT ![r][s] = target]
  /\ approvedAt' = IF stage[r][s] = "ApprovedPendingOutcome"
                     THEN approvedAt
                     ELSE [approvedAt EXCEPT ![r][s] = at]
  /\ UNCHANGED <<clock, intent, finalizedAt, claim, leaseEnd, bootstrapped>>

ConsumeBootstrap(r, s, c) ==
  /\ stage[r][s] = "ApprovedPendingOutcome"
  /\ claim[r][s] = c
  /\ bootstrapped[r][s] = None
  /\ bootstrapped' = [bootstrapped EXCEPT ![r][s] = c]
  /\ UNCHANGED <<clock, intent, finalizedAt, stage, claim, leaseEnd, outcome, approvedAt>>

\* Mutant: the sweep takes only rows that still wait for the callback.
OverdueReserved(r, s) ==
  /\ stage[r][s] = "Reserved"
  /\ leaseEnd[r][s] <= clock

\* The rows one sweep quarantines.
Overdue(r, s) ==
  /\ stage[r][s] \in {"Reserved", "ApprovedPendingOutcome"}
  /\ leaseEnd[r][s] <= clock

ExpirePendingStages ==
  /\ \E r \in Requests, s \in Stages : Overdue(r, s)
  /\ stage' = [r \in Requests |-> [s \in Stages |->
                 IF Overdue(r, s) THEN "OutcomeOverdue" ELSE stage[r][s]]]
  /\ UNCHANGED <<clock, intent, finalizedAt, claim, leaseEnd, outcome, bootstrapped,
                 approvedAt>>

Tick ==
  /\ clock < MaxClock
  /\ clock' = clock + 1
  /\ UNCHANGED <<intent, finalizedAt, stage, claim, leaseEnd, outcome, bootstrapped,
                 approvedAt>>

Next ==
  \/ Tick
  \/ ExpirePendingStages
  \/ \E r \in Requests : Register(r) \/ FinalizeRef(r)
  \/ \E r \in Requests, s \in Stages, to \in StageStates :
       TransitionStage(r, s, to)
  \/ \E r \in Requests, s \in Stages, c \in Claims :
       \/ ReserveStage(r, s, c)
       \/ ConsumeBootstrap(r, s, c)
       \/ \E target \in SealedStates, started, at \in 0..clock :
            RecordStageOutcome(r, s, c, target, started, at)

Spec == Init /\ [][Next]_vars

-----------------------------------------------------------------------------
(***************************************************************************)
(* Properties.                                                             *)
(***************************************************************************)

\* Every table keeps its column types.
TypeOK ==
  /\ clock \in Nat
  /\ intent \in [Requests -> {"Absent", "Registered", "Finalized"}]
  /\ finalizedAt \in [Requests -> Nat \cup {-1}]
  /\ stage \in [Requests -> [Stages -> StageStates]]
  /\ claim \in [Requests -> [Stages -> Claims \cup {None}]]
  /\ leaseEnd \in [Requests -> [Stages -> Nat]]
  /\ outcome \in [Requests -> [Stages -> SealedStates \cup {None}]]
  /\ bootstrapped \in [Requests -> [Stages -> Claims \cup {None}]]
  /\ approvedAt \in [Requests -> [Stages -> Nat \cup {-1}]]

\* A sealed state and its stage_outcomes row appear together and agree: the
\* state is never Succeeded, Failed or RolledBack without that very outcome,
\* and a recorded outcome is never followed by another state.
OutcomeSealed ==
  \A r \in Requests, s \in Stages :
    /\ outcome[r][s] # None => stage[r][s] = outcome[r][s]
    /\ stage[r][s] \in SealedStates => outcome[r][s] = stage[r][s]

\* One run, attempt and rule holds at most one stage of one intent, and a
\* stage holds a claim exactly when it left Available (unique_run_rule and
\* the CAS of reserve_stage).
GrantBoundOnce ==
  /\ \A r \in Requests, s \in Stages :
       stage[r][s] = "Available" <=> claim[r][s] = None
  /\ \A r1, r2 \in Requests, s1, s2 \in Stages :
       /\ claim[r1][s1] # None
       /\ claim[r1][s1] = claim[r2][s2]
       => r1 = r2 /\ s1 = s2

\* Browser evidence is gathered only for a verified successful apply, and the
\* apply can no longer lose that verdict (_prerequisite_satisfied, the CAS of
\* record_stage_outcome).
BrowserNeedsVerifiedApply ==
  \A r \in Requests :
    stage[r]["browser-evidence"] # "Available" =>
      stage[r]["apply"] = "Succeeded"

\* Once a rollback was bound, its apply is not and never becomes Succeeded,
\* however late its outcome arrives, and no browser evidence stage is open
\* beside it ("late success cannot overtake an activated rollback").
RollbackExcludesSuccess ==
  \A r \in Requests :
    stage[r]["compensating-rollback"] # "Available" =>
      /\ stage[r]["apply"] \in {"CallbackUnknown", "ApprovedPendingOutcome",
                                "OutcomeOverdue", "Failed"}
      /\ stage[r]["browser-evidence"] = "Available"

\* A bootstrap bundle went only to the run the stage is bound to, only after
\* an approval event, and never to a stage that ends Rejected
\* (consume_bootstrap and the absence of a way from approval to Rejected).
BootstrapOnlyApproved ==
  \A r \in Requests, s \in Stages :
    bootstrapped[r][s] # None =>
      /\ bootstrapped[r][s] = claim[r][s]
      /\ approvedAt[r][s] >= 0
      /\ stage[r][s] \notin {"Available", "Reserved", "Rejected"}

\* An apply is bound only in a finalized intent and its lease leaves the
\* whole rollback headroom before the grant expires.
LeaseKeepsHeadroom ==
  \A r \in Requests, s \in Stages :
    claim[r][s] # None =>
      /\ intent[r] = "Finalized"
      /\ leaseEnd[r][s] + Headroom(s) <= ExpiresAt[r]

\* A stage that waits for an outcome has an approval event for
\* stage_approved_at to find.
ApprovedHasEvent ==
  \A r \in Requests, s \in Stages :
    stage[r][s] = "ApprovedPendingOutcome" => approvedAt[r][s] >= 0

\* The grant is never freed: a claim, an outcome and a consumption are
\* written once, and a rejected stage stays rejected ("never frees the grant
\* for another run").
NeverFreed ==
  [][\A r \in Requests, s \in Stages :
       /\ claim[r][s] # None => claim'[r][s] = claim[r][s]
       /\ outcome[r][s] # None => outcome'[r][s] = outcome[r][s]
       /\ bootstrapped[r][s] # None =>
            bootstrapped'[r][s] = bootstrapped[r][s]
       /\ stage[r][s] = "Rejected" => stage'[r][s] = "Rejected"]_vars

\* The inductive invariant of the proofs.
Inv ==
  /\ TypeOK
  /\ OutcomeSealed
  /\ GrantBoundOnce
  /\ BrowserNeedsVerifiedApply
  /\ RollbackExcludesSuccess
  /\ BootstrapOnlyApproved
  /\ LeaseKeepsHeadroom
  /\ ApprovedHasEvent
-----------------------------------------------------------------------------
(***************************************************************************)
(* The registry implements OneTimeGrant: the four waiting states are one   *)
(* held grant, and a rejected stage is a void one.                         *)
(***************************************************************************)
Phase(state) ==
  IF state = "Available" THEN "Free"
  ELSE IF state = "Rejected" THEN "Void"
  ELSE IF state \in SealedStates THEN state
  ELSE "Held"

Grant == INSTANCE OneTimeGrant WITH
  phase <- [r \in Requests |-> [s \in Stages |-> Phase(stage[r][s])]],
  holder <- claim

\* Every behaviour of the registry, whatever its callers do, is a behaviour
\* of the one-time grant: leases, callbacks and quarantine never take, free
\* or settle a grant in a way OneTimeGrant does not allow.
ImplementsOneTimeGrant == Grant!GrantSpec
=============================================================================
