------------------------ MODULE PolicyServiceProofs ------------------------
(***************************************************************************)
(* The registry first: for every set of intents, every set of claims and   *)
(* every choice of the time constants it keeps its invariant, never frees  *)
(* a grant and implements OneTimeGrant.                                    *)
(*                                                                         *)
(* The service implements the registry, and its threads, crashes and       *)
(* repeated deliveries never contradict a decision, for any lease times,   *)
(* delays, reject codes, queue size and number of crashes.                 *)
(*                                                                         *)
(* The decision row is what holds the argument together: it is written     *)
(* once, before the first POST, and every later enforcement of the run     *)
(* either repeats it or ends.  A gate GitHub opened therefore agrees with  *)
(* it, a run starts and proves a verdict only behind an open gate, and the *)
(* registry row of the stage follows the run.                              *)
(***************************************************************************)
EXTENDS PolicyService, TLAPS

-----------------------------------------------------------------------------
(* The registry. *)

\* A reservation's deadline is a natural number later than the clock, and it
\* leaves the stage's headroom before the grant expires.
LEMMA DeadlineBounds ==
  ASSUME TypeOK, NEW r \in Requests, NEW s \in Stages,
         clock < ReservationDeadline(r, s)
  PROVE  /\ ReservationDeadline(r, s) \in Nat
         /\ ReservationDeadline(r, s) + Headroom(s) <= ExpiresAt[r]
BY TimeAssumption DEF TypeOK, ReservationDeadline, Headroom

\* No call makes a stage, a claim, an outcome, a consumption or an approval
\* event leave its type.
LEMMA TypeStep == TypeOK /\ [Next]_vars => TypeOK'
<1> SUFFICES ASSUME TypeOK, [Next]_vars PROVE TypeOK'
  OBVIOUS
<1> USE DEF TypeOK
<1>1. CASE Tick
  BY <1>1 DEF Tick
<1>2. CASE ExpirePendingStages
  BY <1>2 DEF ExpirePendingStages, StageStates
<1>3. ASSUME NEW r \in Requests, Register(r) \/ FinalizeRef(r)
      PROVE  TypeOK'
  BY <1>3 DEF Register, FinalizeRef
<1>4. ASSUME NEW r \in Requests, NEW s \in Stages, NEW to \in StageStates,
             TransitionStage(r, s, to)
      PROVE  TypeOK'
  BY <1>4 DEF TransitionStage
<1>5. ASSUME NEW r \in Requests, NEW s \in Stages, NEW c \in Claims,
             ReserveStage(r, s, c)
      PROVE  TypeOK'
  BY <1>5, DeadlineBounds DEF ReserveStage, CanReserve, StageStates
<1>6. ASSUME NEW r \in Requests, NEW s \in Stages, NEW c \in Claims,
             ConsumeBootstrap(r, s, c)
      PROVE  TypeOK'
  BY <1>6 DEF ConsumeBootstrap
<1>7. ASSUME NEW r \in Requests, NEW s \in Stages, NEW c \in Claims,
             NEW target \in SealedStates, NEW since \in 0..clock,
             NEW at \in 0..clock,
             RecordStageOutcome(r, s, c, target, since, at)
      PROVE  TypeOK'
  BY <1>7 DEF RecordStageOutcome, SealedStates, StageStates
<1>8. CASE UNCHANGED vars
  BY <1>8 DEF vars
<1>9. QED
  BY <1>1, <1>2, <1>3, <1>4, <1>5, <1>6, <1>7, <1>8 DEF Next

-----------------------------------------------------------------------------
(***************************************************************************)
(* What one call does to one stage row and to the rows keyed by it.        *)
(***************************************************************************)
RowKept(r, s) ==
  /\ claim'[r][s] = claim[r][s]
  /\ leaseEnd'[r][s] = leaseEnd[r][s]

Untouched(r, s) ==
  /\ RowKept(r, s)
  /\ stage'[r][s] = stage[r][s]
  /\ outcome'[r][s] = outcome[r][s]
  /\ bootstrapped'[r][s] = bootstrapped[r][s]
  /\ approvedAt'[r][s] = approvedAt[r][s]

Reserves(r, s) ==
  /\ stage[r][s] = "Available" /\ stage'[r][s] = "Reserved"
  /\ claim'[r][s] \in Claims
  /\ intent'[r] = "Finalized"
  /\ leaseEnd'[r][s] + Headroom(s) <= ExpiresAt[r]
  /\ outcome'[r][s] = outcome[r][s]
  /\ bootstrapped'[r][s] = bootstrapped[r][s]
  /\ approvedAt'[r][s] = approvedAt[r][s]

Moves(r, s) ==
  /\ \/ <<stage[r][s], stage'[r][s]>> \in AllowedStageTransitions
     \/ /\ stage[r][s] \in {"Reserved", "ApprovedPendingOutcome"}
        /\ stage'[r][s] = "OutcomeOverdue"
  /\ RowKept(r, s)
  /\ outcome'[r][s] = outcome[r][s]
  /\ bootstrapped'[r][s] = bootstrapped[r][s]
  /\ IF stage'[r][s] = "ApprovedPendingOutcome"
       THEN approvedAt'[r][s] >= 0
       ELSE approvedAt'[r][s] = approvedAt[r][s]

Seals(r, s) ==
  /\ stage[r][s] \in {"Reserved", "CallbackUnknown", "ApprovedPendingOutcome"}
  /\ outcome[r][s] = None
  /\ outcome'[r][s] \in SealedStates
  /\ stage'[r][s] = outcome'[r][s]
  /\ RowKept(r, s)
  /\ bootstrapped'[r][s] = bootstrapped[r][s]
  /\ approvedAt'[r][s] = approvedAt[r][s] \/ approvedAt'[r][s] >= 0

Consumes(r, s) ==
  /\ stage[r][s] = "ApprovedPendingOutcome"
  /\ stage'[r][s] = "ApprovedPendingOutcome"
  /\ RowKept(r, s)
  /\ outcome'[r][s] = outcome[r][s]
  /\ bootstrapped[r][s] = None
  /\ bootstrapped'[r][s] = claim[r][s]
  /\ approvedAt'[r][s] = approvedAt[r][s]

RowStep(r, s) ==
  \/ Untouched(r, s)
  \/ Reserves(r, s)
  \/ Moves(r, s)
  \/ Seals(r, s)
  \/ Consumes(r, s)

\* Every step does one of these five things to every row, and no intent
\* leaves Finalized.
LEMMA RowSteps ==
  ASSUME TypeOK, [Next]_vars
  PROVE  /\ \A r \in Requests, s \in Stages : RowStep(r, s)
         /\ \A r \in Requests : intent[r] = "Finalized" =>
                                  intent'[r] = "Finalized"
<1> USE DEF TypeOK, RowStep, RowKept
<1> DEFINE Goal == /\ \A r \in Requests, s \in Stages : RowStep(r, s)
                   /\ \A r \in Requests : intent[r] = "Finalized" =>
                                            intent'[r] = "Finalized"
<1>1. CASE Tick
  BY <1>1 DEF Tick, Untouched
<1>2. CASE ExpirePendingStages
  BY <1>2 DEF ExpirePendingStages, Overdue, Untouched, Moves
<1>3. ASSUME NEW r \in Requests, Register(r) \/ FinalizeRef(r)
      PROVE  Goal
  BY <1>3 DEF Register, FinalizeRef, Untouched
<1>4. ASSUME NEW r \in Requests, NEW s \in Stages, NEW to \in StageStates,
             TransitionStage(r, s, to)
      PROVE  Goal
  <2>1. stage'[r][s] = to
    BY <1>4 DEF TransitionStage
  <2>2. <<stage[r][s], stage'[r][s]>> \in AllowedStageTransitions
    BY <1>4, <2>1 DEF TransitionStage
  <2>3. IF stage'[r][s] = "ApprovedPendingOutcome"
          THEN approvedAt'[r][s] >= 0
          ELSE approvedAt'[r][s] = approvedAt[r][s]
    BY <1>4, <2>1 DEF TransitionStage
  <2>4. Moves(r, s)
    BY <1>4, <2>2, <2>3 DEF TransitionStage, Moves
  <2>5. ASSUME NEW q \in Requests, NEW t \in Stages, q # r \/ t # s
        PROVE  Untouched(q, t)
    BY <1>4, <2>5 DEF TransitionStage, Untouched
  <2>6. intent' = intent
    BY <1>4 DEF TransitionStage
  <2>7. QED
    BY <2>4, <2>5, <2>6
<1>5. ASSUME NEW r \in Requests, NEW s \in Stages, NEW c \in Claims,
             ReserveStage(r, s, c)
      PROVE  Goal
  <2>1. /\ ReservationDeadline(r, s) \in Nat
        /\ ReservationDeadline(r, s) + Headroom(s) <= ExpiresAt[r]
    BY <1>5, DeadlineBounds DEF ReserveStage, CanReserve
  <2>2. Reserves(r, s)
    BY <1>5, <2>1 DEF ReserveStage, CanReserve, Reserves
  <2>3. ASSUME NEW q \in Requests, NEW t \in Stages, q # r \/ t # s
        PROVE  Untouched(q, t)
    BY <1>5, <2>3 DEF ReserveStage, Untouched
  <2>4. intent' = intent
    BY <1>5 DEF ReserveStage
  <2>5. QED
    BY <2>2, <2>3, <2>4
<1>6. ASSUME NEW r \in Requests, NEW s \in Stages, NEW c \in Claims,
             ConsumeBootstrap(r, s, c)
      PROVE  Goal
  BY <1>6 DEF ConsumeBootstrap, Untouched, Consumes
<1>7. ASSUME NEW r \in Requests, NEW s \in Stages, NEW c \in Claims,
             NEW target \in SealedStates, NEW since \in 0..clock,
             NEW at \in 0..clock,
             RecordStageOutcome(r, s, c, target, since, at)
      PROVE  Goal
  BY <1>7 DEF RecordStageOutcome, CanRecord, Untouched, Seals
<1>8. CASE UNCHANGED vars
  BY <1>8 DEF vars, Untouched
<1>9. QED
  BY <1>1, <1>2, <1>3, <1>4, <1>5, <1>6, <1>7, <1>8 DEF Next

-----------------------------------------------------------------------------
(***************************************************************************)
(* The invariants that speak of one row at a time.                         *)
(***************************************************************************)

\* A stage is bound exactly when it left Available.
BoundIffLeft ==
  \A r \in Requests, s \in Stages :
    stage[r][s] = "Available" <=> claim[r][s] = None

\* Sealed states and stage_outcomes rows stay in agreement in every call.
LEMMA OutcomeSealedStep ==
  TypeOK /\ OutcomeSealed /\ [Next]_vars => OutcomeSealed'
<1> SUFFICES ASSUME TypeOK, OutcomeSealed, [Next]_vars,
                    NEW r \in Requests, NEW s \in Stages
             PROVE  /\ outcome'[r][s] # None => stage'[r][s] = outcome'[r][s]
                    /\ stage'[r][s] \in SealedStates =>
                         outcome'[r][s] = stage'[r][s]
  BY DEF OutcomeSealed
<1>1. /\ outcome[r][s] # None => stage[r][s] = outcome[r][s]
      /\ stage[r][s] \in SealedStates => outcome[r][s] = stage[r][s]
  BY DEF OutcomeSealed
<1>2. outcome[r][s] \in SealedStates \cup {None}
  BY DEF TypeOK
<1>3. RowStep(r, s)
  BY RowSteps
<1>4. QED
  BY <1>1, <1>2, <1>3, NoneAssumption
  DEF RowStep, Untouched, Reserves, Moves, Seals, Consumes, SealedStates,
      AllowedStageTransitions

\* Only reserve_stage binds a stage, and nothing unbinds one.
LEMMA BoundIffLeftStep ==
  TypeOK /\ BoundIffLeft /\ [Next]_vars => BoundIffLeft'
<1> SUFFICES ASSUME TypeOK, BoundIffLeft, [Next]_vars,
                    NEW r \in Requests, NEW s \in Stages
             PROVE  stage'[r][s] = "Available" <=> claim'[r][s] = None
  BY DEF BoundIffLeft
<1>1. stage[r][s] = "Available" <=> claim[r][s] = None
  BY DEF BoundIffLeft
<1>2. RowStep(r, s)
  BY RowSteps
<1>3. QED
  BY <1>1, <1>2, NoneAssumption
  DEF RowStep, Untouched, Reserves, Moves, Seals, Consumes, SealedStates,
      AllowedStageTransitions, RowKept

\* A waiting stage keeps an approval event to measure the bootstrap window.
LEMMA ApprovedHasEventStep ==
  TypeOK /\ ApprovedHasEvent /\ [Next]_vars => ApprovedHasEvent'
<1> SUFFICES ASSUME TypeOK, ApprovedHasEvent, [Next]_vars,
                    NEW r \in Requests, NEW s \in Stages
             PROVE  stage'[r][s] = "ApprovedPendingOutcome" =>
                      approvedAt'[r][s] >= 0
  BY DEF ApprovedHasEvent
<1>1. stage[r][s] = "ApprovedPendingOutcome" => approvedAt[r][s] >= 0
  BY DEF ApprovedHasEvent
<1>2. RowStep(r, s)
  BY RowSteps
<1>3. QED
  BY <1>1, <1>2
  DEF RowStep, Untouched, Reserves, Moves, Seals, Consumes, SealedStates

\* A consumed bootstrap stays with its claim and keeps its stage off Rejected.
LEMMA BootstrapStep ==
  TypeOK /\ BootstrapOnlyApproved /\ ApprovedHasEvent /\ [Next]_vars =>
    BootstrapOnlyApproved'
<1> SUFFICES ASSUME TypeOK, BootstrapOnlyApproved, ApprovedHasEvent,
                    [Next]_vars, NEW r \in Requests, NEW s \in Stages,
                    bootstrapped'[r][s] # None
             PROVE  /\ bootstrapped'[r][s] = claim'[r][s]
                    /\ approvedAt'[r][s] >= 0
                    /\ stage'[r][s] \notin {"Available", "Reserved",
                                            "Rejected"}
  BY DEF BootstrapOnlyApproved
<1>1. bootstrapped[r][s] # None =>
        /\ bootstrapped[r][s] = claim[r][s]
        /\ approvedAt[r][s] >= 0
        /\ stage[r][s] \notin {"Available", "Reserved", "Rejected"}
  BY DEF BootstrapOnlyApproved
<1>2. stage[r][s] = "ApprovedPendingOutcome" => approvedAt[r][s] >= 0
  BY DEF ApprovedHasEvent
<1>3. RowStep(r, s)
  BY RowSteps
<1>4. QED
  BY <1>1, <1>2, <1>3
  DEF RowStep, Untouched, Reserves, Moves, Seals, Consumes, SealedStates,
      AllowedStageTransitions, RowKept

\* No call moves a lease or unfinalizes an intent.
LEMMA LeaseStep ==
  TypeOK /\ LeaseKeepsHeadroom /\ [Next]_vars => LeaseKeepsHeadroom'
<1> SUFFICES ASSUME TypeOK, LeaseKeepsHeadroom, [Next]_vars,
                    NEW r \in Requests, NEW s \in Stages,
                    claim'[r][s] # None
             PROVE  /\ intent'[r] = "Finalized"
                    /\ leaseEnd'[r][s] + Headroom(s) <= ExpiresAt[r]
  BY DEF LeaseKeepsHeadroom, Headroom
<1>1. claim[r][s] # None => /\ intent[r] = "Finalized"
                            /\ leaseEnd[r][s] + Headroom(s) <= ExpiresAt[r]
  BY DEF LeaseKeepsHeadroom
<1>2. /\ RowStep(r, s)
      /\ intent[r] = "Finalized" => intent'[r] = "Finalized"
  BY RowSteps
<1>3. QED
  BY <1>1, <1>2
  DEF RowStep, Untouched, Reserves, Moves, Seals, Consumes, RowKept

-----------------------------------------------------------------------------
(***************************************************************************)
(* The invariants that relate rows to each other.                          *)
(***************************************************************************)

\* One claim holds at most one stage (the second half of GrantBoundOnce).
ClaimsUnique ==
  \A r1, r2 \in Requests, s1, s2 \in Stages :
    /\ claim[r1][s1] # None
    /\ claim[r1][s1] = claim[r2][s2]
    => r1 = r2 /\ s1 = s2

\* reserve_stage binds a triple that unique_run_rule finds in no other row,
\* and no other call writes the three claim columns.
LEMMA ClaimsUniqueStep ==
  TypeOK /\ ClaimsUnique /\ [Next]_vars => ClaimsUnique'
<1> SUFFICES ASSUME TypeOK, ClaimsUnique, [Next]_vars PROVE ClaimsUnique'
  OBVIOUS
<1>1. ASSUME claim' = claim PROVE ClaimsUnique'
  BY <1>1 DEF ClaimsUnique
<1>2. ASSUME NEW r \in Requests, NEW s \in Stages, NEW c \in Claims,
             ReserveStage(r, s, c)
      PROVE  ClaimsUnique'
  <2>1. /\ claim'[r][s] = c
        /\ \A q \in Requests, t \in Stages :
             q # r \/ t # s => claim'[q][t] = claim[q][t]
    BY <1>2 DEF ReserveStage, TypeOK
  <2>2. \A q \in Requests, t \in Stages : claim[q][t] # c
    BY <1>2 DEF ReserveStage, CanReserve, ClaimUnused
  <2>3. QED
    BY <2>1, <2>2 DEF ClaimsUnique
<1>3. CASE UNCHANGED vars
  BY <1>1, <1>3 DEF vars
<1>4. QED
  BY <1>1, <1>2, <1>3
  DEF Next, Tick, ExpirePendingStages, Register, FinalizeRef,
      TransitionStage, ConsumeBootstrap, RecordStageOutcome

\* What a step may do to the three stages of one intent together: the guards
\* of reserve_stage and record_stage_outcome that read another stage's row.
LEMMA CrossStageSteps ==
  ASSUME TypeOK, OutcomeSealed, [Next]_vars, NEW r \in Requests
  PROVE  /\ Reserves(r, "browser-evidence") =>
              /\ stage[r]["apply"] = "Succeeded"
              /\ stage'[r]["apply"] = stage[r]["apply"]
              /\ stage'[r]["compensating-rollback"] =
                   stage[r]["compensating-rollback"]
         /\ Reserves(r, "compensating-rollback") =>
              /\ stage[r]["apply"] \in {"CallbackUnknown", "Failed"}
              /\ stage'[r]["apply"] = stage[r]["apply"]
              /\ stage'[r]["browser-evidence"] = stage[r]["browser-evidence"]
         /\ /\ stage[r]["apply"] # "Succeeded"
            /\ stage'[r]["apply"] = "Succeeded"
            => /\ stage[r]["compensating-rollback"] = "Available"
               /\ stage'[r]["compensating-rollback"] = "Available"
         /\ stage[r]["apply"] # "RolledBack" =>
              stage'[r]["apply"] # "RolledBack"
<1> DEFINE Goal ==
         /\ Reserves(r, "browser-evidence") =>
              /\ stage[r]["apply"] = "Succeeded"
              /\ stage'[r]["apply"] = stage[r]["apply"]
              /\ stage'[r]["compensating-rollback"] =
                   stage[r]["compensating-rollback"]
         /\ Reserves(r, "compensating-rollback") =>
              /\ stage[r]["apply"] \in {"CallbackUnknown", "Failed"}
              /\ stage'[r]["apply"] = stage[r]["apply"]
              /\ stage'[r]["browser-evidence"] = stage[r]["browser-evidence"]
         /\ /\ stage[r]["apply"] # "Succeeded"
            /\ stage'[r]["apply"] = "Succeeded"
            => /\ stage[r]["compensating-rollback"] = "Available"
               /\ stage'[r]["compensating-rollback"] = "Available"
         /\ stage[r]["apply"] # "RolledBack" =>
              stage'[r]["apply"] # "RolledBack"
<1> USE DEF TypeOK, Stages
<1>1. ASSUME stage' = stage PROVE Goal
  BY <1>1 DEF Reserves
<1>2. CASE ExpirePendingStages
  BY <1>2 DEF ExpirePendingStages, Overdue, Reserves
<1>3. ASSUME NEW q \in Requests, NEW t \in Stages, NEW to \in StageStates,
             TransitionStage(q, t, to)
      PROVE  Goal
  <2>1. to \notin {"Succeeded", "Reserved", "RolledBack"}
    BY <1>3 DEF TransitionStage, AllowedStageTransitions
  <2>2. QED
    BY <1>3, <2>1 DEF TransitionStage, Reserves
<1>4. ASSUME NEW q \in Requests, NEW t \in Stages, NEW c \in Claims,
             ReserveStage(q, t, c)
      PROVE  Goal
  BY <1>4 DEF ReserveStage, CanReserve, PrerequisiteSatisfied, Reserves
<1>5. ASSUME NEW q \in Requests, NEW t \in Stages, NEW c \in Claims,
             NEW target \in SealedStates, NEW since \in 0..clock,
             NEW at \in 0..clock,
             RecordStageOutcome(q, t, c, target, since, at)
      PROVE  Goal
  BY <1>5
  DEF RecordStageOutcome, CanRecord, NotOvertakingRollback, AllowedTargets,
      Reserves, SealedStates
<1>6. CASE UNCHANGED vars
  BY <1>1, <1>6 DEF vars
<1>7. QED
  BY <1>1, <1>2, <1>3, <1>4, <1>5, <1>6
  DEF Next, Tick, Register, FinalizeRef, ConsumeBootstrap

\* A successful apply keeps its verdict, so the browser stage bound on it
\* stays justified.
LEMMA BrowserStep ==
  TypeOK /\ OutcomeSealed /\ BrowserNeedsVerifiedApply /\ [Next]_vars =>
    BrowserNeedsVerifiedApply'
<1> SUFFICES ASSUME TypeOK, OutcomeSealed, BrowserNeedsVerifiedApply,
                    [Next]_vars, NEW r \in Requests,
                    stage'[r]["browser-evidence"] # "Available"
             PROVE  stage'[r]["apply"] = "Succeeded"
  BY DEF BrowserNeedsVerifiedApply
<1>1. /\ RowStep(r, "apply")
      /\ RowStep(r, "browser-evidence")
  BY RowSteps DEF Stages
<1>2. stage[r]["apply"] = "Succeeded"
  BY <1>1, CrossStageSteps
  DEF BrowserNeedsVerifiedApply, RowStep, Untouched, Moves, Seals, Consumes,
      AllowedStageTransitions
<1>3. outcome[r]["apply"] # None
  BY <1>2, NoneAssumption DEF OutcomeSealed, SealedStates, Stages
<1>4. QED
  BY <1>1, <1>2, <1>3
  DEF RowStep, Untouched, Reserves, Moves, Seals, Consumes,
      AllowedStageTransitions

\* Once a rollback is bound, its apply may only wander among the waiting
\* states or fail: record_stage_outcome refuses its success, and the browser
\* stage, which needs that success, stays Available.
LEMMA RollbackStep ==
  TypeOK /\ OutcomeSealed /\ BrowserNeedsVerifiedApply
    /\ RollbackExcludesSuccess /\ [Next]_vars => RollbackExcludesSuccess'
<1> SUFFICES ASSUME TypeOK, OutcomeSealed, BrowserNeedsVerifiedApply,
                    RollbackExcludesSuccess, [Next]_vars, NEW r \in Requests,
                    stage'[r]["compensating-rollback"] # "Available"
             PROVE  /\ stage'[r]["apply"] \in
                         {"CallbackUnknown", "ApprovedPendingOutcome",
                          "OutcomeOverdue", "Failed"}
                    /\ stage'[r]["browser-evidence"] = "Available"
  BY DEF RollbackExcludesSuccess
<1>1. /\ RowStep(r, "apply")
      /\ RowStep(r, "browser-evidence")
      /\ RowStep(r, "compensating-rollback")
  BY RowSteps DEF Stages
<1>2. /\ stage[r]["apply"] \in {"CallbackUnknown", "ApprovedPendingOutcome",
                                "OutcomeOverdue", "Failed"}
      /\ stage[r]["browser-evidence"] = "Available"
  <2>1. CASE stage[r]["compensating-rollback"] # "Available"
    BY <2>1 DEF RollbackExcludesSuccess
  <2>2. CASE stage[r]["compensating-rollback"] = "Available"
    <3>1. Reserves(r, "compensating-rollback")
      BY <1>1, <2>2
      DEF RowStep, Untouched, Moves, Seals, Consumes, AllowedStageTransitions
    <3>2. stage[r]["apply"] \in {"CallbackUnknown", "Failed"}
      BY <3>1, CrossStageSteps
    <3>3. QED
      BY <3>2 DEF BrowserNeedsVerifiedApply
  <2>3. QED
    BY <2>1, <2>2
<1>3. stage'[r]["apply"] # "Succeeded"
  BY <1>2, CrossStageSteps
<1>4. stage'[r]["browser-evidence"] = "Available"
  BY <1>1, <1>2, CrossStageSteps
  DEF RowStep, Untouched, Moves, Seals, Consumes, AllowedStageTransitions
<1>5. stage[r]["apply"] = "Failed" => outcome[r]["apply"] # None
  BY NoneAssumption DEF OutcomeSealed, Stages, SealedStates
<1>6. stage'[r]["apply"] # "RolledBack"
  BY <1>2, CrossStageSteps
<1>7. QED
  BY <1>1, <1>2, <1>3, <1>4, <1>5, <1>6
  DEF RowStep, Untouched, Reserves, Moves, Seals, Consumes, SealedStates,
      AllowedStageTransitions

-----------------------------------------------------------------------------
(***************************************************************************)
(* The theorems.                                                           *)
(***************************************************************************)

\* The empty database satisfies the invariant.
LEMMA InitInv == Init => Inv
<1> SUFFICES ASSUME Init PROVE Inv
  OBVIOUS
<1>1. TypeOK
  BY DEF Init, TypeOK, StageStates
<1>2. OutcomeSealed /\ ApprovedHasEvent
  BY DEF Init, OutcomeSealed, ApprovedHasEvent, SealedStates
<1>3. GrantBoundOnce /\ BootstrapOnlyApproved /\ LeaseKeepsHeadroom
  BY DEF Init, GrantBoundOnce, BootstrapOnlyApproved, LeaseKeepsHeadroom
<1>4. BrowserNeedsVerifiedApply /\ RollbackExcludesSuccess
  BY DEF Init, BrowserNeedsVerifiedApply, RollbackExcludesSuccess, Stages
<1>5. QED
  BY <1>1, <1>2, <1>3, <1>4 DEF Inv

\* Every call of the registry, and every step that is none, keeps it.
LEMMA InvStep == Inv /\ [Next]_vars => Inv'
<1> SUFFICES ASSUME Inv, [Next]_vars PROVE Inv'
  OBVIOUS
<1>1. /\ TypeOK /\ OutcomeSealed /\ ApprovedHasEvent /\ LeaseKeepsHeadroom
      /\ BootstrapOnlyApproved /\ BrowserNeedsVerifiedApply
      /\ RollbackExcludesSuccess
  BY DEF Inv
<1>2. BoundIffLeft /\ ClaimsUnique
  BY DEF Inv, GrantBoundOnce, BoundIffLeft, ClaimsUnique
<1>3. TypeOK' /\ OutcomeSealed' /\ ApprovedHasEvent' /\ LeaseKeepsHeadroom'
  BY <1>1, TypeStep, OutcomeSealedStep, ApprovedHasEventStep, LeaseStep
<1>4. BoundIffLeft' /\ ClaimsUnique'
  BY <1>1, <1>2, BoundIffLeftStep, ClaimsUniqueStep
<1>5. GrantBoundOnce'
  BY <1>4 DEF GrantBoundOnce, BoundIffLeft, ClaimsUnique
<1>6. /\ BootstrapOnlyApproved'
      /\ BrowserNeedsVerifiedApply'
      /\ RollbackExcludesSuccess'
  BY <1>1, BootstrapStep, BrowserStep, RollbackStep
<1>7. QED
  BY <1>3, <1>5, <1>6 DEF Inv

\* All the registry's invariants hold in every reachable state, whatever its
\* callers do and for any number of intents and claims.
THEOREM RegistryInvariant == Spec => []Inv
<1>1. QED
  BY InitInv, InvStep, PTL DEF Spec

\* The columns of the intent and stage tables keep their types.
THEOREM TypeCorrect == Spec => []TypeOK
<1>1. Inv => TypeOK
  BY DEF Inv
<1>2. QED
  BY <1>1, RegistryInvariant, PTL

\* record_stage_outcome and reserve_stage together keep a late success from
\* overtaking an activated rollback, for good.
THEOREM NoSuccessBesideRollback == Spec => []RollbackExcludesSuccess
<1>1. Inv => RollbackExcludesSuccess
  BY DEF Inv
<1>2. QED
  BY <1>1, RegistryInvariant, PTL

\* unique_run_rule and the reservation CAS bind a run to one stage at most.
THEOREM OneStagePerClaim == Spec => []GrantBoundOnce
<1>1. Inv => GrantBoundOnce
  BY DEF Inv
<1>2. QED
  BY <1>1, RegistryInvariant, PTL

\* No call overwrites a claim, an outcome or a bootstrap consumption, and no
\* call takes a stage out of Rejected.
THEOREM NothingFreed == Spec => NeverFreed
<1> DEFINE Kept ==
      \A r \in Requests, s \in Stages :
        /\ claim[r][s] # None => claim'[r][s] = claim[r][s]
        /\ outcome[r][s] # None => outcome'[r][s] = outcome[r][s]
        /\ bootstrapped[r][s] # None =>
             bootstrapped'[r][s] = bootstrapped[r][s]
        /\ stage[r][s] = "Rejected" => stage'[r][s] = "Rejected"
<1>1. Inv /\ [Next]_vars => Kept
  <2> SUFFICES ASSUME Inv, [Next]_vars, NEW r \in Requests, NEW s \in Stages
               PROVE  /\ claim[r][s] # None => claim'[r][s] = claim[r][s]
                      /\ outcome[r][s] # None =>
                           outcome'[r][s] = outcome[r][s]
                      /\ bootstrapped[r][s] # None =>
                           bootstrapped'[r][s] = bootstrapped[r][s]
                      /\ stage[r][s] = "Rejected" => stage'[r][s] = "Rejected"
    OBVIOUS
  <2>1. RowStep(r, s)
    BY RowSteps DEF Inv
  <2>2. stage[r][s] = "Available" <=> claim[r][s] = None
    BY DEF Inv, GrantBoundOnce
  <2>3. QED
    BY <2>1, <2>2
    DEF RowStep, Untouched, Reserves, Moves, Seals, Consumes, RowKept,
        AllowedStageTransitions
<1>2. QED
  BY <1>1, RegistryInvariant, PTL DEF Spec, NeverFreed

-----------------------------------------------------------------------------
(***************************************************************************)
(* The registry implements OneTimeGrant.                                   *)
(***************************************************************************)

\* The abstract phase of every stage.
Phases == [r \in Requests |-> [s \in Stages |-> Phase(stage[r][s])]]

\* A call that writes one stage row changes the abstract phase of that stage
\* alone.
LEMMA PhaseOfOne ==
  ASSUME TypeOK, NEW r \in Requests, NEW s \in Stages, NEW to,
         stage' = [stage EXCEPT ![r][s] = to]
  PROVE  Phases' = [Phases EXCEPT ![r][s] = Phase(to)]
<1>1. /\ stage'[r][s] = to
      /\ \A q \in Requests, t \in Stages :
           q # r \/ t # s => stage'[q][t] = stage[q][t]
  BY DEF TypeOK
<1>2. \A q \in Requests, t \in Stages :
        Phases'[q][t] = IF q = r /\ t = s THEN Phase(to) ELSE Phases[q][t]
  BY <1>1 DEF Phases, Phase
<1>3. ASSUME NEW q \in Requests
      PROVE  Phases'[q] = IF q = r THEN [Phases[r] EXCEPT ![s] = Phase(to)]
                                   ELSE Phases[q]
  BY <1>2 DEF Phases
<1>4. QED
  BY <1>3 DEF Phases

\* The empty database is three free grants for every intent.
LEMMA InitGrant == Init => Grant!GrantInit
BY DEF Init, Grant!GrantInit, Grant!GrantStages, Stages, Phase

\* reserve_stage takes a free grant.
LEMMA ReserveTakes ==
  ASSUME Inv, NEW r \in Requests, NEW s \in Stages, NEW c \in Claims,
         ReserveStage(r, s, c)
  PROVE  Grant!Take(r, s, c)
<1>1. TypeOK
  BY DEF Inv
<1>2. Phases[r][s] = "Free" /\ Phase("Reserved") = "Held"
  BY DEF ReserveStage, CanReserve, Phases, Phase, SealedStates
<1>3. Phases' = [Phases EXCEPT ![r][s] = "Held"]
  BY <1>1, <1>2, PhaseOfOne DEF ReserveStage
<1>4. /\ s = "browser-evidence" => Phases[r]["apply"] = "Succeeded"
      /\ s = "compensating-rollback" =>
           Phases[r]["apply"] \in {"Held", "Failed"}
  BY DEF ReserveStage, CanReserve, PrerequisiteSatisfied, Phases, Phase,
         Stages, SealedStates
<1>5. \A q \in Requests, t \in Stages : claim[q][t] # c
  BY DEF ReserveStage, CanReserve, ClaimUnused
<1>6. claim' = [claim EXCEPT ![r][s] = c]
  BY DEF ReserveStage
<1>7. QED
  BY <1>2, <1>3, <1>4, <1>5, <1>6
  DEF Grant!Take, Grant!MayTake, Grant!GrantStages, Stages, Phases

\* record_stage_outcome settles a held grant.
LEMMA RecordSettles ==
  ASSUME Inv, NEW r \in Requests, NEW s \in Stages, NEW c \in Claims,
         NEW target \in SealedStates, NEW since \in 0..clock,
         NEW at \in 0..clock,
         RecordStageOutcome(r, s, c, target, since, at)
  PROVE  Grant!Settle(r, s, target)
<1>1. TypeOK
  BY DEF Inv
<1>2. Phases[r][s] = "Held" /\ Phase(target) = target
  BY DEF RecordStageOutcome, CanRecord, Phases, Phase, SealedStates
<1>3. Phases' = [Phases EXCEPT ![r][s] = target]
  <2>1. stage' = [stage EXCEPT ![r][s] = target]
    BY DEF RecordStageOutcome
  <2>2. Phases' = [Phases EXCEPT ![r][s] = Phase(target)]
    BY <1>1, <2>1, PhaseOfOne
  <2>3. QED
    BY <1>2, <2>2
<1>4. s = "apply" /\ target = "Succeeded" =>
        Phases[r]["compensating-rollback"] = "Free"
  BY DEF RecordStageOutcome, CanRecord, NotOvertakingRollback, Phases, Phase,
         Stages
<1>5. claim' = claim
  BY DEF RecordStageOutcome
<1>6. QED
  BY <1>2, <1>3, <1>4, <1>5 DEF Grant!Settle, Phases

\* transition_stage voids a held grant when it rejects, and is invisible
\* otherwise.
LEMMA TransitionVoids ==
  ASSUME Inv, NEW r \in Requests, NEW s \in Stages, NEW to \in StageStates,
         TransitionStage(r, s, to)
  PROVE  Grant!Void(r, s) \/ UNCHANGED <<Phases, claim>>
<1>1. TypeOK
  BY DEF Inv
<1>2. Phases[r][s] = "Held"
  BY DEF TransitionStage, AllowedStageTransitions, Phases, Phase, SealedStates
<1>3. Phase(to) \in {"Held", "Void"}
  BY DEF TransitionStage, AllowedStageTransitions, Phase, SealedStates
<1>4. Phases' = [Phases EXCEPT ![r][s] = Phase(to)]
  BY <1>1, PhaseOfOne DEF TransitionStage
<1>5. claim' = claim
  BY DEF TransitionStage
<1>6. CASE Phase(to) = "Void"
  BY <1>2, <1>4, <1>5, <1>6 DEF Grant!Void, Phases
<1>7. CASE Phase(to) = "Held"
  <2>1. Phases \in [Requests -> [Stages -> {Phases[q][t] : q \in Requests,
                                                          t \in Stages}]]
    BY DEF Phases
  <2>2. Phases' = Phases
    BY <1>2, <1>4, <1>7, <2>1
  <2>3. QED
    BY <1>5, <2>2
<1>8. QED
  BY <1>3, <1>6, <1>7

\* A sweep moves rows between waiting states only.
LEMMA ExpiryIsInvisible ==
  ASSUME TypeOK, ExpirePendingStages
  PROVE  UNCHANGED <<Phases, claim>>
<1>1. \A r \in Requests, s \in Stages :
        Phase(stage'[r][s]) = Phase(stage[r][s])
  BY DEF ExpirePendingStages, Overdue, Phase, SealedStates
<1>2. QED
  BY <1>1 DEF ExpirePendingStages, Phases

\* Every behaviour of the registry is a behaviour of the one-time grant, so a
\* caller may rely on OneTimeGrant and forget leases, callbacks and sweeps.
THEOREM RegistryRefinesGrant == Spec => ImplementsOneTimeGrant
<1>1. Inv /\ [Next]_vars => [Grant!GrantNext]_(Grant!grantVars)
  <2> SUFFICES ASSUME Inv, [Next]_vars
               PROVE  Grant!GrantNext \/ UNCHANGED <<Phases, claim>>
    BY DEF Grant!grantVars, Phases
  <2>1. ASSUME stage' = stage, claim' = claim
        PROVE  UNCHANGED <<Phases, claim>>
    BY <2>1 DEF Phases
  <2>2. CASE ExpirePendingStages
    BY <2>2, ExpiryIsInvisible DEF Inv
  <2>3. ASSUME NEW r \in Requests, NEW s \in Stages, NEW to \in StageStates,
               TransitionStage(r, s, to)
        PROVE  Grant!GrantNext \/ UNCHANGED <<Phases, claim>>
    BY <2>3, TransitionVoids DEF Grant!GrantNext, Grant!GrantStages, Stages
  <2>4. ASSUME NEW r \in Requests, NEW s \in Stages, NEW c \in Claims,
               ReserveStage(r, s, c)
        PROVE  Grant!GrantNext
    BY <2>4, ReserveTakes DEF Grant!GrantNext, Grant!GrantStages, Stages
  <2>5. ASSUME NEW r \in Requests, NEW s \in Stages, NEW c \in Claims,
               NEW target \in SealedStates, NEW since \in 0..clock,
               NEW at \in 0..clock,
               RecordStageOutcome(r, s, c, target, since, at)
        PROVE  Grant!GrantNext
    <3>1. target \in Grant!VerdictsOf(s)
      BY <2>5 DEF RecordStageOutcome, CanRecord, AllowedTargets,
                  Grant!VerdictsOf
    <3>2. Grant!Settle(r, s, target)
      BY <2>5, RecordSettles
    <3>3. QED
      BY <3>1, <3>2 DEF Grant!GrantNext, Grant!GrantStages, Stages
  <2>6. CASE UNCHANGED vars
    BY <2>1, <2>6 DEF vars
  <2>7. QED
    BY <2>1, <2>2, <2>3, <2>4, <2>5, <2>6
    DEF Next, Tick, Register, FinalizeRef, ConsumeBootstrap
<1>2. QED
  BY <1>1, InitGrant, RegistryInvariant, PTL
  DEF Spec, ImplementsOneTimeGrant, Grant!GrantSpec

-----------------------------------------------------------------------------
(* The service. *)


Labels == {"idle", "evaluate", "reserve", "recheck", "claim", "post", "complete",
           "advance"}
PostResults == {"accepted", "ambiguous", "definitive"}

GithubTypes ==
  /\ runStatus \in [Active -> {"none", "waiting", "in_progress", "completed"}]
  /\ created \in [Active -> Nat]
  /\ started \in [Active -> Nat]
  /\ \A s \in Active : started[s] <= clock
  /\ verdict \in [Active -> {None, "success", "failure"}]
  /\ gate \in [Active -> {"none", "approved", "rejected"}]
  /\ failed \subseteq Active
  /\ decision \in [Active -> DecisionRows \cup {None}]
  /\ posted \in [Active -> SUBSET {"approved", "rejected"}]

ProcOK(p) ==
  /\ p \in [pc : Labels, run : Active \cup {None}, res : StageStates \cup {None},
            state : {"approved", "rejected", None},
            reason : RejectCodes \cup {"VALID", None},
            result : PostResults \cup {None}]
  /\ p.pc # "idle" => p.run \in Active
  /\ p.pc \in {"claim", "post", "complete", "advance"} =>
       p.state \in {"approved", "rejected"} /\ p.reason \in RejectCodes \cup {"VALID"}
  /\ p.pc \in {"complete", "advance"} => p.result \in PostResults

ProcTypes == ProcOK(proc)

ThreadTypes ==
  /\ queue \in Seq(Active)
  /\ sweep \in [pc : {"idle", "read", "seal"}, run : Active \cup {None},
                seen : StageStates \cup {None}, at : Nat]
  /\ sweep.pc # "idle" => sweep.run \in Active
  /\ sweep.at <= clock
  /\ boot \in [Active -> {"idle", "read", "live"}]

SvcTypes == GithubTypes /\ ProcTypes /\ ThreadTypes

\* The decision row comes before the POST, and GitHub holds nothing else.
DecisionFirst ==
  \A s \in Active :
    /\ decision[s] = None => gate[s] = "none" /\ posted[s] = {}
    /\ decision[s] # None =>
         /\ gate[s] \in {"none", decision[s].state}
         /\ posted[s] \subseteq {decision[s].state}

\* An enforcement past claim_decision works for the decision of the row, and
\* only an approval carries a reservation.
EnforcesDecision ==
  /\ proc.pc \in {"post", "complete", "advance"} =>
       decision[proc.run] # None /\ decision[proc.run].state = proc.state
  /\ proc.pc \in {"complete", "advance"} /\ proc.result = "accepted" =>
       gate[proc.run] = proc.state
  /\ proc.pc \in {"claim", "post", "complete", "advance"} /\ proc.res # None =>
       proc.state = "approved"
  /\ proc.pc = "advance" => proc.res # None

Progressed(s) ==
  \/ St(s) = "ApprovedPendingOutcome"
  \/ St(s) \in SealedStates
  \/ bootstrapped[Req][s] # None

\* Nothing runs, proves a verdict or moves its row behind a closed gate.
GateOpens ==
  \A s \in Active :
    /\ runStatus[s] = "in_progress" => gate[s] = "approved"
    /\ verdict[s] # None => gate[s] = "approved"
    /\ Progressed(s) => gate[s] = "approved"

\* A row is called unknown or sealed only when its run is over.
RunsOver ==
  /\ \A s \in Stages : s \notin Active => St(s) = "Available"
  /\ \A s \in Active : St(s) \in {"CallbackUnknown"} \cup SealedStates =>
                         runStatus[s] = "completed"
  /\ sweep.pc = "seal" => runStatus[sweep.run] = "completed"

\* Beside a bound rollback no enforcement can bring the apply back: its run
\* is over, so each one ends in a rejection without a reservation.
RollbackAlone ==
  claim[Req]["compensating-rollback"] # None =>
    /\ St("apply") \in {"CallbackUnknown", "Failed"}
    /\ proc.pc # "idle" /\ proc.run = "apply" =>
         /\ proc.res = None
         /\ proc.pc \in {"evaluate", "claim", "post", "complete"}

SvcInv ==
  /\ Inv /\ SvcTypes /\ DecisionFirst /\ EnforcesDecision /\ GateOpens
  /\ RunsOver /\ RollbackAlone

-----------------------------------------------------------------------------
LEMMA SvcInitInv == SvcInit => SvcInv
<1> SUFFICES ASSUME SvcInit PROVE SvcInv
  OBVIOUS
<1>1. Inv
  BY InitInv DEF SvcInit
<1>2. \A s \in Stages : St(s) = "Available" /\ bootstrapped[Req][s] = None
                        /\ claim[Req][s] = None
  BY ServiceAssumption DEF SvcInit, Init, St
<1>3. SvcTypes
  BY <1>1 DEF SvcInit, Init, SvcTypes, GithubTypes, ProcTypes, ProcOK, ThreadTypes, NoProc,
         NoSweep, Labels
<1>4. DecisionFirst /\ EnforcesDecision
  BY RowAssumption DEF SvcInit, DecisionFirst, EnforcesDecision, NoProc
<1>5. GateOpens /\ RunsOver
  BY <1>2, ServiceAssumption
  DEF SvcInit, GateOpens, RunsOver, Progressed, SealedStates, NoSweep
<1>6. RollbackAlone
  BY <1>2 DEF RollbackAlone, Stages
<1> QED
  BY <1>1, <1>3, <1>4, <1>5, <1>6 DEF SvcInv

\* Every step of the service is one call of the registry, or none.
LEMMA RegistryStep ==
  ASSUME TypeOK, SvcTypes, SvcNext
  PROVE  [Next]_vars
<1> USE ServiceAssumption DEF SvcTypes, GithubTypes, ProcTypes, ProcOK, ThreadTypes
<1>1. CASE Time
  BY <1>1 DEF Time, Next
<1>2. CASE RegisterIntent
  BY <1>2 DEF RegisterIntent, Next
<1>3. CASE Reserve
  BY <1>3 DEF Reserve, Next
<1>4. CASE Recheck
  BY <1>4 DEF Recheck, Next, StageStates
<1>5. CASE Advance
  BY <1>5 DEF Advance, Next, StageStates, TargetOf
<1>6. CASE SweepExpires
  BY <1>6 DEF SweepExpires, Next
<1>7. CASE SweepQuarantines
  BY <1>7 DEF SweepQuarantines, Next, StageStates
<1>8. CASE SweepSeals
  <2>1. CASE UNCHANGED vars
    BY <2>1
  <2>2. CASE RecordStageOutcome(Req, sweep.run, sweep.run, VerdictOf(sweep.run),
                                started[sweep.run], sweep.at)
    <3>1. sweep.run \in Active /\ sweep.at \in 0..clock
          /\ started[sweep.run] \in 0..clock
      BY <1>8 DEF SweepSeals, TypeOK
    <3>2. VerdictOf(sweep.run) \in SealedStates
      BY DEF VerdictOf, SealedStates
    <3> QED
      BY <2>2, <3>1, <3>2 DEF Next
  <2> QED
    BY <1>8, <2>1, <2>2 DEF SweepSeals
<1>9. ASSUME NEW s \in Active, BootConsumes(s)
      PROVE  [Next]_vars
  BY <1>9 DEF BootConsumes, Next
<1>10. CASE \/ Crash \/ WorkerTakes \/ Evaluate \/ EnforceRaises \/ ClaimDecision
            \/ PostDecision \/ CompleteDecision \/ SweepGivesUp
  BY <1>10 DEF Crash, WorkerTakes, Evaluate, EnforceRaises, ClaimDecision, PostDecision,
               CompleteDecision, SweepGivesUp
<1>11. ASSUME NEW s \in Active,
              \/ DispatchRun(s) \/ AcceptDispatch(s) \/ StartRun(s) \/ CompleteRun(s)
              \/ Accept(s) \/ DeliveryFails(s) \/ PollerTakes(s) \/ SweepReads(s)
              \/ BootReads(s) \/ BootChecksRun(s) \/ BootFails(s)
       PROVE  [Next]_vars
  BY <1>11 DEF DispatchRun, AcceptDispatch, StartRun, CompleteRun, Accept, DeliveryFails,
               PollerTakes, SweepReads, BootReads, BootChecksRun, BootFails
<1> QED
  BY <1>1, <1>2, <1>3, <1>4, <1>5, <1>6, <1>7, <1>8, <1>9, <1>10, <1>11
  DEF SvcNext, Enforce

\* The enforcement keeps its types.
LEMMA ProcTypesStep ==
  ASSUME TypeOK, SvcTypes, SvcNext
  PROVE  ProcTypes'
<1> USE ServiceAssumption DEF SvcTypes, ProcTypes
<1>1. ProcOK(NoProc) /\ \A s \in Active : ProcOK(Begin(s))
  BY DEF ProcOK, NoProc, Begin, Labels
<1>2. ASSUME proc.pc # "idle", NEW code \in RejectCodes, ToReject(code)
      PROVE  ProcOK(proc)'
  BY <1>2 DEF ToReject, ProcOK, Labels
<1>3. CASE Reserve
  <2>1. St(proc.run) \in StageStates
    BY <1>3 DEF Reserve, St, TypeOK, ProcOK
  <2>2. ASSUME NEW r \in StageStates, proc' = [proc EXCEPT !.pc = "recheck", !.res = r]
        PROVE  ProcOK(proc)'
    BY <1>3, <2>2 DEF Reserve, ProcOK, Labels
  <2> QED
    BY <1>2, <1>3, <2>1, <2>2 DEF Reserve, StageStates
<1>4. CASE Recheck
  <2>1. ASSUME proc' = [proc EXCEPT !.pc = "claim", !.state = "approved",
                                    !.reason = "VALID"]
        PROVE  ProcOK(proc)'
    BY <1>4, <2>1 DEF Recheck, ProcOK, Labels
  <2> QED
    BY <1>2, <1>4, <2>1 DEF Recheck
<1>5. CASE Evaluate
  <2>1. ASSUME proc' = [proc EXCEPT !.pc = "reserve"]
        PROVE  ProcOK(proc)'
    BY <1>5, <2>1 DEF Evaluate, ProcOK, Labels
  <2> QED
    BY <1>2, <1>5, <2>1 DEF Evaluate
<1>6. CASE ClaimDecision
  <2>1. ASSUME proc' = [proc EXCEPT !.pc = "post"]
        PROVE  ProcOK(proc)'
    BY <1>6, <2>1 DEF ClaimDecision, ProcOK, Labels
  <2> QED
    BY <1>1, <1>6, <2>1 DEF ClaimDecision
<1>7. CASE PostDecision
  <2>1. ASSUME NEW result \in PostResults,
               proc' = [proc EXCEPT !.pc = "complete", !.result = result]
        PROVE  ProcOK(proc)'
    BY <1>7, <2>1 DEF PostDecision, ProcOK, Labels
  <2> QED
    BY <1>1, <1>7, <2>1 DEF PostDecision, PostResults
<1>8. CASE CompleteDecision
  <2>1. ASSUME proc' = [proc EXCEPT !.pc = "advance"]
        PROVE  ProcOK(proc)'
    BY <1>8, <2>1 DEF CompleteDecision, ProcOK, Labels
  <2> QED
    BY <1>1, <1>8, <2>1 DEF CompleteDecision
<1>9. CASE Advance \/ EnforceRaises \/ Crash
  BY <1>1, <1>9 DEF Advance, EnforceRaises, Crash
<1>10. CASE WorkerTakes
  <2>1. Head(queue) \in Active
    BY <1>10 DEF WorkerTakes, ThreadTypes
  <2> QED
    BY <1>1, <1>10, <2>1 DEF WorkerTakes
<1>11. ASSUME NEW s \in Active, PollerTakes(s)
       PROVE  ProcTypes'
  BY <1>1, <1>11 DEF PollerTakes
<1>12. CASE \/ Time \/ RegisterIntent \/ SweepExpires \/ SweepQuarantines \/ SweepSeals
            \/ SweepGivesUp
  BY <1>12 DEF Time, RegisterIntent, SweepExpires, SweepQuarantines, SweepSeals,
               SweepGivesUp, sweepElse, threadVars, ProcOK
<1>13. ASSUME NEW s \in Active,
              \/ DispatchRun(s) \/ AcceptDispatch(s) \/ StartRun(s) \/ CompleteRun(s)
              \/ Accept(s) \/ DeliveryFails(s) \/ SweepReads(s)
              \/ BootReads(s) \/ BootChecksRun(s) \/ BootConsumes(s) \/ BootFails(s)
       PROVE  ProcTypes'
  BY <1>13 DEF DispatchRun, AcceptDispatch, StartRun, CompleteRun, Accept, DeliveryFails,
               SweepReads, BootReads, BootChecksRun, BootConsumes, BootFails, sweepElse,
               bootElse, threadVars, ProcOK
<1> QED
  BY <1>3, <1>4, <1>5, <1>6, <1>7, <1>8, <1>9, <1>10, <1>11, <1>12, <1>13
  DEF SvcNext, Enforce

\* What GithubTypes speaks of.
githubState == <<clock, githubVars, failed, decision, posted>>

\* GitHub and the ledger keep theirs.
LEMMA GithubTypesStep ==
  ASSUME TypeOK, SvcTypes, EnforcesDecision, SvcNext
  PROVE  GithubTypes'
<1> USE ServiceAssumption
<1>a. GithubTypes /\ clock \in Nat
  BY DEF SvcTypes, TypeOK
<1>b. proc.pc # "idle" => proc.run \in Active
  BY DEF SvcTypes, ProcTypes, ProcOK
<1>1. ASSUME UNCHANGED githubState
      PROVE  GithubTypes'
  BY <1>a, <1>1 DEF githubState, githubVars, GithubTypes
<1>2. CASE Time
  BY <1>2, <1>a DEF Time, Tick, githubVars, ledgerVars, GithubTypes
<1>3. CASE \/ RegisterIntent \/ Crash \/ WorkerTakes \/ Evaluate \/ EnforceRaises
           \/ SweepExpires \/ SweepGivesUp
  BY <1>1, <1>3
  DEF RegisterIntent, Crash, WorkerTakes, Evaluate, EnforceRaises, SweepExpires, SweepGivesUp,
      Register, FinalizeRef, ExpirePendingStages, vars, githubState, githubVars, ledgerVars,
      enforceElse, sweepElse
<1>4. CASE Reserve \/ Recheck \/ Advance
  BY <1>1, <1>4
  DEF Reserve, Recheck, Advance, ReserveStage, TransitionStage, vars, githubState, ledgerVars,
      enforceElse
<1>5. CASE SweepQuarantines \/ SweepSeals
  BY <1>1, <1>5
  DEF SweepQuarantines, SweepSeals, TransitionStage, RecordStageOutcome, vars, githubState,
      ledgerVars, sweepElse
<1>6. CASE ClaimDecision
  <2>1. [state |-> proc.state, reason |-> proc.reason, callback |-> "Pending"]
          \in DecisionRows
    BY <1>6 DEF ClaimDecision, DecisionRows, SvcTypes, ProcTypes, ProcOK
  <2>2. decision' \in [Active -> DecisionRows \cup {None}]
    BY <1>6, <1>a, <1>b, <2>1 DEF ClaimDecision, GithubTypes
  <2> QED
    BY <1>6, <1>a, <2>2 DEF ClaimDecision, GithubTypes, vars, githubVars, enforceElse
<1>7. CASE PostDecision
  <2>1. proc.run \in Active /\ proc.state \in {"approved", "rejected"}
    BY <1>7 DEF PostDecision, SvcTypes, ProcTypes, ProcOK
  <2>2. PICK result : gate' \in GateAfter(proc.run, proc.state, result)
    BY <1>7 DEF PostDecision
  <2>3. gate' \in [Active -> {"none", "approved", "rejected"}]
    BY <1>a, <2>1, <2>2 DEF GateAfter, GithubTypes
  <2>4. posted' \in [Active -> SUBSET {"approved", "rejected"}]
    BY <1>7, <1>a, <2>1 DEF PostDecision, GithubTypes
  <2> QED
    BY <1>7, <1>a, <2>3, <2>4 DEF PostDecision, GithubTypes, vars, ledgerVars, enforceElse
<1>8. CASE CompleteDecision
  <2>1. decision' \in [Active -> DecisionRows \cup {None}]
    <3>1. decision[proc.run] \in DecisionRows \cup {None}
      BY <1>8, <1>a, <1>b DEF CompleteDecision, GithubTypes
    <3>2. CallbackOf(proc.result) \in {"Succeeded", "Unknown", "DefinitiveFailure"}
      BY DEF CallbackOf
    <3>3. decision[proc.run] # None
      BY <1>8 DEF CompleteDecision, EnforcesDecision
    <3> QED
      BY <1>8, <1>a, <1>b, <3>1, <3>2, <3>3 DEF CompleteDecision, GithubTypes, DecisionRows
  <2> QED
    BY <1>8, <1>a, <2>1 DEF CompleteDecision, GithubTypes, vars, githubVars, enforceElse
<1>9. ASSUME NEW s \in Active,
             \/ AcceptDispatch(s) \/ PollerTakes(s) \/ SweepReads(s)
             \/ BootReads(s) \/ BootChecksRun(s) \/ BootConsumes(s) \/ BootFails(s)
      PROVE  GithubTypes'
  BY <1>1, <1>9
  DEF AcceptDispatch, PollerTakes, SweepReads, BootReads, BootChecksRun, BootConsumes,
      BootFails, ConsumeBootstrap, vars, githubState, ledgerVars, sweepElse, bootElse,
      enforceElse
<1>10. ASSUME NEW s \in Active, DispatchRun(s) \/ StartRun(s) \/ CompleteRun(s)
       PROVE  GithubTypes'
  BY <1>10, <1>a DEF DispatchRun, StartRun, CompleteRun, GithubTypes, vars, ledgerVars
<1>11. ASSUME NEW s \in Active, Accept(s) \/ DeliveryFails(s)
       PROVE  GithubTypes'
  BY <1>11, <1>a DEF Accept, DeliveryFails, GithubTypes, vars, githubVars, ledgerVars
<1> QED
  BY <1>2, <1>3, <1>4, <1>5, <1>6, <1>7, <1>8, <1>9, <1>10, <1>11 DEF SvcNext, Enforce

\* The queue, the sweeper and the bootstrap handlers keep theirs.
LEMMA ThreadTypesStep ==
  ASSUME TypeOK, SvcTypes, SvcNext
  PROVE  ThreadTypes'
<1> USE ServiceAssumption
<1>a. ThreadTypes /\ clock \in Nat
  BY DEF SvcTypes, TypeOK
<1>1. ASSUME UNCHANGED <<clock, queue, sweep, boot>>
      PROVE  ThreadTypes'
  BY <1>a, <1>1 DEF ThreadTypes
<1>2. CASE Time
  BY <1>2, <1>a DEF Time, Tick, ThreadTypes, threadVars
<1>3. CASE RegisterIntent \/ Reserve \/ Recheck \/ Advance
  BY <1>1, <1>3
  DEF RegisterIntent, Register, FinalizeRef, Reserve, Recheck, Advance, ReserveStage,
      TransitionStage, vars, threadVars, enforceElse
<1>4. CASE Evaluate \/ EnforceRaises \/ ClaimDecision \/ PostDecision \/ CompleteDecision
  BY <1>1, <1>4
  DEF Evaluate, EnforceRaises, ClaimDecision, PostDecision, CompleteDecision, vars,
      enforceElse
<1>5. CASE Crash
  BY <1>5, <1>a DEF Crash, NoSweep, ThreadTypes, vars
<1>6. CASE WorkerTakes
  <2>1. Tail(queue) \in Seq(Active)
    BY <1>6, <1>a DEF WorkerTakes, ThreadTypes
  <2> QED
    BY <1>6, <1>a, <2>1 DEF WorkerTakes, ThreadTypes, vars, enforceElse
<1>7. CASE SweepExpires
  BY <1>1, <1>7 DEF SweepExpires, ExpirePendingStages, sweepElse
<1>8. CASE SweepQuarantines
  BY <1>8, <1>a DEF SweepQuarantines, TransitionStage, ThreadTypes, vars, sweepElse
<1>9. CASE SweepSeals \/ SweepGivesUp
  BY <1>9, <1>a DEF SweepSeals, SweepGivesUp, RecordStageOutcome, NoSweep, ThreadTypes, vars,
                    sweepElse
<1>10. ASSUME NEW s \in Active,
              \/ DispatchRun(s) \/ AcceptDispatch(s) \/ StartRun(s) \/ CompleteRun(s)
              \/ DeliveryFails(s) \/ PollerTakes(s)
       PROVE  ThreadTypes'
  BY <1>1, <1>10
  DEF DispatchRun, AcceptDispatch, StartRun, CompleteRun, DeliveryFails, PollerTakes, vars,
      threadVars, enforceElse
<1>11. ASSUME NEW s \in Active, Accept(s)
       PROVE  ThreadTypes'
  BY <1>11, <1>a DEF Accept, ThreadTypes, vars
<1>12. ASSUME NEW s \in Active, SweepReads(s)
       PROVE  ThreadTypes'
  <2>1. St(s) \in StageStates
    BY DEF St, TypeOK
  <2> QED
    BY <1>12, <1>a, <2>1 DEF SweepReads, ThreadTypes, vars, sweepElse
<1>13. ASSUME NEW s \in Active,
              BootReads(s) \/ BootChecksRun(s) \/ BootConsumes(s) \/ BootFails(s)
       PROVE  ThreadTypes'
  BY <1>13, <1>a DEF BootReads, BootChecksRun, BootConsumes, BootFails, ConsumeBootstrap,
                     ThreadTypes, vars, bootElse
<1> QED
  BY <1>2, <1>3, <1>4, <1>5, <1>6, <1>7, <1>8, <1>9, <1>10, <1>11, <1>12, <1>13
  DEF SvcNext, Enforce

-----------------------------------------------------------------------------
\* A decision row is written once: the state of a row stays.
LEMMA DecisionsStay ==
  ASSUME SvcTypes, EnforcesDecision, SvcNext, NEW s \in Active, decision[s] # None
  PROVE  decision'[s] # None /\ decision'[s].state = decision[s].state
<1>a. GithubTypes /\ (proc.pc # "idle" => proc.run \in Active)
  BY DEF SvcTypes, ProcTypes, ProcOK
<1>1. ASSUME decision' = decision
      PROVE  decision'[s] # None /\ decision'[s].state = decision[s].state
  BY <1>1
<1>2. CASE ClaimDecision
  BY <1>2, <1>a DEF ClaimDecision, GithubTypes
<1>3. CASE CompleteDecision
  <2>1. /\ proc.run \in Active /\ decision \in [Active -> DecisionRows \cup {None}]
        /\ decision' = [decision EXCEPT ![proc.run].callback = CallbackOf(proc.result)]
        /\ decision[proc.run] # None
    BY <1>3, <1>a DEF CompleteDecision, GithubTypes, EnforcesDecision
  <2>2. CASE s # proc.run
    BY <2>1, <2>2
  <2>3. CASE s = proc.run
    <3>1. decision'[s] = [decision[s] EXCEPT !.callback = CallbackOf(proc.result)]
      BY <2>1, <2>3
    <3>2. decision[s] \in DecisionRows
      BY <2>1, <2>3
    <3>3. decision'[s] \in DecisionRows /\ decision'[s].state = decision[s].state
      BY <3>1, <3>2 DEF DecisionRows, CallbackOf
    <3> QED
      BY <3>3, RowAssumption
  <2> QED
    BY <2>2, <2>3
<1>4. CASE \/ Time \/ RegisterIntent \/ Crash \/ WorkerTakes \/ Evaluate \/ EnforceRaises
           \/ Reserve \/ Recheck \/ PostDecision \/ Advance \/ SweepExpires
           \/ SweepQuarantines \/ SweepSeals \/ SweepGivesUp
  BY <1>1, <1>4
  DEF Time, RegisterIntent, Crash, WorkerTakes, Evaluate, EnforceRaises, Reserve, Recheck,
      PostDecision, Advance, SweepExpires, SweepQuarantines, SweepSeals, SweepGivesUp,
      ledgerVars, sweepElse
<1>5. ASSUME NEW t \in Active,
             \/ DispatchRun(t) \/ AcceptDispatch(t) \/ StartRun(t) \/ CompleteRun(t)
             \/ Accept(t) \/ DeliveryFails(t) \/ PollerTakes(t) \/ SweepReads(t)
             \/ BootReads(t) \/ BootChecksRun(t) \/ BootConsumes(t) \/ BootFails(t)
      PROVE  decision' = decision
  BY <1>5
  DEF DispatchRun, AcceptDispatch, StartRun, CompleteRun, Accept, DeliveryFails, PollerTakes,
      SweepReads, BootReads, BootChecksRun, BootConsumes, BootFails, ledgerVars, sweepElse,
      bootElse
<1> QED
  BY <1>1, <1>2, <1>3, <1>4, <1>5 DEF SvcNext, Enforce

\* Only post_decision reaches GitHub's gate, for the run and the decision of
\* the enforcement, and an applied decision stays.
GateStep ==
  /\ \/ UNCHANGED <<gate, posted>>
     \/ /\ proc.pc = "post" /\ decision' = decision
        /\ posted' = [posted EXCEPT ![proc.run] = @ \cup {proc.state}]
        /\ \/ gate' = gate
           \/ /\ gate[proc.run] = "none"
              /\ gate' = [gate EXCEPT ![proc.run] = proc.state]

LEMMA GateSteps ==
  ASSUME SvcNext
  PROVE  GateStep
<1>1. CASE PostDecision
  <2>1. PICK result : gate' \in GateAfter(proc.run, proc.state, result)
    BY <1>1 DEF PostDecision
  <2> QED
    BY <1>1, <2>1 DEF PostDecision, GateAfter, GateStep, ledgerVars
<1>2. CASE \/ Time \/ RegisterIntent \/ Crash \/ WorkerTakes \/ Evaluate \/ EnforceRaises
           \/ Reserve \/ Recheck \/ ClaimDecision \/ CompleteDecision \/ Advance
           \/ SweepExpires \/ SweepQuarantines \/ SweepSeals \/ SweepGivesUp
  BY <1>2
  DEF Time, RegisterIntent, Crash, WorkerTakes, Evaluate, EnforceRaises, Reserve, Recheck,
      ClaimDecision, CompleteDecision, Advance, SweepExpires, SweepQuarantines, SweepSeals,
      SweepGivesUp, githubVars, sweepElse, GateStep
<1>3. ASSUME NEW s \in Active,
             \/ DispatchRun(s) \/ AcceptDispatch(s) \/ StartRun(s) \/ CompleteRun(s)
             \/ Accept(s) \/ DeliveryFails(s) \/ PollerTakes(s) \/ SweepReads(s)
             \/ BootReads(s) \/ BootChecksRun(s) \/ BootConsumes(s) \/ BootFails(s)
      PROVE  UNCHANGED <<gate, posted>>
  BY <1>3
  DEF DispatchRun, AcceptDispatch, StartRun, CompleteRun, Accept, DeliveryFails, PollerTakes,
      SweepReads, BootReads, BootChecksRun, BootConsumes, BootFails, githubVars, sweepElse,
      bootElse
<1> QED
  BY <1>1, <1>2, <1>3 DEF SvcNext, Enforce, GateStep

LEMMA DecisionFirstStep ==
  ASSUME SvcTypes, EnforcesDecision, DecisionFirst, SvcNext
  PROVE  DecisionFirst'
<1> SUFFICES ASSUME NEW s \in Active
             PROVE  /\ decision'[s] = None => gate'[s] = "none" /\ posted'[s] = {}
                    /\ decision'[s] # None =>
                         /\ gate'[s] \in {"none", decision'[s].state}
                         /\ posted'[s] \subseteq {decision'[s].state}
  BY DEF DecisionFirst
<1>1. GithubTypes /\ (proc.pc # "idle" => proc.run \in Active)
  BY DEF SvcTypes, ProcTypes, ProcOK
<1>2. CASE UNCHANGED <<gate, posted>>
  <2>1. CASE decision[s] = None
    BY <1>2, <2>1 DEF DecisionFirst
  <2>2. CASE decision[s] # None
    BY <1>2, <2>2, DecisionsStay DEF DecisionFirst
  <2> QED
    BY <2>1, <2>2
<1>3. CASE /\ proc.pc = "post" /\ decision' = decision
           /\ posted' = [posted EXCEPT ![proc.run] = @ \cup {proc.state}]
           /\ \/ gate' = gate
              \/ /\ gate[proc.run] = "none"
                 /\ gate' = [gate EXCEPT ![proc.run] = proc.state]
  <2>1. decision[proc.run] # None /\ decision[proc.run].state = proc.state
    BY <1>3 DEF EnforcesDecision
  <2> QED
    BY <1>1, <1>3, <2>1 DEF DecisionFirst, GithubTypes
<1> QED
  BY <1>2, <1>3, GateSteps DEF GateStep

LEMMA GateStays ==
  ASSUME SvcTypes, SvcNext, NEW s \in Active, gate[s] # "none"
  PROVE  gate'[s] = gate[s]
<1>1. GithubTypes /\ (proc.pc # "idle" => proc.run \in Active)
  BY DEF SvcTypes, ProcTypes, ProcOK
<1> QED
  BY <1>1, GateSteps DEF GateStep, GithubTypes

LEMMA EnforcesDecisionStep ==
  ASSUME SvcTypes, EnforcesDecision, SvcNext
  PROVE  EnforcesDecision'
<1>a. ProcOK(proc)
  BY DEF SvcTypes, ProcTypes
<1>b. decision \in [Active -> DecisionRows \cup {None}]
      /\ gate \in [Active -> {"none", "approved", "rejected"}]
  BY DEF SvcTypes, GithubTypes
<1>1. ASSUME proc' = NoProc \/ \E s : proc' = Begin(s)
      PROVE  EnforcesDecision'
  <2>1. NoProc.pc = "idle" /\ \A s : Begin(s).pc = "evaluate"
    BY DEF NoProc, Begin
  <2>2. proc'.pc \in {"idle", "evaluate"}
    BY <1>1, <2>1
  <2> QED
    BY <2>2 DEF EnforcesDecision
<1>2. ASSUME proc.pc # "idle", NEW code, ToReject(code)
      PROVE  EnforcesDecision'
  BY <1>2, <1>a DEF ToReject, EnforcesDecision, ProcOK
<1>3. ASSUME proc' = proc
      PROVE  EnforcesDecision'
  <2>1. CASE proc.pc \in {"post", "complete", "advance"}
    <3>1. proc.run \in Active /\ proc.state \in {"approved", "rejected"}
      BY <1>a, <2>1 DEF ProcOK
    <3>2. decision'[proc.run] # None /\ decision'[proc.run].state = proc.state
      BY <2>1, <3>1, DecisionsStay DEF EnforcesDecision
    <3>3. gate[proc.run] = proc.state => gate'[proc.run] = proc.state
      BY <3>1, GateStays
    <3> QED
      BY <1>3, <3>2, <3>3 DEF EnforcesDecision
  <2>2. CASE proc.pc \notin {"post", "complete", "advance"}
    BY <1>3, <2>2 DEF EnforcesDecision
  <2> QED
    BY <2>1, <2>2
<1>4. CASE Evaluate
  <2>1. ASSUME proc' = [proc EXCEPT !.pc = "reserve"]
        PROVE  EnforcesDecision'
    BY <1>a, <2>1 DEF EnforcesDecision, ProcOK
  <2> QED
    BY <1>2, <1>4, <2>1 DEF Evaluate
<1>5. CASE Reserve
  <2>1. ASSUME NEW r, proc' = [proc EXCEPT !.pc = "recheck", !.res = r]
        PROVE  EnforcesDecision'
    BY <1>a, <2>1 DEF EnforcesDecision, ProcOK
  <2> QED
    BY <1>2, <1>5, <2>1 DEF Reserve
<1>6. CASE Recheck
  <2>1. ASSUME proc' = [proc EXCEPT !.pc = "claim", !.state = "approved",
                                    !.reason = "VALID"]
        PROVE  EnforcesDecision'
    BY <1>a, <2>1 DEF EnforcesDecision, ProcOK
  <2> QED
    BY <1>2, <1>6, <2>1 DEF Recheck
<1>7. CASE ClaimDecision
  <2>1. proc.pc = "claim" /\ proc.run \in Active
    BY <1>7, <1>a DEF ClaimDecision, ProcOK
  <2>2. CASE proc' = NoProc
    BY <1>1, <2>2
  <2>3. CASE proc' = [proc EXCEPT !.pc = "post"] /\ proc' # NoProc
    <3>1. /\ proc'.pc = "post" /\ proc'.run = proc.run /\ proc'.state = proc.state
          /\ proc'.res = proc.res
      BY <1>a, <2>3 DEF ProcOK
    <3>2. decision'[proc.run] # None /\ decision'[proc.run].state = proc.state
      <4>1. CASE decision[proc.run] = None
        <5>1. decision'[proc.run] = [state |-> proc.state, reason |-> proc.reason,
                                     callback |-> "Pending"]
          BY <1>7, <1>b, <2>1, <4>1 DEF ClaimDecision
        <5>2. decision'[proc.run] \in DecisionRows
          BY <1>a, <2>1, <5>1 DEF ProcOK, DecisionRows
        <5> QED
          BY <5>1, <5>2, RowAssumption
      <4>2. CASE decision[proc.run] # None
        BY <1>7, <2>3, <4>2 DEF ClaimDecision
      <4> QED
        BY <4>1, <4>2
    <3> QED
      BY <2>1, <3>1, <3>2 DEF EnforcesDecision
  <2> QED
    BY <1>7, <2>2, <2>3 DEF ClaimDecision
<1>8. CASE PostDecision
  <2>1. PICK result \in {"accepted", "ambiguous", "definitive", "raised"} :
          /\ gate' \in GateAfter(proc.run, proc.state, result)
          /\ proc' = IF result = "raised" THEN NoProc
                     ELSE [proc EXCEPT !.pc = "complete", !.result = result]
    BY <1>8 DEF PostDecision
  <2>2. result = "accepted" => gate'[proc.run] = proc.state
    BY <2>1 DEF GateAfter
  <2>3. proc.pc = "post" /\ decision' = decision
    BY <1>8 DEF PostDecision, ledgerVars
  <2>4. CASE result = "raised"
    BY <1>1, <2>1, <2>4
  <2>5. CASE result # "raised"
    <3>1. /\ proc'.pc = "complete" /\ proc'.run = proc.run /\ proc'.state = proc.state
          /\ proc'.res = proc.res /\ proc'.result = result
      BY <1>a, <2>1, <2>5 DEF ProcOK
    <3> QED
      BY <2>2, <2>3, <3>1 DEF EnforcesDecision
  <2> QED
    BY <2>4, <2>5
<1>9. CASE CompleteDecision
  <2>1. proc.pc = "complete" /\ proc.run \in Active /\ gate' = gate
    BY <1>9, <1>a DEF CompleteDecision, ProcOK, githubVars
  <2>2. decision'[proc.run] # None /\ decision'[proc.run].state = proc.state
    BY <2>1, DecisionsStay DEF EnforcesDecision
  <2>3. CASE proc.res = None
    BY <1>1, <1>9, <2>3 DEF CompleteDecision
  <2>4. CASE proc.res # None
    <3>1. /\ proc'.pc = "advance" /\ proc'.run = proc.run /\ proc'.state = proc.state
          /\ proc'.res = proc.res /\ proc'.result = proc.result
      BY <1>9, <1>a, <2>4 DEF CompleteDecision, ProcOK
    <3> QED
      BY <2>1, <2>2, <2>4, <3>1 DEF EnforcesDecision
  <2> QED
    BY <2>3, <2>4
<1>10. CASE Crash \/ WorkerTakes \/ EnforceRaises \/ Advance
  BY <1>1, <1>10 DEF Crash, WorkerTakes, EnforceRaises, Advance
<1>11. CASE \/ Time \/ RegisterIntent \/ SweepExpires \/ SweepQuarantines \/ SweepSeals
            \/ SweepGivesUp
  BY <1>3, <1>11 DEF Time, RegisterIntent, SweepExpires, SweepQuarantines, SweepSeals,
                     SweepGivesUp, sweepElse, threadVars
<1>12. ASSUME NEW s \in Active, PollerTakes(s)
       PROVE  EnforcesDecision'
  BY <1>1, <1>12 DEF PollerTakes
<1>13. ASSUME NEW s \in Active,
              \/ DispatchRun(s) \/ AcceptDispatch(s) \/ StartRun(s) \/ CompleteRun(s)
              \/ Accept(s) \/ DeliveryFails(s) \/ SweepReads(s)
              \/ BootReads(s) \/ BootChecksRun(s) \/ BootConsumes(s) \/ BootFails(s)
       PROVE  proc' = proc
  BY <1>13 DEF DispatchRun, AcceptDispatch, StartRun, CompleteRun, Accept, DeliveryFails,
               SweepReads, BootReads, BootChecksRun, BootConsumes, BootFails, sweepElse,
               bootElse, threadVars
<1> QED
  BY <1>3, <1>4, <1>5, <1>6, <1>7, <1>8, <1>9, <1>10, <1>11, <1>12, <1>13
  DEF SvcNext, Enforce

-----------------------------------------------------------------------------
\* What one step may do to the row of a dispatched stage, seen from the
\* threads that make the registry's calls.
StageStep(s) ==
  \/ St(s)' = St(s) /\ bootstrapped'[Req][s] = bootstrapped[Req][s]
  \/ /\ proc.pc = "reserve" /\ proc.run = s
     /\ St(s) = "Available" /\ St(s)' = "Reserved"
     /\ PrerequisiteSatisfied(Req, s)
     /\ bootstrapped'[Req][s] = bootstrapped[Req][s]
  \/ /\ proc.pc = "recheck" /\ proc.run = s
     /\ St(s) = "Reserved" /\ St(s)' = "Rejected"
     /\ bootstrapped'[Req][s] = bootstrapped[Req][s]
  \/ /\ proc.pc = "advance" /\ proc.run = s
     /\ St(s)' = TargetOf(proc.result)
     /\ <<St(s), TargetOf(proc.result)>> \in AllowedStageTransitions
     /\ bootstrapped'[Req][s] = bootstrapped[Req][s]
  \/ /\ St(s) \in {"Reserved", "ApprovedPendingOutcome"}
     /\ St(s)' = "OutcomeOverdue"
     /\ bootstrapped'[Req][s] = bootstrapped[Req][s]
  \/ /\ sweep.pc = "read" /\ sweep.run = s /\ runStatus[s] = "completed"
     /\ St(s) = "OutcomeOverdue" /\ St(s)' = "CallbackUnknown"
     /\ bootstrapped'[Req][s] = bootstrapped[Req][s]
  \/ /\ sweep.pc = "seal" /\ sweep.run = s /\ verdict[s] # None
     /\ St(s) \in {"Reserved", "CallbackUnknown", "ApprovedPendingOutcome"}
     /\ St(s)' = VerdictOf(s)
     /\ NotOvertakingRollback(Req, s, VerdictOf(s))
     /\ bootstrapped'[Req][s] = bootstrapped[Req][s]
  \/ /\ St(s) = "ApprovedPendingOutcome" /\ St(s)' = St(s)

LEMMA StageSteps ==
  ASSUME TypeOK, SvcTypes, RunsOver, SvcNext
  PROVE  /\ \A s \in Active : StageStep(s)
         /\ \A s \in Stages : s \notin Active => St(s)' = St(s)
<1> DEFINE Goal == /\ \A s \in Active : StageStep(s)
                   /\ \A s \in Stages : s \notin Active => St(s)' = St(s)
<1> SUFFICES Goal
  OBVIOUS
<1>a. /\ Req \in Requests /\ Active \subseteq Stages
      /\ proc.pc # "idle" => proc.run \in Active
      /\ sweep.pc # "idle" => sweep.run \in Active
  BY ServiceAssumption DEF SvcTypes, ProcTypes, ProcOK, ThreadTypes
<1>b. ASSUME NEW s \in Stages, NEW to, stage' = [stage EXCEPT ![Req][s] = to]
      PROVE  St(s)' = to /\ \A t \in Stages : t # s => St(t)' = St(t)
  BY <1>a, <1>b DEF TypeOK, St
<1>1. ASSUME UNCHANGED <<stage, bootstrapped>>
      PROVE  Goal
  BY <1>1 DEF StageStep, St
<1>2. CASE Reserve
  <2>1. CASE ReserveStage(Req, proc.run, proc.run)
    <3>1. proc.pc = "reserve" /\ proc.run \in Active
      BY <1>2, <1>a DEF Reserve
    <3>2. /\ St(proc.run) = "Available" /\ PrerequisiteSatisfied(Req, proc.run)
          /\ stage' = [stage EXCEPT ![Req][proc.run] = "Reserved"]
          /\ bootstrapped' = bootstrapped
      BY <2>1 DEF ReserveStage, CanReserve, St
    <3> QED
      BY <1>a, <1>b, <3>1, <3>2 DEF StageStep
  <2>2. CASE UNCHANGED vars
    BY <1>1, <2>2 DEF vars
  <2> QED
    BY <1>2, <2>1, <2>2 DEF Reserve
<1>3. CASE Recheck
  <2>1. CASE TransitionStage(Req, proc.run, "Rejected")
    <3>1. proc.pc = "recheck" /\ proc.run \in Active
      BY <1>3, <1>a DEF Recheck
    <3>2. /\ St(proc.run) = "Reserved"
          /\ stage' = [stage EXCEPT ![Req][proc.run] = "Rejected"]
          /\ bootstrapped' = bootstrapped
      BY <2>1 DEF TransitionStage, AllowedStageTransitions, St
    <3> QED
      BY <1>a, <1>b, <3>1, <3>2 DEF StageStep
  <2>2. CASE UNCHANGED vars
    BY <1>1, <2>2 DEF vars
  <2> QED
    BY <1>3, <2>1, <2>2 DEF Recheck
<1>4. CASE Advance
  <2>1. CASE TransitionStage(Req, proc.run, TargetOf(proc.result))
    <3>1. proc.pc = "advance" /\ proc.run \in Active
      BY <1>4, <1>a DEF Advance
    <3>2. /\ <<St(proc.run), TargetOf(proc.result)>> \in AllowedStageTransitions
          /\ stage' = [stage EXCEPT ![Req][proc.run] = TargetOf(proc.result)]
          /\ bootstrapped' = bootstrapped
      BY <2>1 DEF TransitionStage, St
    <3> QED
      BY <1>a, <1>b, <3>1, <3>2 DEF StageStep
  <2>2. CASE UNCHANGED vars
    BY <1>1, <2>2 DEF vars
  <2> QED
    BY <1>4, <2>1, <2>2 DEF Advance
<1>5. CASE SweepExpires
  <2>1. \A s \in Stages : St(s)' = IF Overdue(Req, s) THEN "OutcomeOverdue" ELSE St(s)
    BY <1>5, <1>a DEF SweepExpires, ExpirePendingStages, St
  <2>2. bootstrapped' = bootstrapped
    BY <1>5 DEF SweepExpires, ExpirePendingStages
  <2>3. \A s \in Stages : s \notin Active => St(s)' = St(s)
    BY <2>1 DEF Overdue, RunsOver, St
  <2> QED
    BY <1>a, <2>1, <2>2, <2>3 DEF StageStep, Overdue, St
<1>6. CASE SweepQuarantines
  <2>1. CASE TransitionStage(Req, sweep.run, "CallbackUnknown")
    <3>1. sweep.pc = "read" /\ sweep.run \in Active /\ runStatus[sweep.run] = "completed"
      BY <1>6, <1>a DEF SweepQuarantines
    <3>2. /\ St(sweep.run) = "OutcomeOverdue"
          /\ stage' = [stage EXCEPT ![Req][sweep.run] = "CallbackUnknown"]
          /\ bootstrapped' = bootstrapped
      BY <2>1 DEF TransitionStage, AllowedStageTransitions, St
    <3> QED
      BY <1>a, <1>b, <3>1, <3>2 DEF StageStep
  <2>2. CASE UNCHANGED vars
    BY <1>1, <2>2 DEF vars
  <2> QED
    BY <1>6, <2>1, <2>2 DEF SweepQuarantines
<1>7. CASE SweepSeals
  <2>1. CASE /\ verdict[sweep.run] # None
             /\ RecordStageOutcome(Req, sweep.run, sweep.run, VerdictOf(sweep.run),
                                   started[sweep.run], sweep.at)
    <3>1. sweep.pc = "seal" /\ sweep.run \in Active
      BY <1>7, <1>a DEF SweepSeals
    <3>2. /\ St(sweep.run) \in {"Reserved", "CallbackUnknown", "ApprovedPendingOutcome"}
          /\ NotOvertakingRollback(Req, sweep.run, VerdictOf(sweep.run))
          /\ stage' = [stage EXCEPT ![Req][sweep.run] = VerdictOf(sweep.run)]
          /\ bootstrapped' = bootstrapped
      BY <2>1 DEF RecordStageOutcome, CanRecord, St
    <3> QED
      BY <1>a, <1>b, <2>1, <3>1, <3>2 DEF StageStep
  <2>2. CASE UNCHANGED vars
    BY <1>1, <2>2 DEF vars
  <2> QED
    BY <1>7, <2>1, <2>2 DEF SweepSeals
<1>8. ASSUME NEW s \in Active, BootConsumes(s)
      PROVE  Goal
  <2>1. /\ St(s) = "ApprovedPendingOutcome" /\ stage' = stage
        /\ \A t \in Active : t # s => bootstrapped'[Req][t] = bootstrapped[Req][t]
    BY <1>8, <1>a DEF BootConsumes, ConsumeBootstrap, St, TypeOK
  <2> QED
    BY <2>1 DEF StageStep, St
<1>9. CASE \/ Time \/ RegisterIntent \/ Crash \/ WorkerTakes \/ Evaluate \/ EnforceRaises
           \/ ClaimDecision \/ PostDecision \/ CompleteDecision \/ SweepGivesUp
  BY <1>1, <1>9 DEF Time, Tick, RegisterIntent, Register, FinalizeRef, Crash, WorkerTakes,
     Evaluate, EnforceRaises, ClaimDecision, PostDecision, CompleteDecision, SweepGivesUp, vars
<1>10. ASSUME NEW s \in Active,
              \/ DispatchRun(s) \/ AcceptDispatch(s) \/ StartRun(s) \/ CompleteRun(s)
              \/ Accept(s) \/ DeliveryFails(s) \/ PollerTakes(s) \/ SweepReads(s)
              \/ BootReads(s) \/ BootChecksRun(s) \/ BootFails(s)
       PROVE  UNCHANGED <<stage, bootstrapped>>
  BY <1>10 DEF DispatchRun, AcceptDispatch, StartRun, CompleteRun, Accept, DeliveryFails,
               PollerTakes, SweepReads, BootReads, BootChecksRun, BootFails, vars
<1>11. ASSUME NEW s \in Active,
              \/ DispatchRun(s) \/ AcceptDispatch(s) \/ StartRun(s) \/ CompleteRun(s)
              \/ Accept(s) \/ DeliveryFails(s) \/ PollerTakes(s) \/ SweepReads(s)
              \/ BootReads(s) \/ BootChecksRun(s) \/ BootConsumes(s) \/ BootFails(s)
       PROVE  Goal
  BY <1>1, <1>8, <1>10, <1>11
<1> HIDE DEF Goal
<1> QED
  BY <1>2, <1>3, <1>4, <1>5, <1>6, <1>7, <1>9, <1>11 DEF SvcNext, Enforce

\* What one step may do to a run.
RunStep(s) ==
  \/ runStatus'[s] = runStatus[s] /\ verdict'[s] = verdict[s]
  \/ /\ runStatus[s] = "none" /\ runStatus'[s] = "waiting"
     /\ verdict'[s] = verdict[s]
  \/ /\ gate[s] = "approved" /\ runStatus[s] = "waiting"
     /\ runStatus'[s] = "in_progress"
     /\ verdict'[s] = verdict[s]
  \/ /\ runStatus[s] \in {"waiting", "in_progress"} /\ runStatus'[s] = "completed"
     /\ runStatus[s] = "in_progress" \/ verdict'[s] = verdict[s]

LEMMA RunSteps ==
  ASSUME SvcTypes, SvcNext
  PROVE  \A s \in Active : RunStep(s)
<1>1. GithubTypes
  BY DEF SvcTypes
<1>2. ASSUME UNCHANGED <<runStatus, verdict>>
      PROVE  \A s \in Active : RunStep(s)
  BY <1>2 DEF RunStep
<1>3. ASSUME NEW s \in Active, DispatchRun(s) \/ StartRun(s) \/ CompleteRun(s)
      PROVE  \A t \in Active : RunStep(t)
  BY <1>1, <1>3 DEF DispatchRun, StartRun, CompleteRun, RunStep, GithubTypes
<1>4. CASE \/ Time \/ RegisterIntent \/ Crash \/ WorkerTakes \/ Enforce
           \/ SweepExpires \/ SweepQuarantines \/ SweepSeals \/ SweepGivesUp
  BY <1>2, <1>4
  DEF Time, RegisterIntent, Crash, WorkerTakes, Enforce, Evaluate, EnforceRaises, Reserve,
      Recheck, ClaimDecision, PostDecision, CompleteDecision, Advance, SweepExpires,
      SweepQuarantines, SweepSeals, SweepGivesUp, githubVars, sweepElse
<1>5. ASSUME NEW s \in Active,
             \/ AcceptDispatch(s) \/ Accept(s) \/ DeliveryFails(s) \/ PollerTakes(s)
             \/ SweepReads(s)
             \/ BootReads(s) \/ BootChecksRun(s) \/ BootConsumes(s) \/ BootFails(s)
      PROVE  UNCHANGED <<runStatus, verdict>>
  BY <1>5 DEF AcceptDispatch, Accept, DeliveryFails, PollerTakes, SweepReads, BootReads,
              BootChecksRun, BootConsumes, BootFails, githubVars, sweepElse, bootElse
<1> QED
  BY <1>2, <1>3, <1>4, <1>5 DEF SvcNext

LEMMA GateOpensStep ==
  ASSUME TypeOK, SvcTypes, EnforcesDecision, RunsOver, GateOpens, SvcNext
  PROVE  GateOpens'
<1> SUFFICES ASSUME NEW s \in Active
             PROVE  /\ runStatus'[s] = "in_progress" => gate'[s] = "approved"
                    /\ verdict'[s] # None => gate'[s] = "approved"
                    /\ Progressed(s)' => gate'[s] = "approved"
  BY DEF GateOpens
<1>1. gate[s] = "approved" => gate'[s] = "approved"
  BY GateStays
<1>2. /\ runStatus[s] = "in_progress" => gate[s] = "approved"
      /\ verdict[s] # None => gate[s] = "approved"
      /\ Progressed(s) => gate[s] = "approved"
  BY DEF GateOpens
<1>3. RunStep(s) /\ StageStep(s)
  BY RunSteps, StageSteps
<1>4. ASSUME proc.pc = "advance", proc.run = s, TargetOf(proc.result) = "ApprovedPendingOutcome"
      PROVE  gate[s] = "approved"
  BY <1>4 DEF EnforcesDecision, TargetOf
<1>5. TargetOf(proc.result) \notin SealedStates
  BY DEF TargetOf, SealedStates
<1>6. Progressed(s)' => Progressed(s) \/ gate[s] = "approved"
  BY <1>2, <1>3, <1>4, <1>5 DEF StageStep, Progressed, SealedStates
<1> QED
  BY <1>1, <1>2, <1>3, <1>6 DEF RunStep

LEMMA RunsOverStep ==
  ASSUME TypeOK, SvcTypes, RunsOver, SvcNext
  PROVE  RunsOver'
<1>1. \A s \in Active : RunStep(s) /\ StageStep(s)
  BY RunSteps, StageSteps
<1>2. \A s \in Stages : s \notin Active => St(s)' = "Available"
  BY StageSteps DEF RunsOver
<1>3. \A s \in Active : runStatus[s] = "completed" => runStatus'[s] = "completed"
  BY <1>1 DEF RunStep
<1>4. ASSUME NEW s \in Active, St(s)' \in {"CallbackUnknown"} \cup SealedStates
      PROVE  runStatus[s] = "completed"
  <2>1. St(s) \in {"CallbackUnknown"} \cup SealedStates => runStatus[s] = "completed"
    BY DEF RunsOver
  <2>2. TargetOf(proc.result) \notin {"CallbackUnknown"} \cup SealedStates
    BY DEF TargetOf, SealedStates
  <2> QED
    BY <1>1, <1>4, <2>1, <2>2 DEF StageStep, SealedStates, RunsOver
<1>5. ASSUME sweep'.pc = "seal"
      PROVE  runStatus'[sweep'.run] = "completed"
  <2>1. sweep.pc # "idle" => sweep.run \in Active
    BY DEF SvcTypes, ThreadTypes
  <2>2. CASE sweep' = sweep
    BY <1>3, <1>5, <2>1, <2>2 DEF RunsOver
  <2>3. CASE SweepQuarantines
    <3>1. sweep.pc = "read" /\ runStatus[sweep.run] = "completed" /\ sweep'.run = sweep.run
      BY <2>3 DEF SweepQuarantines, SvcTypes, ThreadTypes
    <3> QED
      BY <1>3, <2>1, <3>1
  <2>4. CASE SweepSeals \/ SweepGivesUp \/ Crash
    BY <1>5, <2>4 DEF SweepSeals, SweepGivesUp, Crash, NoSweep
  <2>5. ASSUME NEW s \in Active, SweepReads(s)
        PROVE  FALSE
    BY <1>5, <2>5 DEF SweepReads
  <2>6. CASE Time \/ RegisterIntent \/ WorkerTakes \/ Enforce \/ SweepExpires
    BY <2>2, <2>6
    DEF Time, RegisterIntent, WorkerTakes, Enforce, Evaluate, EnforceRaises, Reserve, Recheck,
        ClaimDecision, PostDecision, CompleteDecision, Advance, SweepExpires, threadVars,
        enforceElse
  <2>7. ASSUME NEW s \in Active,
               \/ DispatchRun(s) \/ AcceptDispatch(s) \/ StartRun(s) \/ CompleteRun(s)
               \/ Accept(s) \/ DeliveryFails(s) \/ PollerTakes(s)
               \/ BootReads(s) \/ BootChecksRun(s) \/ BootConsumes(s) \/ BootFails(s)
        PROVE  sweep' = sweep
    BY <2>7 DEF DispatchRun, AcceptDispatch, StartRun, CompleteRun, Accept, DeliveryFails,
                PollerTakes, BootReads, BootChecksRun, BootConsumes, BootFails, threadVars,
                enforceElse, bootElse
  <2> QED
    BY <2>2, <2>3, <2>4, <2>5, <2>6, <2>7 DEF SvcNext
<1> QED
  BY <1>2, <1>3, <1>4, <1>5 DEF RunsOver

\* What one step may do to an enforcement of the apply whose run is over.
LEMMA ApplyNeverRevived ==
  ASSUME SvcTypes, SvcNext, "apply" \in Active, runStatus["apply"] = "completed",
         proc.pc # "idle" /\ proc.run = "apply" =>
           proc.res = None /\ proc.pc \in {"evaluate", "claim", "post", "complete"}
  PROVE  proc'.pc # "idle" /\ proc'.run = "apply" =>
           proc'.res = None /\ proc'.pc \in {"evaluate", "claim", "post", "complete"}
<1> DEFINE Ends(p) == p.pc # "idle" /\ p.run = "apply" =>
                        p.res = None /\ p.pc \in {"evaluate", "claim", "post", "complete"}
<1> SUFFICES Ends(proc')
  OBVIOUS
<1>a. ProcOK(proc) /\ Ends(proc)
  BY DEF SvcTypes, ProcTypes
<1>1. NoProc.pc = "idle" /\ \A s : Begin(s).pc = "evaluate" /\ Begin(s).res = None
  BY DEF NoProc, Begin
<1>2. ASSUME proc' = NoProc \/ \E s : proc' = Begin(s)
      PROVE  Ends(proc')
  BY <1>1, <1>2
<1>3. ASSUME NEW code, ToReject(code)
      PROVE  Ends(proc')
  BY <1>3, <1>a DEF ToReject, ProcOK
<1>5. CASE Evaluate
  <2>1. ASSUME EvaluationPasses(proc.run) PROVE proc.run # "apply"
    BY <2>1 DEF EvaluationPasses
  <2>2. ASSUME proc' = [proc EXCEPT !.pc = "reserve"], EvaluationPasses(proc.run)
        PROVE  Ends(proc')
    BY <1>a, <2>1, <2>2 DEF ProcOK
  <2> QED
    BY <1>3, <1>5, <2>2 DEF Evaluate
<1>6. CASE Reserve
  <2>1. proc.run # "apply"
    BY <1>6, <1>a DEF Reserve
  <2>2. ASSUME NEW r, proc' = [proc EXCEPT !.pc = "recheck", !.res = r]
        PROVE  Ends(proc')
    BY <1>a, <2>1, <2>2 DEF ProcOK
  <2> QED
    BY <1>3, <1>6, <2>2 DEF Reserve
<1>7. CASE Recheck
  <2>1. proc.run # "apply"
    BY <1>7, <1>a DEF Recheck
  <2>2. ASSUME proc' = [proc EXCEPT !.pc = "claim", !.state = "approved",
                                    !.reason = "VALID"]
        PROVE  Ends(proc')
    BY <1>a, <2>1, <2>2 DEF ProcOK
  <2> QED
    BY <1>3, <1>7, <2>2 DEF Recheck
<1>8. CASE ClaimDecision
  <2>1. ASSUME proc' = [proc EXCEPT !.pc = "post"]
        PROVE  Ends(proc')
    BY <1>8, <1>a, <2>1 DEF ClaimDecision, ProcOK
  <2> QED
    BY <1>2, <1>8, <2>1 DEF ClaimDecision
<1>9. CASE PostDecision
  <2>1. ASSUME NEW result, proc' = [proc EXCEPT !.pc = "complete", !.result = result]
        PROVE  Ends(proc')
    BY <1>9, <1>a, <2>1 DEF PostDecision, ProcOK
  <2> QED
    BY <1>2, <1>9, <2>1 DEF PostDecision
<1>10. CASE CompleteDecision
  <2>1. ASSUME proc.res # None, proc' = [proc EXCEPT !.pc = "advance"]
        PROVE  Ends(proc')
    BY <1>10, <1>a, <2>1 DEF CompleteDecision, ProcOK
  <2> QED
    BY <1>2, <1>10, <2>1 DEF CompleteDecision
<1>11. CASE Crash \/ WorkerTakes \/ EnforceRaises \/ Advance
  BY <1>2, <1>11 DEF Crash, WorkerTakes, EnforceRaises, Advance
<1>12. ASSUME NEW s \in Active, PollerTakes(s)
       PROVE  Ends(proc')
  BY <1>2, <1>12 DEF PollerTakes
<1>13. CASE \/ Time \/ RegisterIntent \/ SweepExpires \/ SweepQuarantines \/ SweepSeals
            \/ SweepGivesUp
  BY <1>a, <1>13 DEF Time, RegisterIntent, SweepExpires, SweepQuarantines, SweepSeals,
                     SweepGivesUp, sweepElse, threadVars
<1>14. ASSUME NEW s \in Active,
              \/ DispatchRun(s) \/ AcceptDispatch(s) \/ StartRun(s) \/ CompleteRun(s)
              \/ Accept(s) \/ DeliveryFails(s) \/ SweepReads(s)
              \/ BootReads(s) \/ BootChecksRun(s) \/ BootConsumes(s) \/ BootFails(s)
       PROVE  proc' = proc
  BY <1>14 DEF DispatchRun, AcceptDispatch, StartRun, CompleteRun, Accept, DeliveryFails,
               SweepReads, BootReads, BootChecksRun, BootConsumes, BootFails, sweepElse,
               bootElse, threadVars
<1>15. ASSUME proc' = proc PROVE Ends(proc')
  BY <1>a, <1>15
<1> HIDE DEF Ends
<1> QED
  BY <1>5, <1>6, <1>7, <1>8, <1>9, <1>10, <1>11, <1>12, <1>13, <1>14, <1>15
  DEF SvcNext, Enforce

\* A rollback is bound by the enforcement of its own run only.
LEMMA RollbackBound ==
  ASSUME TypeOK, SvcTypes, SvcNext,
         claim[Req]["compensating-rollback"] = None,
         claim'[Req]["compensating-rollback"] # None
  PROVE  /\ PrerequisiteSatisfied(Req, "compensating-rollback")
         /\ St("apply")' = St("apply")
         /\ proc'.run = "compensating-rollback"
<1>1. Reserve /\ ReserveStage(Req, proc.run, proc.run)
  <2>1. CASE Reserve
    BY <2>1 DEF Reserve, vars
  <2>2. CASE \/ Time \/ RegisterIntent \/ Crash \/ WorkerTakes \/ Evaluate \/ EnforceRaises
             \/ ClaimDecision \/ PostDecision \/ CompleteDecision \/ SweepGivesUp
             \/ SweepExpires
    BY <2>2 DEF Time, Tick, RegisterIntent, Register, FinalizeRef, Crash, WorkerTakes,
       Evaluate, EnforceRaises, ClaimDecision, PostDecision, CompleteDecision, SweepGivesUp,
       SweepExpires, ExpirePendingStages, vars
  <2>3. CASE Recheck \/ Advance \/ SweepQuarantines \/ SweepSeals
    BY <2>3 DEF Recheck, Advance, SweepQuarantines, SweepSeals, TransitionStage,
                RecordStageOutcome, vars
  <2>4. ASSUME NEW s \in Active,
               \/ DispatchRun(s) \/ AcceptDispatch(s) \/ StartRun(s) \/ CompleteRun(s)
               \/ Accept(s) \/ DeliveryFails(s) \/ PollerTakes(s) \/ SweepReads(s)
               \/ BootReads(s) \/ BootChecksRun(s) \/ BootConsumes(s) \/ BootFails(s)
        PROVE  claim' = claim
    BY <2>4 DEF DispatchRun, AcceptDispatch, StartRun, CompleteRun, Accept, DeliveryFails,
                PollerTakes, SweepReads, BootReads, BootChecksRun, BootConsumes, BootFails,
                ConsumeBootstrap, vars
  <2> QED
    BY <2>1, <2>2, <2>3, <2>4 DEF SvcNext, Enforce
<1>2. proc.run \in Active /\ Req \in Requests /\ Active \subseteq Stages
  BY <1>1, ServiceAssumption DEF Reserve, SvcTypes, ProcTypes, ProcOK
<1>3. proc.run = "compensating-rollback"
  BY <1>1, <1>2 DEF ReserveStage, TypeOK, Stages
<1>4. St("apply")' = St("apply")
  BY <1>1, <1>2, <1>3 DEF ReserveStage, TypeOK, Stages, St
<1>5. proc'.run = proc.run
  BY <1>1 DEF Reserve, ToReject, SvcTypes, ProcTypes, ProcOK
<1> QED
  BY <1>1, <1>3, <1>4, <1>5 DEF ReserveStage, CanReserve

LEMMA RollbackAloneStep ==
  ASSUME Inv, SvcTypes, RunsOver, RollbackAlone, SvcNext
  PROVE  RollbackAlone'
<1>1. TypeOK
  BY DEF Inv
<1>2. CASE claim[Req]["compensating-rollback"] # None
  <2>1. /\ St("apply") \in {"CallbackUnknown", "Failed"}
        /\ proc.pc # "idle" /\ proc.run = "apply" =>
             proc.res = None /\ proc.pc \in {"evaluate", "claim", "post", "complete"}
    BY <1>2 DEF RollbackAlone
  <2>2. "apply" \in Active /\ runStatus["apply"] = "completed"
    BY <2>1 DEF RunsOver, Stages, SealedStates
  <2>3. stage[Req]["compensating-rollback"] # "Available"
    BY <1>2, ServiceAssumption DEF Inv, GrantBoundOnce, Stages
  <2>4. VerdictOf("apply") \in {"Failed", "Succeeded"}
    BY DEF VerdictOf
  <2>5. StageStep("apply")
    BY <1>1, <2>2, StageSteps
  <2>6. St("apply")' \in {"CallbackUnknown", "Failed"}
    BY <2>1, <2>2, <2>3, <2>4, <2>5 DEF StageStep, NotOvertakingRollback
  <2>7. proc'.pc # "idle" /\ proc'.run = "apply" =>
          proc'.res = None /\ proc'.pc \in {"evaluate", "claim", "post", "complete"}
    BY <2>1, <2>2, ApplyNeverRevived
  <2> QED
    BY <2>6, <2>7 DEF RollbackAlone
<1>3. CASE /\ claim[Req]["compensating-rollback"] = None
           /\ claim'[Req]["compensating-rollback"] # None
  <2>1. St("apply") \in {"CallbackUnknown", "Failed"}
    BY <1>1, <1>3, RollbackBound DEF PrerequisiteSatisfied, St
  <2> QED
    BY <1>1, <1>3, <2>1, RollbackBound DEF RollbackAlone
<1> QED
  BY <1>2, <1>3 DEF RollbackAlone

LEMMA SvcInvStep ==
  ASSUME SvcInv, [SvcNext]_svcVars
  PROVE  SvcInv' /\ [Next]_vars
<1> USE DEF SvcInv
<1>1. CASE SvcNext
  <2>1. TypeOK
    BY DEF Inv
  <2>2. [Next]_vars
    BY <1>1, <2>1, RegistryStep
  <2>3. Inv'
    BY <2>2, InvStep
  <2>4. SvcTypes'
    BY <1>1, <2>1, ProcTypesStep, GithubTypesStep, ThreadTypesStep DEF SvcTypes
  <2>5. DecisionFirst' /\ EnforcesDecision' /\ GateOpens' /\ RunsOver'
    BY <1>1, <2>1, DecisionFirstStep, EnforcesDecisionStep, GateOpensStep, RunsOverStep
  <2>6. RollbackAlone'
    BY <1>1, RollbackAloneStep
  <2> QED
    BY <2>2, <2>3, <2>4, <2>5, <2>6
<1>2. CASE UNCHANGED svcVars
  <2>1. UNCHANGED vars /\ Inv'
    BY <1>2, InvStep DEF svcVars
  <2>2. SvcTypes'
    BY <1>2 DEF SvcTypes, GithubTypes, ProcTypes, ProcOK, ThreadTypes, svcVars, vars,
                githubVars, ledgerVars, threadVars
  <2>3. DecisionFirst' /\ EnforcesDecision' /\ GateOpens' /\ RunsOver' /\ RollbackAlone'
    BY <1>2 DEF DecisionFirst, EnforcesDecision, GateOpens, RunsOver, RollbackAlone,
                Progressed, St, svcVars, vars, githubVars, ledgerVars, threadVars
  <2> QED
    BY <2>1, <2>2, <2>3
<1> QED
  BY <1>1, <1>2

-----------------------------------------------------------------------------
\* The inductive invariant of the service with its threads, its ledger and
\* GitHub around the registry.
THEOREM SvcInvariant == SvcSpec => []SvcInv
<1>1. QED
  BY SvcInitInv, SvcInvStep, PTL DEF SvcSpec

\* Every call the handlers, the worker, the poller, the sweeper and the
\* bootstrap endpoint make is a call StageRegistry allows: all that is proved
\* of the registry holds of the service.
THEOREM ServiceRefinesRegistry == SvcSpec => ImplementsRegistry
<1>1. SvcInit => Init
  BY DEF SvcInit
<1>2. QED
  BY <1>1, SvcInvStep, SvcInvariant, PTL DEF SvcSpec, ImplementsRegistry, Spec

\* claim_decision writes one decision per run before the first POST; neither
\* a crash nor a second delivery can send the other one, and no stage moves
\* past a gate that is not open.
THEOREM DecisionGatesProgress == SvcSpec => []OneDecisionGatesProgress
<1>1. SvcInv => OneDecisionGatesProgress
  <2> SUFFICES ASSUME SvcInv, NEW s \in Active
               PROVE  /\ posted[s] # {"approved", "rejected"}
                      /\ gate[s] # "none" => decision[s] # None /\ decision[s].state = gate[s]
                      /\ Progressed(s) => gate[s] = "approved"
    BY DEF OneDecisionGatesProgress, Progressed
  <2>1. posted[s] # {"approved", "rejected"}
    BY DEF SvcInv, DecisionFirst
  <2>2. gate[s] # "none" => decision[s] # None /\ decision[s].state = gate[s]
    BY DEF SvcInv, DecisionFirst
  <2>3. Progressed(s) => gate[s] = "approved"
    BY DEF SvcInv, GateOpens
  <2> QED
    BY <2>1, <2>2, <2>3
<1>2. QED
  BY <1>1, SvcInvariant, PTL

\* reserve_stage binds the rollback of an apply whose run is over, and no late
\* callback, sweep or repeated delivery takes that apply elsewhere.
THEOREM NoConcurrentWriters == SvcSpec => []RollbackAfterApplyRun
<1>1. SvcInv => RollbackAfterApplyRun
  BY DEF SvcInv, RunsOver, RollbackAlone, RollbackAfterApplyRun, Stages, SealedStates
<1>2. QED
  BY <1>1, SvcInvariant, PTL

\* Whatever the service does, a late success never overtakes a rollback it has
\* bound: NoSuccessBesideRollback carries over.
THEOREM ServiceKeepsRegistry == SvcSpec => []RollbackExcludesSuccess
<1>1. QED
  BY ServiceRefinesRegistry, NoSuccessBesideRollback, PTL DEF ImplementsRegistry
=============================================================================
