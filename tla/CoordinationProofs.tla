------------------------ MODULE CoordinationProofs ------------------------
(***************************************************************************)
(* The coordination ledger: its claims and its write path.                 *)
(*                                                                         *)
(* ClaimLedger: the claims of an issue for any number of sessions and      *)
(* planners and any windows.  OustedStaysOut and ReplaysAgree follow the   *)
(* two folds event by event.  PlansStayCurrent needs the compare-and-swap: *)
(* what a planner read is still true as long as no event was appended, and *)
(* time alone makes no stale claim fresh.                                  *)
(*                                                                         *)
(* LedgerAppend: the ledger branch implements the append-only log, and     *)
(* nothing is written off unrecorded, for any number of retries,           *)
(* operators, intents and crashes and any queue limit, tolerance and       *)
(* clock.  The lease is what makes it work: a candidate was validated      *)
(* against the prefix its writer fetched, and a push goes through only     *)
(* while that prefix is still the branch, so the validation still stands.  *)
(***************************************************************************)
EXTENDS ClaimLedger, LedgerAppend, TLAPS

---------------------------------------------------------------------------
(* The claims of an issue. *)

EventTypes == {"CLAIM_ACCEPTED", "HEARTBEAT_EVIDENCE"} \cup RevokeTypes \cup RetireTypes
              \cup AuditTypes \cup TakeoverTypes
LedgerEvents == [type : EventTypes, session : SessionOrNone, old : SessionOrNone,
                 new : SessionOrNone]
Plans == [expect : Nat, ev : LedgerEvents, ready : BOOLEAN]
States == [perm : {"no_claim", "active_winner", "revoked", "takeover_pending", "retired"},
           active : SessionOrNone, expires : Nat, heartbeat : Nat,
           source : {"none", "claim", "takeover"}]
ClaimRows == [accepted : BOOLEAN, at : Nat, expires : Nat, heartbeat : Nat,
              revoked : BOOLEAN, pos : Nat]

\* A claim, a heartbeat and a reaped claim name their session, a takeover its two sessions.
WellFormed(e) ==
  /\ e \in LedgerEvents
  /\ e.type \in {"CLAIM_ACCEPTED", "HEARTBEAT_EVIDENCE", "CLAIM_STALE", "CLAIM_EXPIRED"} =>
       e.session \in Sessions
  /\ e.type \in TakeoverTypes =>
       e.session = NoSession /\ e.old \in Sessions /\ e.new \in Sessions

ClaimTypes ==
  /\ ver \in Nat /\ clock \in Nat
  /\ cur \in States
  /\ claims \in [Sessions -> ClaimRows]
  /\ plan \in [Planners -> Plans]
  /\ takeover \in [Sessions \X Sessions -> TakeoverTypes \cup {"none"}]
  /\ ousted \subseteq Sessions
  /\ \A p \in Planners : plan[p].ready => WellFormed(plan[p].ev)

\* The winner of the replay is nobody who was ousted.
WinnerNotOusted == cur.perm = "active_winner" => cur.active \notin ousted

\* What a planner read holds until the next event is appended.
PlansDue ==
  \A p \in Planners :
    /\ plan[p].expect <= ver
    /\ plan[p].ready /\ plan[p].expect = ver => StillDue(plan[p].ev)

ClaimInv == ClaimTypes /\ WinnerNotOusted /\ ReplaysAgree /\ PlansDue

-----------------------------------------------------------------------------
LEMMA NoPlanTyped == NoPlan \in Plans /\ ~NoPlan.ready /\ NoPlan.expect = 0
  BY DEF NoPlan, Plans, LedgerEvents, EventTypes, AuditTypes, Event, SessionOrNone

LEMMA ClaimInit == Init => ClaimInv
<1> SUFFICES ASSUME Init PROVE ClaimInv
  OBVIOUS
<1>1. plan \in [Planners -> Plans] /\ \A p \in Planners : ~plan[p].ready /\ plan[p].expect = 0
  BY NoPlanTyped DEF Init
<1>2. ClaimTypes
  BY <1>1 DEF Init, ClaimTypes, States, ClaimRows, NoClaim, SessionOrNone
<1>3. WinnerNotOusted /\ ReplaysAgree
  BY DEF Init, WinnerNotOusted, ReplaysAgree
<1>4. PlansDue
  BY <1>1 DEF Init, PlansDue
<1> QED
  BY <1>2, <1>3, <1>4 DEF ClaimInv

\* Time alone settles no plan.
LEMMA TickKeepsInv ==
  ASSUME ClaimInv, Tick
  PROVE  ClaimInv'
<1>1. ClaimTypes'
  BY DEF ClaimInv, ClaimTypes, Tick
<1>2. WinnerNotOusted' /\ ReplaysAgree'
  BY DEF ClaimInv, WinnerNotOusted, ReplaysAgree, Tick
<1>3. ASSUME NEW p \in Planners, StillDue(plan[p].ev), plan[p].ready
      PROVE  StillDue(plan[p].ev)'
  <2>1. WellFormed(plan[p].ev) /\ plan' = plan
    BY <1>3 DEF ClaimInv, ClaimTypes, Tick
  <2>2. \A s \in Sessions : claims[s] \in ClaimRows
    BY DEF ClaimInv, ClaimTypes
  <2>3. \A s : (ClaimExpired(s) /\ claims[s] \in ClaimRows) => ClaimExpired(s)'
    BY DEF ClaimExpired, Tick, ClaimRows, ClaimInv, ClaimTypes
  <2>4. \A s : (ClaimStale(s) /\ claims[s] \in ClaimRows) => ClaimStale(s)' \/ ClaimExpired(s)'
    BY ClaimConstants DEF ClaimStale, ClaimExpired, Tick, ClaimRows, ClaimInv, ClaimTypes
  <2>5. plan[p].ev.type \in {"CLAIM_STALE", "CLAIM_EXPIRED"} => plan[p].ev.session \in Sessions
    BY <2>1 DEF WellFormed
  <2>6. \A o, n : (MayAccept(o, n) <=> MayAccept(o, n)') /\ (MayCommit(o, n) <=> MayCommit(o, n)')
    BY DEF MayAccept, MayCommit, Tick
  <2> QED
    BY <1>3, <2>1, <2>2, <2>3, <2>4, <2>5, <2>6 DEF StillDue
<1>4. PlansDue'
  BY <1>3 DEF ClaimInv, PlansDue, Tick
<1> QED
  BY <1>1, <1>2, <1>4 DEF ClaimInv

\* A plan is well formed and made from what the planner reads.
LEMMA PlanningIsDue ==
  ASSUME NEW p \in Planners, Planning(p)
  PROVE  \E ev : WellFormed(ev) /\ StillDue(ev) /\ PlanEvent(p, ev)
<1> USE DEF WellFormed, LedgerEvents, EventTypes, SessionOrNone, Event, TakeoverEvent,
            StillDue, RevokeTypes, RetireTypes, AuditTypes, TakeoverTypes
<1>1. CASE PlanByHand(p)
  BY <1>1 DEF PlanByHand
<1>2. CASE PlanAccept(p)
  BY <1>2 DEF PlanAccept
<1>3. CASE PlanCommit(p)
  BY <1>3 DEF PlanCommit
<1>4. CASE PlanRecovery(p)
  BY <1>4 DEF PlanRecovery
<1>5. CASE PlanRetire(p)
  BY <1>5 DEF PlanRetire
<1>6. CASE Reap(p)
  BY <1>6 DEF Reap
<1> QED
  BY <1>1, <1>2, <1>3, <1>4, <1>5, <1>6 DEF Planning

LEMMA PlanningKeepsInv ==
  ASSUME ClaimInv, NEW p \in Planners, Planning(p)
  PROVE  ClaimInv'
<1>1. PICK ev : WellFormed(ev) /\ StillDue(ev) /\ PlanEvent(p, ev)
  BY PlanningIsDue
<1>2. PICK r : r = [expect |-> ver, ev |-> ev, ready |-> TRUE] /\ plan' = [plan EXCEPT ![p] = r]
  BY <1>1 DEF PlanEvent
<1>3. r \in Plans
  BY <1>1, <1>2 DEF Plans, WellFormed, ClaimInv, ClaimTypes
<1>4. UNCHANGED <<ver, cur, claims, takeover, mirror, applier, ousted, clock>>
  BY <1>1 DEF PlanEvent
<1>5. ClaimTypes'
  BY <1>1, <1>2, <1>3, <1>4 DEF ClaimInv, ClaimTypes
<1>6. WinnerNotOusted' /\ ReplaysAgree'
  BY <1>4 DEF ClaimInv, WinnerNotOusted, ReplaysAgree
<1>7. PlansDue'
  <2>1. \A e : StillDue(e) => StillDue(e)'
    BY <1>4 DEF StillDue, ClaimStale, ClaimExpired, MayAccept, MayCommit
  <2>2. ASSUME NEW q \in Planners
        PROVE  /\ plan'[q].expect <= ver'
               /\ plan'[q].ready /\ plan'[q].expect = ver' => StillDue(plan[q].ev)'
    <3>1. CASE q = p
      <4>1. plan'[q] = r /\ r.ev = ev /\ r.expect = ver /\ ver \in Nat
        BY <1>2, <3>1 DEF ClaimInv, ClaimTypes
      <4> QED
        BY <1>1, <1>4, <2>1, <4>1
    <3>2. CASE q # p
      <4>1. plan'[q] = plan[q]
        BY <1>2, <3>2 DEF ClaimInv, ClaimTypes
      <4> QED
        BY <1>4, <2>1, <4>1 DEF ClaimInv, PlansDue
    <3> QED
      BY <3>1, <3>2
  <2> QED
    BY <2>2 DEF PlansDue
<1> QED
  BY <1>5, <1>6, <1>7 DEF ClaimInv

LEMMA RefusedKeepsInv ==
  ASSUME ClaimInv, NEW p \in Planners, EmitRefused(p)
  PROVE  ClaimInv'
<1>1. plan' = [plan EXCEPT ![p] = NoPlan]
      /\ UNCHANGED <<ver, cur, claims, takeover, mirror, applier, ousted, clock>>
  BY DEF EmitRefused
<1>2. ClaimTypes'
  BY <1>1, NoPlanTyped DEF ClaimInv, ClaimTypes
<1>3. WinnerNotOusted' /\ ReplaysAgree'
  BY <1>1 DEF ClaimInv, WinnerNotOusted, ReplaysAgree
<1>4. \A e : StillDue(e) => StillDue(e)'
  BY <1>1 DEF StillDue, ClaimStale, ClaimExpired, MayAccept, MayCommit
<1>5. PlansDue'
  BY <1>1, <1>4, NoPlanTyped DEF ClaimInv, ClaimTypes, PlansDue
<1> QED
  BY <1>2, <1>3, <1>5 DEF ClaimInv

\* The mirrors are no part of the replay.
LEMMA MirrorKeepsInv ==
  ASSUME ClaimInv, UNCHANGED <<ver, cur, claims, takeover, plan, ousted, clock>>
  PROVE  ClaimInv'
<1>1. ClaimTypes' /\ WinnerNotOusted' /\ ReplaysAgree'
  BY DEF ClaimInv, ClaimTypes, WinnerNotOusted, ReplaysAgree
<1>2. \A e : StillDue(e) => StillDue(e)'
  BY DEF StillDue, ClaimStale, ClaimExpired, MayAccept, MayCommit
<1> QED
  BY <1>1, <1>2 DEF ClaimInv, PlansDue

-----------------------------------------------------------------------------
(* The folds                                                               *)

LEMMA IssueStateTyped ==
  ASSUME NEW st \in States, NEW e, WellFormed(e), NEW at \in Nat
  PROVE  IssueState(st, e, at) \in States
<1>1. OnClaim(st, e, at) \in States \/ e.type # "CLAIM_ACCEPTED"
  BY ClaimConstants DEF OnClaim, States, WellFormed, LedgerEvents
<1>2. OnHeartbeat(st, e, at) \in States /\ OnRevoke(st, e) \in States
      /\ OnTakeoverAccepted(st, e) \in States /\ OnRetire(st) \in States
  BY DEF OnHeartbeat, OnRevoke, OnTakeoverAccepted, OnRetire, States, SessionOrNone
<1>3. e.type = "TAKEOVER_COMMITTED" => OnTakeoverCommitted(st, e, at) \in States
  <2>1. NoExpiry \in Nat /\ e.new \in SessionOrNone
    BY ClaimConstants DEF NoExpiry, WellFormed, LedgerEvents
  <2> QED
    BY <2>1 DEF OnTakeoverCommitted, States
<1> QED
  BY <1>1, <1>2, <1>3 DEF IssueState

LEMMA DeriveClaimTyped ==
  ASSUME NEW c \in ClaimRows, NEW e, NEW at \in Nat, NEW n \in Nat
  PROVE  DeriveClaim(c, e, at, n) \in ClaimRows
<1>1. BuildClaim(c, at, n) \in ClaimRows
  BY ClaimConstants DEF BuildClaim, ClaimRows
<1>2. [c EXCEPT !.heartbeat = at] \in ClaimRows /\ [c EXCEPT !.revoked = TRUE] \in ClaimRows
  BY DEF ClaimRows
<1> QED
  BY <1>1, <1>2 DEF DeriveClaim

LEMMA EmitKeepsTypes ==
  ASSUME ClaimInv, NEW p \in Planners, Emit(p)
  PROVE  ClaimTypes'
<1>1. PICK e : e = plan[p].ev /\ WellFormed(e)
  BY DEF ClaimInv, ClaimTypes, Emit
<1>2. ver' \in Nat /\ clock' \in Nat
  BY DEF Emit, ClaimInv, ClaimTypes
<1>3. cur' \in States
  BY <1>1, IssueStateTyped DEF Emit, ClaimInv, ClaimTypes
<1>4. claims' \in [Sessions -> ClaimRows]
  <2>1. \A s \in Sessions : DeriveClaim(claims[s], e, clock, ver + 1) \in ClaimRows
    BY DeriveClaimTyped DEF ClaimInv, ClaimTypes
  <2> QED
    BY <1>1, <2>1 DEF Emit, ClaimInv, ClaimTypes
<1>5. takeover' \in [Sessions \X Sessions -> TakeoverTypes \cup {"none"}]
  <2>1. takeover' = IF e.type \in TakeoverTypes
                    THEN [takeover EXCEPT ![<<e.old, e.new>>] = e.type] ELSE takeover
    BY <1>1 DEF Emit
  <2> QED
    BY <2>1 DEF ClaimInv, ClaimTypes
<1>6. ousted' \subseteq Sessions
  <2>1. ousted \subseteq Sessions /\ e.session \in SessionOrNone
        /\ (e.type = "TAKEOVER_ACCEPTED" => e.old \in Sessions /\ e.new \in Sessions)
    BY <1>1 DEF ClaimInv, ClaimTypes, WellFormed, LedgerEvents, TakeoverTypes
  <2> QED
    BY <1>1, <2>1 DEF Emit, SessionOrNone
<1>7. plan' \in [Planners -> Plans] /\ \A q \in Planners : plan'[q].ready => WellFormed(plan'[q].ev)
  BY NoPlanTyped DEF Emit, ClaimInv, ClaimTypes
<1> QED
  BY <1>2, <1>3, <1>4, <1>5, <1>6, <1>7 DEF ClaimTypes

LEMMA EmitKeepsWinner ==
  ASSUME ClaimInv, NEW p \in Planners, Emit(p)
  PROVE  WinnerNotOusted'
<1>1. PICK e : e = plan[p].ev /\ WellFormed(e)
  BY DEF ClaimInv, ClaimTypes, Emit
<1>2. cur \in States /\ ousted \subseteq Sessions
      /\ (cur.perm = "active_winner" => cur.active \notin ousted)
  BY DEF ClaimInv, ClaimTypes, WinnerNotOusted
<1>3. e.session \in SessionOrNone /\ e.type \in EventTypes
  BY <1>1 DEF WellFormed, LedgerEvents
<1>4. CASE e.type = "CLAIM_ACCEPTED"
  <2>1. cur' = OnClaim(cur, e, clock) /\ ousted' = ousted \ {e.session}
    BY <1>1, <1>4 DEF Emit, IssueState
  <2> QED
    BY <2>1 DEF WinnerNotOusted, OnClaim
<1>5. CASE e.type = "HEARTBEAT_EVIDENCE"
  <2>1. cur' = OnHeartbeat(cur, e, clock) /\ ousted' = ousted
    BY <1>1, <1>5 DEF Emit, IssueState, RevokeTypes, RetireTypes
  <2> QED
    BY <1>2, <2>1 DEF WinnerNotOusted, OnHeartbeat, States
<1>6. CASE e.type \in RevokeTypes
  <2>1. cur' = OnRevoke(cur, e)
        /\ ousted' = ousted \cup (IF e.session = NoSession THEN Sessions ELSE {e.session})
    BY <1>1, <1>6 DEF Emit, IssueState, RevokeTypes
  <2> QED
    BY <1>2, <2>1 DEF WinnerNotOusted, OnRevoke, States
<1>7. CASE e.type = "TAKEOVER_ACCEPTED"
  <2>1. cur' = OnTakeoverAccepted(cur, e) /\ ousted' = ousted \cup {e.old, e.new}
    BY <1>1, <1>7 DEF Emit, IssueState, RevokeTypes
  <2> QED
    BY <1>2, <2>1 DEF WinnerNotOusted, OnTakeoverAccepted, States
<1>8. CASE e.type = "TAKEOVER_COMMITTED"
  <2>1. cur' = OnTakeoverCommitted(cur, e, clock) /\ ousted' = ousted \ {e.new}
    BY <1>1, <1>8 DEF Emit, IssueState, RevokeTypes
  <2> QED
    BY <1>2, <2>1 DEF WinnerNotOusted, OnTakeoverCommitted, States
<1>9. CASE e.type \in RetireTypes
  <2>1. cur' = OnRetire(cur)
    BY <1>1, <1>9 DEF Emit, IssueState, RevokeTypes, RetireTypes
  <2> QED
    BY <1>2, <2>1 DEF WinnerNotOusted, OnRetire, States
<1>10. CASE e.type \in AuditTypes \/ e.type = "TAKEOVER_REJECTED"
  <2>1. cur' = cur /\ ousted' = ousted
    BY <1>1, <1>10 DEF Emit, IssueState, RevokeTypes, RetireTypes, AuditTypes
  <2> QED
    BY <1>2, <2>1 DEF WinnerNotOusted
<1> QED
  BY <1>3, <1>4, <1>5, <1>6, <1>7, <1>8, <1>9, <1>10 DEF EventTypes, TakeoverTypes

\* The event reaches the claim of its own session in both replays.
LEMMA EmitKeepsAgreement ==
  ASSUME ClaimInv, NEW p \in Planners, Emit(p)
  PROVE  ReplaysAgree'
<1> SUFFICES ASSUME NEW s \in Sessions, cur'.perm = "active_winner", cur'.active = s,
                    cur'.source = "claim"
             PROVE  /\ claims'[s].accepted /\ ~claims'[s].revoked
                    /\ claims'[s].expires = cur'.expires
                    /\ claims'[s].heartbeat = cur'.heartbeat
  BY DEF ReplaysAgree
<1>1. PICK e : e = plan[p].ev /\ WellFormed(e)
  BY DEF ClaimInv, ClaimTypes, Emit
<1>2. cur \in States /\ claims[s] \in ClaimRows
  BY DEF ClaimInv, ClaimTypes
<1>3. cur.perm = "active_winner" /\ cur.active = s /\ cur.source = "claim" =>
            /\ claims[s].accepted /\ ~claims[s].revoked
            /\ claims[s].expires = cur.expires
            /\ claims[s].heartbeat = cur.heartbeat
  BY DEF ClaimInv, ReplaysAgree
<1>4. e.session \in SessionOrNone /\ e.type \in EventTypes
  BY <1>1 DEF WellFormed, LedgerEvents
<1>5. claims'[s] = IF s = e.session THEN DeriveClaim(claims[s], e, clock, ver + 1) ELSE claims[s]
  BY <1>1 DEF Emit
<1>6. s # NoSession
  BY ClaimConstants
<1>7. CASE e.type = "CLAIM_ACCEPTED"
  <2>1. cur' = OnClaim(cur, e, clock)
    BY <1>1, <1>7 DEF Emit, IssueState
  <2> QED
    BY <1>5, <1>7, <2>1 DEF OnClaim, DeriveClaim, BuildClaim
<1>8. CASE e.type = "HEARTBEAT_EVIDENCE"
  <2>1. cur' = OnHeartbeat(cur, e, clock)
    BY <1>1, <1>8 DEF Emit, IssueState, RevokeTypes, RetireTypes
  <2>2. cur.perm = "active_winner" /\ cur.active = s /\ cur.source = "claim"
    BY <1>2, <2>1 DEF OnHeartbeat, States
  <2>3. CASE e.session = s
    BY <1>2, <1>3, <1>5, <1>8, <2>1, <2>2, <2>3
    DEF OnHeartbeat, DeriveClaim, ClaimRows, States, RevokeTypes
  <2>4. CASE e.session # s
    BY <1>3, <1>5, <2>1, <2>2, <2>4 DEF OnHeartbeat
  <2> QED
    BY <2>3, <2>4
<1>9. CASE e.type \in RevokeTypes
  <2>1. cur' = OnRevoke(cur, e)
    BY <1>1, <1>9 DEF Emit, IssueState, RevokeTypes
  <2>2. cur' = cur /\ e.session # s
    BY <1>2, <2>1 DEF OnRevoke, States
  <2> QED
    BY <1>3, <1>5, <2>2
<1>10. CASE e.type = "TAKEOVER_ACCEPTED"
  <2>1. cur' = OnTakeoverAccepted(cur, e) /\ e.session = NoSession
    BY <1>1, <1>10 DEF Emit, IssueState, RevokeTypes, WellFormed, TakeoverTypes
  <2>2. cur' = cur
    BY <1>2, <2>1 DEF OnTakeoverAccepted, States
  <2> QED
    BY <1>3, <1>5, <1>6, <2>1, <2>2
<1>11. CASE e.type = "TAKEOVER_COMMITTED"
  <2>1. cur' = OnTakeoverCommitted(cur, e, clock)
    BY <1>1, <1>11 DEF Emit, IssueState, RevokeTypes
  <2> QED
    BY <1>2, <2>1 DEF OnTakeoverCommitted, States
<1>12. CASE e.type \in RetireTypes
  <2>1. cur' = OnRetire(cur)
    BY <1>1, <1>12 DEF Emit, IssueState, RevokeTypes, RetireTypes
  <2> QED
    BY <1>2, <2>1 DEF OnRetire, States
<1>13. CASE e.type \in AuditTypes \/ e.type = "TAKEOVER_REJECTED"
  <2>1. cur' = cur
    BY <1>1, <1>13 DEF Emit, IssueState, RevokeTypes, RetireTypes, AuditTypes
  <2>2. claims'[s] = claims[s] \/ ~claims[s].accepted
    BY <1>5, <1>13 DEF DeriveClaim, AuditTypes, RevokeTypes
  <2> QED
    BY <1>3, <2>1, <2>2
<1> QED
  BY <1>4, <1>7, <1>8, <1>9, <1>10, <1>11, <1>12, <1>13 DEF EventTypes, TakeoverTypes

\* Every plan still waiting was made before the appended event.
LEMMA EmitKeepsInv ==
  ASSUME ClaimInv, NEW p \in Planners, Emit(p)
  PROVE  ClaimInv'
<1>1. PlansDue'
  <2>1. ver' = ver + 1 /\ plan' = [plan EXCEPT ![p] = NoPlan] /\ ver \in Nat
        /\ plan \in [Planners -> Plans]
    BY DEF Emit, ClaimInv, ClaimTypes
  <2>2. ASSUME NEW q \in Planners
        PROVE  plan'[q].expect < ver' /\ plan'[q].expect \in Nat
    <3>1. plan[q].expect <= ver /\ plan[q].expect \in Nat
      BY <2>1 DEF ClaimInv, PlansDue, Plans
    <3>2. plan'[q].expect = plan[q].expect \/ plan'[q].expect = 0
      BY <2>1, NoPlanTyped
    <3> QED
      BY <2>1, <3>1, <3>2
  <2> QED
    BY <2>1, <2>2 DEF PlansDue
<1> QED
  BY <1>1, EmitKeepsTypes, EmitKeepsWinner, EmitKeepsAgreement DEF ClaimInv

LEMMA ClaimStep == ClaimInv /\ [Next]_vars => ClaimInv'
<1> SUFFICES ASSUME ClaimInv, [Next]_vars PROVE ClaimInv'
  OBVIOUS
<1>1. CASE Tick
  BY <1>1, TickKeepsInv
<1>2. CASE \E p \in Planners : Planning(p) \/ Emit(p) \/ EmitRefused(p)
  BY <1>2, PlanningKeepsInv, EmitKeepsInv, RefusedKeepsInv
<1>3. CASE (\E s \in Sessions : MirrorRead(s)) \/ MirrorWrite \/ MirrorMoved \/ UNCHANGED vars
  BY <1>3, MirrorKeepsInv DEF MirrorRead, MirrorWrite, MirrorMoved, vars
<1> QED
  BY <1>1, <1>2, <1>3 DEF Next

\* The invariant of the claims of an issue: the replay's state, every planned
\* event and what it was planned from.
THEOREM ClaimInvariant == Spec => []ClaimInv
<1> QED
  BY ClaimInit, ClaimStep, PTL DEF Spec

\* A session that was revoked, retired or caught in a takeover gets no
\* permission from require-claim before a claim or a committed takeover names
\* it again.
THEOREM OustedOut == Spec => []OustedStaysOut
<1>1. ClaimInv => OustedStaysOut
  BY DEF ClaimInv, WinnerNotOusted, OustedStaysOut, Allowed
<1> QED
  BY <1>1, ClaimInvariant, PTL

\* require-claim and the reaper agree on the expiry and the heartbeat of the
\* winning claim, whatever the order of the events.
THEOREM FoldsAgree == Spec => []ReplaysAgree
<1>1. ClaimInv => ReplaysAgree
  BY DEF ClaimInv
<1> QED
  BY <1>1, ClaimInvariant, PTL

\* The compare-and-swap on the prefix hash lets an event in only while what its
\* planner read still holds.
THEOREM PlansCurrent == Spec => PlansStayCurrent
<1>1. ASSUME ClaimInv, [Next]_vars
      PROVE  [\A p \in Planners :
                ver' # ver /\ plan[p].ready /\ ~plan'[p].ready => StillDue(plan[p].ev)]_vars
  <2> SUFFICES ASSUME NEW p \in Planners, ver' # ver, plan[p].ready, ~plan'[p].ready
               PROVE  StillDue(plan[p].ev)
    OBVIOUS
  <2>1. PICK q \in Planners : Emit(q)
    BY <1>1 DEF Next, Tick, Planning, PlanByHand, PlanAccept, PlanCommit, PlanRecovery,
                PlanRetire, Reap, PlanEvent, EmitRefused, MirrorRead, MirrorWrite,
                MirrorMoved, vars
  <2>2. q = p
    BY <2>1, <1>1 DEF Emit, ClaimInv, ClaimTypes
  <2>3. plan[p].expect = ver
    BY <2>1, <2>2 DEF Emit, ExpectedPrevious
  <2> QED
    BY <1>1, <2>3 DEF ClaimInv, PlansDue
<1> QED
  BY <1>1, ClaimInvariant, PTL DEF Spec, PlansStayCurrent

---------------------------------------------------------------------------
(* The write path. *)

Events == [uuid : Uuids, at : Times]
Lines == [status : {"blocked_audit_debt", "terminal"}, intent : Uuids]
Emitting == {"post", "append", "push", "marker"}
Procs == [pc : {"idle", "checkout", "mark", "next"} \cup Emitting,
          at : Times, expect : Seq(Events), base : Seq(Events),
          uuid : Uuids \cup {None}, todo : SUBSET Uuids, done : SUBSET Uuids]

LedgerTypes ==
  /\ remote \in Seq(Events)
  /\ queue \in Seq(Lines)
  /\ proc \in [Writers -> Procs]
  /\ acked \subseteq Uuids
  /\ minutes \in Times

\* What a writer holds at each point of its run.
WriterOK(p) ==
  /\ p.pc \in Emitting => p.uuid \in Uuids
  /\ p.pc = "push" => ValidCandidate(p.base, [uuid |-> p.uuid, at |-> p.at])
  /\ p.pc = "marker" => p.uuid \in Recorded(remote)
  /\ p.done \subseteq Recorded(remote)

WritersOK == \A w \in Writers : WriterOK(proc[w])

LedgerInv == LedgerTypes /\ WritersOK /\ AckedIsRecorded

-----------------------------------------------------------------------------
\* An appended event is recorded, and nothing else changes.
LEMMA RecordedAppend ==
  ASSUME NEW l \in Seq(Events), NEW e \in Events
  PROVE  Recorded(Append(l, e)) = Recorded(l) \cup {e.uuid}
<1>1. Len(Append(l, e)) = Len(l) + 1
  OBVIOUS
<1>2. \A k \in 1..Len(l) : Append(l, e)[k] = l[k]
  OBVIOUS
<1>3. Append(l, e)[Len(l) + 1] = e
  OBVIOUS
<1>4. Len(l) \in Nat
  OBVIOUS
<1>5. \A k \in 1..(Len(l) + 1) : k \in 1..Len(l) \/ k = Len(l) + 1
  BY <1>4
<1> QED
  BY <1>1, <1>2, <1>3, <1>4, <1>5 DEF Recorded

\* A line adds at most its own intent to the markers, a debt adds none.
LEMMA TerminalAppend ==
  ASSUME NEW q \in Seq(Lines), NEW r \in Lines
  PROVE  /\ Terminal(Append(q, r)) \subseteq Terminal(q) \cup {r.intent}
         /\ r.status # "terminal" => Terminal(Append(q, r)) \subseteq Terminal(q)
<1>1. /\ Len(Append(q, r)) = Len(q) + 1 /\ Len(q) \in Nat
      /\ \A k \in 1..Len(q) : Append(q, r)[k] = q[k]
      /\ Append(q, r)[Len(q) + 1] = r
  OBVIOUS
<1>2. \A k \in 1..(Len(q) + 1) : k \in 1..Len(q) \/ k = Len(q) + 1
  BY <1>1
<1> QED
  BY <1>1, <1>2 DEF Terminal

\* The queue grows by one marker, or not at all when it is full.
LEMMA EnqueueMarker ==
  ASSUME NEW q \in Seq(Lines), NEW i \in Uuids
  PROVE  LET new == Enqueue(q, [status |-> "terminal", intent |-> i])
         IN  new \in Seq(Lines) /\ Terminal(new) \subseteq Terminal(q) \cup {i}
<1>1. [status |-> "terminal", intent |-> i] \in Lines
  BY DEF Lines
<1> QED
  BY <1>1, TerminalAppend DEF Enqueue

LEMMA LedgerInit == AppendInit => LedgerInv
<1> SUFFICES ASSUME AppendInit PROVE LedgerInv
  OBVIOUS
<1>1. 0 \in Times
  BY LedgerConstants DEF Times
<1>2. Idle \in Procs
  BY <1>1 DEF Idle, Procs, Emitting
<1>3. LedgerTypes
  BY <1>1, <1>2 DEF AppendInit, LedgerTypes
<1>4. WritersOK
  BY DEF AppendInit, WritersOK, WriterOK, Idle, Emitting
<1>5. Terminal(<<>>) = {}
  BY DEF Terminal
<1> QED
  BY <1>3, <1>4, <1>5 DEF AppendInit, LedgerInv, AckedIsRecorded

\* Only w moves, to p, and the branch only grows: the others keep what they
\* hold.
LEMMA WriterMoves ==
  ASSUME LedgerInv, NEW w \in Writers, NEW p \in Procs,
         proc' = [proc EXCEPT ![w] = p],
         Recorded(remote) \subseteq Recorded(remote'),
         WriterOK(p)'
  PROVE  proc' \in [Writers -> Procs] /\ WritersOK'
<1>1. proc' \in [Writers -> Procs]
  BY DEF LedgerInv, LedgerTypes
<1>2. proc'[w] = p /\ \A v \in Writers : v # w => proc'[v] = proc[v]
  BY DEF LedgerInv, LedgerTypes
<1>3. \A v \in Writers : WriterOK(proc[v])
  BY DEF LedgerInv, WritersOK
<1>4. ASSUME NEW v \in Writers PROVE WriterOK(proc[v])'
  BY <1>2, <1>3 DEF WriterOK
<1> QED
  BY <1>1, <1>4 DEF WritersOK

\* A writer that ends its run keeps nothing.
LEMMA WriterEnds ==
  ASSUME LedgerInv, NEW w \in Writers, proc' = [proc EXCEPT ![w] = Idle],
         Recorded(remote) \subseteq Recorded(remote')
  PROVE  proc' \in [Writers -> Procs] /\ WritersOK'
<1>1. Idle \in Procs
  BY LedgerConstants DEF Idle, Procs, Emitting, Times
<1>2. WriterOK(Idle)'
  BY DEF WriterOK, Idle, Emitting
<1> QED
  BY <1>1, <1>2, WriterMoves

LEMMA RetryKeepsInv ==
  ASSUME LedgerInv, NEW r \in Retriers, RetryStep(r)
  PROVE  LedgerInv' /\ remote' = remote
<1>a. r \in Writers /\ proc[r] \in Procs /\ WriterOK(proc[r])
  BY DEF Writers, LedgerInv, LedgerTypes, WritersOK
<1>b. /\ remote' = remote /\ acked' = acked /\ minutes' = minutes
      /\ Recorded(remote) \subseteq Recorded(remote')
  BY DEF RetryStep, LoadQueue, CheckoutLedger, MarkAlready, NextIntent, MarkEmitted
<1>1. ASSUME queue' = queue, proc' \in [Writers -> Procs], WritersOK'
      PROVE  LedgerInv'
  BY <1>b, <1>1 DEF LedgerInv, LedgerTypes, AckedIsRecorded
<1>2. ASSUME NEW i \in Uuids, i \in Recorded(remote),
             queue' = Enqueue(queue, [status |-> "terminal", intent |-> i]),
             proc' \in [Writers -> Procs], WritersOK'
      PROVE  LedgerInv'
  <2>1. queue' \in Seq(Lines) /\ Terminal(queue') \subseteq Terminal(queue) \cup {i}
    BY <1>2, EnqueueMarker DEF LedgerInv, LedgerTypes
  <2> QED
    BY <1>b, <1>2, <2>1 DEF LedgerInv, LedgerTypes, AckedIsRecorded
<1>3. CASE LoadQueue(r)
  <2>1. PICK p : /\ p = [Idle EXCEPT !.pc = "checkout", !.at = minutes,
                                     !.todo = Debts(Loaded(queue)) \ Terminal(Loaded(queue))]
                 /\ proc' = [proc EXCEPT ![r] = p]
    BY <1>3 DEF LoadQueue
  <2>2. Debts(Loaded(queue)) \subseteq Uuids
    <3>1. queue \in Seq(Lines)
      BY DEF LedgerInv, LedgerTypes
    <3>2. Loaded(queue) \in Seq(Lines)
      BY <3>1, LedgerConstants DEF Loaded
    <3>3. \A k \in 1..Len(Loaded(queue)) : Loaded(queue)[k] \in Lines
      BY <3>2
    <3>4. \A l \in Lines : l.intent \in Uuids
      BY DEF Lines
    <3> QED
      BY <3>3, <3>4 DEF Debts
  <2>3. p \in Procs
    <3>1. Idle \in Procs
      BY LedgerConstants DEF Idle, Procs, Emitting, Times
    <3> QED
      BY <2>1, <2>2, <3>1 DEF Procs, LedgerInv, LedgerTypes
  <2>4. WriterOK(p)'
    BY <2>1 DEF WriterOK, Idle, Emitting
  <2> QED
    BY <1>1, <1>3, <1>a, <1>b, <2>1, <2>3, <2>4, WriterMoves DEF LoadQueue
<1>4. CASE CheckoutLedger(r)
  <2>1. PICK p : /\ p = [proc[r] EXCEPT !.pc = "mark", !.expect = remote,
                           !.done = @ \cup (proc[r].todo \cap Recorded(remote)),
                           !.todo = @ \ Recorded(remote)]
                 /\ proc' = [proc EXCEPT ![r] = p]
    BY <1>4, <1>a DEF CheckoutLedger, LedgerInv, LedgerTypes
  <2>2. p \in Procs
    BY <1>a, <2>1 DEF Procs, LedgerInv, LedgerTypes
  <2>3. WriterOK(p)'
    BY <1>a, <1>b, <2>1 DEF WriterOK, Emitting, Procs
  <2> QED
    BY <1>1, <1>4, <1>a, <1>b, <2>1, <2>2, <2>3, WriterMoves DEF CheckoutLedger
<1>5. CASE MarkAlready(r)
  <2>1. CASE proc[r].done = {}
    <3>1. PICK p : p = [proc[r] EXCEPT !.pc = "next"] /\ proc' = [proc EXCEPT ![r] = p]
      BY <1>5, <1>a, <2>1 DEF MarkAlready, LedgerInv, LedgerTypes
    <3>2. p \in Procs
      BY <1>a, <3>1 DEF Procs
    <3>3. WriterOK(p)'
      BY <1>a, <1>b, <3>1 DEF WriterOK, Emitting, Procs
    <3> QED
      BY <1>1, <1>5, <1>a, <1>b, <2>1, <3>1, <3>2, <3>3, WriterMoves DEF MarkAlready
  <2>2. CASE proc[r].done # {}
    <3>1. PICK i \in proc[r].done :
            /\ queue' = Enqueue(queue, [status |-> "terminal", intent |-> i])
            /\ proc' = [proc EXCEPT ![r].done = @ \ {i}]
      BY <1>5, <2>2 DEF MarkAlready
    <3>2. PICK p : p = [proc[r] EXCEPT !.done = @ \ {i}] /\ proc' = [proc EXCEPT ![r] = p]
      BY <1>a, <3>1 DEF LedgerInv, LedgerTypes
    <3>3. p \in Procs
      BY <1>a, <3>2 DEF Procs
    <3>4. WriterOK(p)'
      BY <1>a, <1>b, <1>5, <3>2 DEF WriterOK, Emitting, Procs, MarkAlready
    <3>5. i \in Uuids /\ i \in Recorded(remote)
      BY <1>a, <3>1 DEF Procs, WriterOK
    <3> QED
      BY <1>2, <1>a, <1>b, <3>1, <3>2, <3>3, <3>4, <3>5, WriterMoves
  <2> QED
    BY <2>1, <2>2
<1>6. CASE NextIntent(r)
  <2>1. CASE proc[r].todo = {}
    BY <1>1, <1>6, <1>a, <1>b, <2>1, WriterEnds DEF NextIntent
  <2>2. CASE proc[r].todo # {}
    <3>1. PICK i \in proc[r].todo :
            proc' = [proc EXCEPT ![r].pc = "post", ![r].uuid = i, ![r].todo = @ \ {i}]
      BY <1>6, <2>2 DEF NextIntent
    <3>2. PICK p : /\ p = [proc[r] EXCEPT !.pc = "post", !.uuid = i, !.todo = @ \ {i}]
                   /\ proc' = [proc EXCEPT ![r] = p]
      BY <1>a, <3>1 DEF LedgerInv, LedgerTypes
    <3>3. p \in Procs
      BY <1>a, <3>1, <3>2 DEF Procs, Emitting
    <3>4. WriterOK(p)'
      BY <1>a, <1>b, <3>1, <3>2 DEF WriterOK, Emitting, Procs
    <3> QED
      BY <1>1, <1>6, <1>a, <1>b, <3>2, <3>3, <3>4, WriterMoves DEF NextIntent
  <2> QED
    BY <2>1, <2>2
<1>7. CASE MarkEmitted(r)
  <2>1. PICK p : /\ p = [proc[r] EXCEPT !.pc = "next", !.uuid = None]
                 /\ proc' = [proc EXCEPT ![r] = p]
    BY <1>7, <1>a DEF MarkEmitted, LedgerInv, LedgerTypes
  <2>2. p \in Procs
    BY <1>a, <2>1 DEF Procs
  <2>3. WriterOK(p)'
    BY <1>a, <1>b, <2>1 DEF WriterOK, Emitting, Procs
  <2>4. proc[r].uuid \in Uuids /\ proc[r].uuid \in Recorded(remote)
    BY <1>7, <1>a DEF MarkEmitted, WriterOK, Emitting
  <2> QED
    BY <1>2, <1>7, <1>a, <1>b, <2>1, <2>2, <2>3, <2>4, WriterMoves DEF MarkEmitted
<1> QED
  BY <1>b, <1>3, <1>4, <1>5, <1>6, <1>7 DEF RetryStep

\* Every step of the branch is an append the log allows.
LogStep ==
  \/ remote' = remote
  \/ \E e \in Events : Log!MayFollow(remote, e) /\ remote' = Append(remote, e)

LEMMA EmissionKeepsInv ==
  ASSUME LedgerInv, NEW w \in Writers,
         PostComment(w) \/ AppendLocal(w) \/ Crash(w)
  PROVE  LedgerInv' /\ remote' = remote
<1>a. proc[w] \in Procs /\ WriterOK(proc[w])
  BY DEF LedgerInv, LedgerTypes, WritersOK
<1>b. /\ remote' = remote /\ acked' = acked /\ minutes' = minutes /\ queue' = queue
      /\ Recorded(remote) \subseteq Recorded(remote')
  BY DEF PostComment, AppendLocal, Crash
<1>1. ASSUME proc' \in [Writers -> Procs], WritersOK'
      PROVE  LedgerInv'
  BY <1>b, <1>1 DEF LedgerInv, LedgerTypes, AckedIsRecorded
<1>2. CASE proc' = [proc EXCEPT ![w] = Idle]
  BY <1>1, <1>2, <1>b, WriterEnds
<1>3. CASE PostComment(w) /\ minutes <= proc[w].at + Tolerance
  <2>1. PICK p : p = [proc[w] EXCEPT !.pc = "append"] /\ proc' = [proc EXCEPT ![w] = p]
    BY <1>3 DEF PostComment, LedgerInv, LedgerTypes
  <2>2. p \in Procs
    BY <1>a, <2>1 DEF Procs, Emitting
  <2>3. WriterOK(p)'
    BY <1>3, <1>a, <1>b, <2>1 DEF PostComment, WriterOK, Emitting, Procs
  <2> QED
    BY <1>1, <1>b, <2>1, <2>2, <2>3, WriterMoves
<1>4. CASE /\ AppendLocal(w)
           /\ CasHolds(proc[w].expect, remote)
           /\ ValidCandidate(remote, [uuid |-> proc[w].uuid, at |-> proc[w].at])
  <2>1. PICK p : /\ p = [proc[w] EXCEPT !.pc = "push", !.base = remote]
                 /\ proc' = [proc EXCEPT ![w] = p]
    BY <1>4 DEF AppendLocal, LedgerInv, LedgerTypes
  <2>2. p \in Procs
    BY <1>a, <2>1 DEF Procs, Emitting, LedgerInv, LedgerTypes
  <2>3. /\ p.pc = "push" /\ p.base = remote /\ p.uuid = proc[w].uuid /\ p.at = proc[w].at
        /\ p.done = proc[w].done
    BY <1>a, <2>1 DEF Procs
  <2>4. WriterOK(p)'
    BY <1>4, <1>a, <1>b, <2>3 DEF AppendLocal, WriterOK, Emitting
  <2> QED
    BY <1>1, <1>b, <2>1, <2>2, <2>4, WriterMoves
<1> QED
  BY <1>b, <1>2, <1>3, <1>4 DEF PostComment, AppendLocal, Crash

LEMMA PushKeepsInv ==
  ASSUME LedgerInv, NEW w \in Writers, Push(w) \/ PushAnswerLost(w)
  PROVE  LedgerInv' /\ LogStep
<1>a. proc[w] \in Procs /\ WriterOK(proc[w]) /\ remote \in Seq(Events)
  BY DEF LedgerInv, LedgerTypes, WritersOK
<1>b. queue' = queue /\ minutes' = minutes /\ proc[w].pc = "push"
  BY DEF Push, PushAnswerLost
<1>1. CASE remote' = remote
  <2>1. proc' = [proc EXCEPT ![w] = Idle] /\ acked' = acked
    <3>1. Len(Append(remote, [uuid |-> proc[w].uuid, at |-> proc[w].at])) = Len(remote) + 1
      BY <1>a
    <3>2. Append(remote, [uuid |-> proc[w].uuid, at |-> proc[w].at]) # remote
      BY <1>a, <3>1
    <3> QED
      BY <1>1, <3>2 DEF Push, PushAnswerLost, LeaseHolds
  <2> QED
    BY <1>1, <1>b, <2>1, WriterEnds DEF LogStep, LedgerInv, LedgerTypes, AckedIsRecorded
<1>2. CASE remote' # remote
  <2>1. PICK e : e = [uuid |-> proc[w].uuid, at |-> proc[w].at]
    OBVIOUS
  <2>2. /\ proc[w].base = remote
        /\ remote' = Append(remote, e)
    BY <1>2, <2>1 DEF Push, PushAnswerLost, LeaseHolds
  <2>3. e \in Events /\ e.uuid = proc[w].uuid
    BY <1>a, <1>b, <2>1 DEF Events, Procs, WriterOK, Emitting
  <2>4. Recorded(remote') = Recorded(remote) \cup {e.uuid}
    BY <1>a, <2>2, <2>3, RecordedAppend
  <2>5. ValidCandidate(remote, e)
    BY <1>a, <1>b, <2>1, <2>2 DEF WriterOK
  <2>6. Log!MayFollow(remote, e)
    BY <1>a, <2>5 DEF ValidCandidate, Recorded, Log!MayFollow
  <2>7. remote' \in Seq(Events)
    BY <1>a, <2>2, <2>3
  <2>8. proc' \in [Writers -> Procs] /\ WritersOK'
    <3>1. CASE proc' = [proc EXCEPT ![w] = Idle]
      BY <2>4, <3>1, WriterEnds
    <3>2. CASE proc' # [proc EXCEPT ![w] = Idle]
      <4>1. PICK p : /\ p = [proc[w] EXCEPT !.pc = "marker", !.expect = remote']
                     /\ proc' = [proc EXCEPT ![w] = p]
        BY <1>2, <2>1, <2>2, <3>2 DEF Push, PushAnswerLost, LeaseHolds
      <4>2. p \in Procs
        BY <1>a, <2>7, <4>1 DEF Procs, Emitting
      <4>3. p.pc = "marker" /\ p.uuid = e.uuid /\ p.done = proc[w].done
        BY <1>a, <2>3, <4>1 DEF Procs
      <4>4. WriterOK(p)'
        BY <1>a, <2>3, <2>4, <4>3 DEF WriterOK, Emitting, Events
      <4> QED
        BY <2>4, <4>1, <4>2, <4>4, WriterMoves
    <3> QED
      BY <3>1, <3>2
  <2>9. acked' \subseteq acked \cup {e.uuid}
    BY <2>3 DEF Push, PushAnswerLost
  <2>10. LedgerInv'
    BY <1>b, <2>3, <2>4, <2>7, <2>8, <2>9
    DEF LedgerInv, LedgerTypes, AckedIsRecorded, Events
  <2> QED
    BY <2>2, <2>3, <2>6, <2>10 DEF LogStep
<1> QED
  BY <1>1, <1>2

LEMMA LedgerStep ==
  ASSUME LedgerInv, [AppendNext]_appendVars
  PROVE  LedgerInv' /\ LogStep
<1>1. CASE AppendTick
  BY <1>1, LedgerConstants
  DEF AppendTick, LedgerInv, LedgerTypes, WritersOK, WriterOK, AckedIsRecorded, LogStep, Times
<1>2. ASSUME NEW i \in Intents, RecordDeny(i)
      PROVE  LedgerInv' /\ LogStep
  <2>1. PICK r : /\ r = [status |-> "blocked_audit_debt", intent |-> i]
                 /\ queue' = Append(queue, r)
    BY <1>2 DEF RecordDeny
  <2>2. r \in Lines /\ r.status # "terminal"
    BY <2>1 DEF Lines, Uuids
  <2>3. queue' \in Seq(Lines) /\ Terminal(queue') \subseteq Terminal(queue)
    BY <2>1, <2>2, TerminalAppend DEF LedgerInv, LedgerTypes
  <2> QED
    BY <1>2, <2>3
    DEF RecordDeny, LedgerInv, LedgerTypes, WritersOK, WriterOK, AckedIsRecorded, LogStep
<1>3. ASSUME NEW r \in Retriers, RetryStep(r)
      PROVE  LedgerInv' /\ LogStep
  BY <1>3, RetryKeepsInv DEF LogStep
<1>4. ASSUME NEW e \in Emitters, StartEmit(e)
      PROVE  LedgerInv' /\ LogStep
  <2>1. PICK u \in Fresh :
          proc' = [proc EXCEPT ![e] = [Idle EXCEPT
                     !.pc = "post", !.at = minutes, !.expect = remote, !.uuid = u]]
    BY <1>4 DEF StartEmit
  <2>2. PICK p : /\ p = [Idle EXCEPT !.pc = "post", !.at = minutes, !.expect = remote, !.uuid = u]
                 /\ proc' = [proc EXCEPT ![e] = p]
    BY <2>1
  <2>3. Idle \in Procs
    BY LedgerConstants DEF Idle, Procs, Emitting, Times
  <2>4. p \in Procs /\ p.pc = "post" /\ p.uuid = u /\ u \in Uuids /\ p.done = {}
    BY <2>2, <2>3 DEF Procs, Emitting, Uuids, LedgerInv, LedgerTypes, Idle
  <2>5. /\ remote' = remote /\ acked' = acked /\ minutes' = minutes /\ queue' = queue
        /\ e \in Writers
    BY <1>4 DEF StartEmit, Writers
  <2>6. WriterOK(p)'
    BY <2>4 DEF WriterOK, Emitting
  <2> QED
    BY <2>2, <2>4, <2>5, <2>6, WriterMoves DEF LedgerInv, LedgerTypes, AckedIsRecorded, LogStep
<1>5. ASSUME NEW w \in Writers, Emission(w) \/ Crash(w) \/ PushAnswerLost(w)
      PROVE  LedgerInv' /\ LogStep
  BY <1>5, EmissionKeepsInv, PushKeepsInv DEF Emission, LogStep
<1>6. CASE UNCHANGED appendVars
  BY <1>6
  DEF appendVars, LedgerInv, LedgerTypes, WritersOK, WriterOK, AckedIsRecorded, LogStep
<1> QED
  BY <1>1, <1>2, <1>3, <1>4, <1>5, <1>6 DEF AppendNext

-----------------------------------------------------------------------------
\* The inductive invariant of the ledger's writers.
THEOREM LedgerInvariant == AppendSpec => []LedgerInv
<1>1. QED
  BY LedgerInit, LedgerStep, PTL DEF AppendSpec

\* No terminal marker and no reported success without the event in the ledger
\* (retry-audit-debt.py, append-ledger-branch.sh).
THEOREM NothingWrittenOff == AppendSpec => []AckedIsRecorded
<1>1. LedgerInv => AckedIsRecorded
  BY DEF LedgerInv
<1>2. QED
  BY <1>1, LedgerInvariant, PTL

\* The fetch, the validation and the leased push of any number of writers are
\* together one append of a valid event: the branch is the append-only log.
THEOREM LedgerRefinesLog == AppendSpec => RefinesLog
<1>1. AppendInit => Log!Init
  BY DEF AppendInit, Log!Init
<1>2. LogStep => [Log!Next]_remote
  BY DEF LogStep, Log!Next, Log!LogEvents, Events
<1>3. QED
  BY <1>1, <1>2, LedgerStep, LedgerInvariant, PTL DEF AppendSpec, RefinesLog, Log!Spec
===========================================================================
