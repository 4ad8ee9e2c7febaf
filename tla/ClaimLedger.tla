------------------------------- MODULE ClaimLedger -------------------------------
(***************************************************************************)
(* The claims of one issue, as the coordination scripts derive them from   *)
(* the ledger.                                                             *)
(*                                                                         *)
(* ledger-claim-state.py and reap-ledger-state.py replay the same events   *)
(* with two different folds; the takeover, tombstone and reaper scripts    *)
(* read the ledger, decide, and print an event plan with the prefix hash   *)
(* they saw; emit-ledger-event.sh appends the planned event later, only if *)
(* the prefix is still that one (LedgerAppend).  Since the ledger is       *)
(* append-only, each fold is kept here as its value after the last event,  *)
(* and the prefix hash is the number of events.                            *)
(*                                                                         *)
(* The issue's mirrors (issue body and Project status, written by          *)
(* apply-ledger-mirrors.py) are one value: the session shown as working    *)
(* "In Progress", or NoSession for any other status.                       *)
(***************************************************************************)
EXTENDS Naturals, FiniteSets

CONSTANTS
    Sessions,
    Planners,           \* operators and reapers that plan and emit events
    NoSession,
    HeartbeatWindow,    \* heartbeat_interval_minutes + heartbeat_grace_minutes
    ClaimTtl,           \* claim_expires_at - committed_at of a claim
    MaxClock,           \* bound on the clock
    MaxEvents           \* bound on the events of the issue

ASSUME ClaimConstants ==
    /\ HeartbeatWindow \in Nat /\ ClaimTtl \in Nat
    /\ MaxClock \in Nat /\ MaxEvents \in Nat
    /\ NoSession \notin Sessions

VARIABLES
    ver,        \* events in the ledger; stands for valid_prefix_hash
    cur,        \* current_issue_state after them
    claims,     \* derive_claims after them
    takeover,   \* latest_takeover after them, for each pair of sessions
    plan,       \* the event each planner is about to emit
    mirror,     \* the session the mirrors show, or NoSession
    applier,    \* the session a mirror write in progress will show
    ousted,     \* sessions deprived since their last grant (history)
    clock

vars == <<ver, cur, claims, takeover, plan, mirror, applier, ousted, clock>>

NoExpiry == MaxClock + ClaimTtl + 1      \* claim_expires_at is None
RevokeTypes == {"CLAIM_STALE", "CLAIM_EXPIRED", "MIRROR_DRIFT_DETECTED",
                "MIRROR_ORPHAN_DETECTED", "BLOCKED_FAIL_CLOSED"}
RetireTypes == {"TOMBSTONE_CHAIN", "SUPERSEDE_ISSUE"}
AuditTypes == {"OWNER_APPROVAL_EVIDENCE", "OWNER_APPROVED"}
TakeoverTypes == {"TAKEOVER_ACCEPTED", "TAKEOVER_COMMITTED", "TAKEOVER_REJECTED"}

\* session is the payload's session or claim_session; a takeover has its two
\* sessions instead.
SessionOrNone == Sessions \cup {NoSession}

Event(t, s) == [type |-> t, session |-> s, old |-> NoSession, new |-> NoSession]
TakeoverEvent(t, o, n) == [type |-> t, session |-> NoSession, old |-> o, new |-> n]

NoClaim == [accepted |-> FALSE, at |-> 0, expires |-> 0, heartbeat |-> 0,
            revoked |-> FALSE, pos |-> 0]
NoPlan == [expect |-> 0, ev |-> Event("OWNER_APPROVED", NoSession), ready |-> FALSE]

--------------------------------------------------------------------------------
(* current_issue_state of ledger-claim-state.py, one event at a time.        *)

OnClaim(st, e, at) ==
    [perm |-> "active_winner", active |-> e.session, expires |-> at + ClaimTtl,
     heartbeat |-> at, source |-> "claim"]

\* Mutant: a heartbeat brings a claim back.
HeartbeatRevives(st, e, at) ==
    IF e.session = st.active
    THEN [st EXCEPT !.heartbeat = at, !.perm = "active_winner"] ELSE st

OnHeartbeat(st, e, at) ==
    IF e.session = st.active THEN [st EXCEPT !.heartbeat = at] ELSE st

\* A revocation that names a session concerns that session only; one that
\* names none (a mirror drift, an orphan) revokes whoever is active.
OnRevoke(st, e) ==
    IF e.session \in {NoSession, st.active} THEN [st EXCEPT !.perm = "revoked"] ELSE st

OnTakeoverAccepted(st, e) ==
    IF st.active \in {e.old, e.new}
    THEN [st EXCEPT !.perm = "takeover_pending", !.active = NoSession] ELSE st

\* The planned payload carries no claim_expires_at.
OnTakeoverCommitted(st, e, at) ==
    [st EXCEPT !.perm = "active_winner", !.active = e.new, !.expires = NoExpiry,
               !.heartbeat = at, !.source = "takeover"]

OnRetire(st) == [st EXCEPT !.perm = "retired", !.active = NoSession]

IssueState(st, e, at) ==
    IF e.type = "CLAIM_ACCEPTED" THEN OnClaim(st, e, at)
    ELSE IF e.type = "HEARTBEAT_EVIDENCE" THEN OnHeartbeat(st, e, at)
    ELSE IF e.type \in RevokeTypes THEN OnRevoke(st, e)
    ELSE IF e.type = "TAKEOVER_ACCEPTED" THEN OnTakeoverAccepted(st, e)
    ELSE IF e.type = "TAKEOVER_COMMITTED" THEN OnTakeoverCommitted(st, e, at)
    ELSE IF e.type \in RetireTypes THEN OnRetire(st)
    ELSE st

\* evaluate_state: what require-claim answers session s now.
Allowed(s) ==
    /\ cur.perm = "active_winner"
    /\ cur.active = s
    /\ clock <= cur.expires
    /\ clock <= cur.heartbeat + HeartbeatWindow

(* derive_claims of reap-ledger-state.py: claims by session; takeovers are   *)
(* not read.  pos is the place of the key in the dictionary.                 *)

\* Mutant: a session that claims again keeps the revocation of its old claim.
ClaimKeepsRevocation(c, at, n) ==
    [accepted |-> TRUE, at |-> at, expires |-> at + ClaimTtl, heartbeat |-> at,
     revoked |-> c.revoked, pos |-> IF c.accepted THEN c.pos ELSE n]

BuildClaim(c, at, n) ==
    [accepted |-> TRUE, at |-> at, expires |-> at + ClaimTtl, heartbeat |-> at,
     revoked |-> FALSE, pos |-> IF c.accepted THEN c.pos ELSE n]

DeriveClaim(c, e, at, n) ==
    IF e.type = "CLAIM_ACCEPTED" THEN BuildClaim(c, at, n)
    ELSE IF ~c.accepted THEN c
    ELSE IF e.type = "HEARTBEAT_EVIDENCE" THEN [c EXCEPT !.heartbeat = at]
    ELSE IF e.type \in RevokeTypes THEN [c EXCEPT !.revoked = TRUE]
    ELSE c

\* latest_by_issue: the claim accepted last; the later key wins a tie.
LatestClaim(s) ==
    /\ claims[s].accepted
    /\ \A t \in Sessions : claims[t].accepted =>
        \/ claims[t].at < claims[s].at
        \/ claims[t].at = claims[s].at /\ claims[t].pos <= claims[s].pos

Claimed == \E s \in Sessions : claims[s].accepted

--------------------------------------------------------------------------------
Init ==
    /\ ver = 0
    /\ cur = [perm |-> "no_claim", active |-> NoSession, expires |-> 0,
              heartbeat |-> 0, source |-> "none"]
    /\ claims = [s \in Sessions |-> NoClaim]
    /\ takeover = [p \in Sessions \X Sessions |-> "none"]
    /\ plan = [p \in Planners |-> NoPlan]
    /\ mirror \in SessionOrNone
    /\ applier = NoSession
    /\ ousted = {}
    /\ clock = 0

Tick ==
    /\ clock < MaxClock
    /\ clock' = clock + 1
    /\ UNCHANGED <<ver, cur, claims, takeover, plan, mirror, applier, ousted>>

\* A plan is made from a valid replay and remembers its prefix hash.
PlanEvent(p, ev) ==
    /\ ~plan[p].ready
    /\ ver < MaxEvents
    /\ plan' = [plan EXCEPT ![p] = [expect |-> ver, ev |-> ev, ready |-> TRUE]]
    /\ UNCHANGED <<ver, cur, claims, takeover, mirror, applier, ousted, clock>>

\* Events an operator writes with emit-ledger-event.sh on no script's advice.
PlanByHand(p) ==
    \/ \E s \in Sessions, t \in {"CLAIM_ACCEPTED", "HEARTBEAT_EVIDENCE"} :
        PlanEvent(p, Event(t, s))
    \/ \E o, n \in Sessions :
        /\ takeover[<<o, n>>] = "TAKEOVER_ACCEPTED"
        /\ PlanEvent(p, TakeoverEvent("TAKEOVER_REJECTED", o, n))
    \/ PlanEvent(p, Event("BLOCKED_FAIL_CLOSED", NoSession))

\* cmd_accept
MayAccept(o, n) ==
    /\ claims[o].accepted
    /\ takeover[<<o, n>>] \in {"none", "TAKEOVER_REJECTED"}

PlanAccept(p) == \E o, n \in Sessions :
    /\ MayAccept(o, n)
    /\ PlanEvent(p, TakeoverEvent("TAKEOVER_ACCEPTED", o, n))

\* cmd_commit with validate_mirror_verification: the operator attests that the
\* mirrors show the new session.
MayCommit(o, n) == takeover[<<o, n>>] = "TAKEOVER_ACCEPTED"

PlanCommit(p) == \E o, n \in Sessions :
    /\ MayCommit(o, n)
    /\ mirror = n
    /\ PlanEvent(p, TakeoverEvent("TAKEOVER_COMMITTED", o, n))

\* cmd_recovery: two audit events; no fold reads them, or the session they name.
PlanRecovery(p) == \E t \in AuditTypes : PlanEvent(p, Event(t, NoSession))

\* tombstone-supersede-flow.py: the issue must have ledger activity.
PlanRetire(p) == \E t \in RetireTypes :
    /\ ver > 0
    /\ PlanEvent(p, Event(t, NoSession))

\* detect_stale_claims
ClaimExpired(s) == claims[s].accepted /\ ~claims[s].revoked /\ clock > claims[s].expires
ClaimStale(s) ==
    /\ claims[s].accepted /\ ~claims[s].revoked
    /\ clock <= claims[s].expires
    /\ clock > claims[s].heartbeat + HeartbeatWindow

\* detect_mirror_findings.  Neither payload has a session field.
MirrorOrphan == mirror # NoSession /\ ~Claimed
MirrorDrift == \E s \in Sessions : LatestClaim(s) /\ mirror # s

Reap(p) ==
    \/ \E s \in Sessions : ClaimExpired(s) /\ PlanEvent(p, Event("CLAIM_EXPIRED", s))
    \/ \E s \in Sessions : ClaimStale(s) /\ PlanEvent(p, Event("CLAIM_STALE", s))
    \/ MirrorOrphan /\ PlanEvent(p, Event("MIRROR_ORPHAN_DETECTED", NoSession))
    \/ MirrorDrift /\ PlanEvent(p, Event("MIRROR_DRIFT_DETECTED", NoSession))

\* Mutant: the event is appended to whatever the ledger holds by now.
AppendAnyway(p) == TRUE

\* validate_expected_previous
ExpectedPrevious(p) == plan[p].expect = ver

\* emit-ledger-event.sh: the event is appended if the prefix is the planned one.
Emit(p) ==
    LET e == plan[p].ev IN
    /\ plan[p].ready
    /\ ExpectedPrevious(p)
    /\ ver < MaxEvents
    /\ ver' = ver + 1
    /\ cur' = IssueState(cur, e, clock)
    /\ claims' = [s \in Sessions |->
            IF s = e.session THEN DeriveClaim(claims[s], e, clock, ver + 1) ELSE claims[s]]
    /\ takeover' = IF e.type \in TakeoverTypes
                   THEN [takeover EXCEPT ![<<e.old, e.new>>] = e.type] ELSE takeover
    /\ ousted' = IF e.type = "CLAIM_ACCEPTED" THEN ousted \ {e.session}
                 ELSE IF e.type = "TAKEOVER_COMMITTED" THEN ousted \ {e.new}
                 ELSE IF e.type = "TAKEOVER_ACCEPTED" THEN ousted \cup {e.old, e.new}
                 ELSE IF e.type \in RevokeTypes
                      THEN ousted \cup (IF e.session = NoSession THEN Sessions ELSE {e.session})
                 ELSE IF e.type \in RetireTypes THEN Sessions
                 ELSE ousted
    /\ plan' = [plan EXCEPT ![p] = NoPlan]
    /\ UNCHANGED <<mirror, applier, clock>>

\* cas_mismatch: nothing is appended, the plan is thrown away.
EmitRefused(p) ==
    /\ plan[p].ready
    /\ ~ExpectedPrevious(p)
    /\ plan' = [plan EXCEPT ![p] = NoPlan]
    /\ UNCHANGED <<ver, cur, claims, takeover, mirror, applier, ousted, clock>>

\* apply-ledger-mirrors.py reads the mirrors and compares them with what its
\* plan expects, for an event that names the session ...
MirrorRead(s) ==
    /\ applier = NoSession
    /\ \/ claims[s].accepted
       \/ \E o \in Sessions : takeover[<<o, s>>] # "none"
    /\ applier' = s
    /\ UNCHANGED <<ver, cur, claims, takeover, plan, mirror, ousted, clock>>

\* ... and writes them later, or fails and leaves repair debt.
MirrorWrite ==
    /\ applier # NoSession
    /\ mirror' \in {mirror, applier}
    /\ applier' = NoSession
    /\ UNCHANGED <<ver, cur, claims, takeover, plan, ousted, clock>>

\* Someone moves the issue to another status.
MirrorMoved ==
    /\ mirror # NoSession
    /\ mirror' = NoSession
    /\ UNCHANGED <<ver, cur, claims, takeover, plan, applier, ousted, clock>>

Planning(p) ==
    \/ PlanByHand(p) \/ PlanAccept(p) \/ PlanCommit(p)
    \/ PlanRecovery(p) \/ PlanRetire(p) \/ Reap(p)

Next ==
    \/ Tick
    \/ \E p \in Planners : Planning(p) \/ Emit(p) \/ EmitRefused(p)
    \/ \E s \in Sessions : MirrorRead(s)
    \/ MirrorWrite
    \/ MirrorMoved

Spec == Init /\ [][Next]_vars

--------------------------------------------------------------------------------
\* A session that was revoked, retired or caught in a takeover has no permission
\* until a new claim or a committed takeover names it: no heartbeat, audit event
\* or refused takeover brings it back.  (ledger-claim-state.py:104-219)
OustedStaysOut == \A s \in ousted : ~Allowed(s)

\* The two replays agree on a winner that came from a claim: the reaper sees the
\* same expiry and the same heartbeat, unrevoked, so it reaps the claim no
\* earlier than require-claim stops honouring it.
\* (ledger-claim-state.py:104-219, reap-ledger-state.py:164-195)
ReplaysAgree ==
    \A s \in Sessions :
        cur.perm = "active_winner" /\ cur.active = s /\ cur.source = "claim" =>
            /\ claims[s].accepted /\ ~claims[s].revoked
            /\ claims[s].expires = cur.expires
            /\ claims[s].heartbeat = cur.heartbeat

\* What the planner of event e read still holds.
StillDue(e) ==
    /\ e.type = "CLAIM_STALE" => ClaimStale(e.session) \/ ClaimExpired(e.session)
    /\ e.type = "CLAIM_EXPIRED" => ClaimExpired(e.session)
    /\ e.type = "TAKEOVER_ACCEPTED" => MayAccept(e.old, e.new)
    /\ e.type = "TAKEOVER_COMMITTED" => MayCommit(e.old, e.new)

\* An event is appended only while what it was planned from still holds: a claim
\* that received a heartbeat is not declared stale, a takeover is committed once
\* and only while it is pending.  (append-ledger-event.py:132-138)
PlansStayCurrent ==
    [][\A p \in Planners :
        ver' # ver /\ plan[p].ready /\ ~plan'[p].ready => StillDue(plan[p].ev)]_vars
================================================================================
