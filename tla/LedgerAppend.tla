------------------------------ MODULE LedgerAppend ------------------------------
(***************************************************************************)
(* The write path of the coordination ledger (scripts/coordination).       *)
(*                                                                         *)
(* The ledger is a JSONL file on a git branch.  Every event carries the    *)
(* hash of the event before it, so a prefix hash stands for the whole      *)
(* prefix; the model uses the prefix itself.  A writer reads the prefix    *)
(* hash, posts a comment on the issue, fetches the branch, replays it,     *)
(* compares the prefix with the one it expects, appends one line in its    *)
(* work tree and pushes with a lease on the commit it fetched.             *)
(*                                                                         *)
(* Two kinds of process write: an operator's emit-ledger-event.sh, and     *)
(* retry-audit-debt.py, which turns the denials queued in a local file     *)
(* into DENY_RECORDED events and leaves a terminal marker for each.  The   *)
(* event_uuid of a denial is derived from its intent (uuid5), so the       *)
(* intent serves as the uuid here; other events draw a fresh one.          *)
(***************************************************************************)
EXTENDS Naturals, Sequences, FiniteSets

CONSTANTS
    Retriers,       \* processes of retry-audit-debt.py
    Emitters,       \* operators that call emit-ledger-event.sh
    Intents,        \* deny_event_intent_ids
    Fresh,          \* the uuid4s operators may draw (bounds their events)
    QueueLimit,     \* --limit of the retry
    Tolerance,      \* minutes a comment may lie from committed_at
    MaxQueue,       \* length to which the queue is followed
    MaxMinutes,     \* bound on the clock
    MaxCrashes      \* bound on crashes and lost answers

ASSUME LedgerConstants ==
    /\ QueueLimit \in Nat /\ Tolerance \in Nat
    /\ MaxQueue \in Nat /\ MaxMinutes \in Nat /\ MaxCrashes \in Nat
    /\ QueueLimit <= MaxQueue
    /\ Intents \cap Fresh = {} /\ Retriers \cap Emitters = {}

VARIABLES
    remote,     \* the events of the ledger branch
    queue,      \* coordination-audit-debt.jsonl
    proc,       \* the writers
    comments,   \* uuids for which a comment was posted
    acked,      \* uuids whose emission was reported as a success (history)
    minutes,
    crashes

appendVars == <<remote, queue, proc, comments, acked, minutes, crashes>>

Writers == Retriers \cup Emitters
Uuids == Intents \cup Fresh
None == [none |-> TRUE]
Times == 0..MaxMinutes

\* todo: intents still to emit; done: intents found in the ledger, whose
\* markers are still to be written.
Idle == [pc |-> "idle", at |-> 0, expect |-> <<>>, base |-> <<>>,
         uuid |-> None, todo |-> {}, done |-> {}]

Recorded(l) == {l[k].uuid : k \in 1..Len(l)}

\* The terminal markers of a queue, and its debts.
Terminal(q) == {q[k].intent : k \in {j \in 1..Len(q) : q[j].status = "terminal"}}
Debts(q) == {q[k].intent : k \in {j \in 1..Len(q) : q[j].status = "blocked_audit_debt"}}

\* load_queue reads no further than the first `limit' records, terminal
\* markers included.
Loaded(q) == SubSeq(q, 1, IF Len(q) < QueueLimit THEN Len(q) ELSE QueueLimit)

\* Nothing reads the queue past its first QueueLimit records, so lines past
\* MaxQueue are dropped.
Enqueue(q, r) == IF Len(q) < MaxQueue THEN Append(q, r) ELSE q

--------------------------------------------------------------------------------
\* validate_new_event: a uuid that is not in the ledger (an event cannot equal
\* an earlier one, whose previous_event_hash differs) and a committed_at that
\* does not move backwards.
ValidCandidate(l, e) ==
    /\ e.uuid \notin Recorded(l)
    /\ \A k \in 1..Len(l) : l[k].at <= e.at

AppendInit ==
    /\ remote = <<>>
    /\ queue = <<>>
    /\ proc = [w \in Writers |-> Idle]
    /\ comments = {}
    /\ acked = {}
    /\ minutes = 0
    /\ crashes = 0

AppendTick ==
    /\ minutes < MaxMinutes
    /\ minutes' = minutes + 1
    /\ UNCHANGED <<remote, queue, proc, comments, acked, crashes>>

\* record-deny of board-sync.sh.  Its check for a duplicate and its append are
\* two steps, so a racing caller may add a second record of an intent.
RecordDeny(i) ==
    /\ Len(queue) < MaxQueue
    /\ queue' = Append(queue, [status |-> "blocked_audit_debt", intent |-> i])
    /\ UNCHANGED <<remote, proc, comments, acked, minutes, crashes>>

\* load_queue, terminal_ids and pending_records; committed_at is the time at
\* which the arguments are parsed, for every event of the run.
LoadQueue(r) ==
    LET seen == Loaded(queue) IN
    /\ proc[r].pc = "idle"
    /\ seen # <<>>
    /\ proc' = [proc EXCEPT ![r] = [Idle EXCEPT
            !.pc = "checkout", !.at = minutes, !.todo = Debts(seen) \ Terminal(seen)]]
    /\ UNCHANGED <<remote, queue, comments, acked, minutes, crashes>>

\* checkout_ledger, and main's split of the pending records into those whose
\* DENY_RECORDED is in the cloned ledger and those to emit.
CheckoutLedger(r) ==
    /\ proc[r].pc = "checkout"
    /\ proc' = [proc EXCEPT ![r].pc = "mark", ![r].expect = remote,
                            ![r].done = @ \cup (proc[r].todo \cap Recorded(remote)),
                            ![r].todo = @ \ Recorded(remote)]
    /\ UNCHANGED <<remote, queue, comments, acked, minutes, crashes>>

\* append_terminal_marker(status="already_in_ledger"), one record a step.
MarkAlready(r) ==
    /\ proc[r].pc = "mark"
    /\ IF proc[r].done = {}
       THEN /\ proc' = [proc EXCEPT ![r].pc = "next"]
            /\ UNCHANGED queue
       ELSE \E i \in proc[r].done :
            /\ queue' = Enqueue(queue, [status |-> "terminal", intent |-> i])
            /\ proc' = [proc EXCEPT ![r].done = @ \ {i}]
    /\ UNCHANGED <<remote, comments, acked, minutes, crashes>>

\* Mutant: the marker is written before the emission, when the intent is taken.
MarkBeforeEmit(r) ==
    /\ proc[r].pc = "next"
    /\ IF proc[r].todo = {}
       THEN /\ proc' = [proc EXCEPT ![r] = Idle]
            /\ UNCHANGED queue
       ELSE \E i \in proc[r].todo :
            /\ proc' = [proc EXCEPT ![r].pc = "post", ![r].uuid = i, ![r].todo = @ \ {i}]
            /\ queue' = Enqueue(queue, [status |-> "terminal", intent |-> i])
    /\ UNCHANGED <<remote, comments, acked, minutes, crashes>>

\* The loop over the plan: the next intent goes to emit-ledger-event.sh, or
\* the run ends.
NextIntent(r) ==
    /\ proc[r].pc = "next"
    /\ IF proc[r].todo = {}
       THEN proc' = [proc EXCEPT ![r] = Idle]
       ELSE \E i \in proc[r].todo :
            proc' = [proc EXCEPT ![r].pc = "post", ![r].uuid = i, ![r].todo = @ \ {i}]
    /\ UNCHANGED <<remote, queue, comments, acked, minutes, crashes>>

\* An operator reads the prefix hash and calls emit-ledger-event.sh with it.
StartEmit(e) ==
    /\ proc[e].pc = "idle"
    /\ \E u \in Fresh :
        /\ \A k \in 1..Len(remote) : remote[k].uuid # u
        /\ u \notin comments
        /\ \A w \in Writers : proc[w].uuid # u
        /\ proc' = [proc EXCEPT ![e] = [Idle EXCEPT
                !.pc = "post", !.at = minutes, !.expect = remote, !.uuid = u]]
    /\ UNCHANGED <<remote, queue, comments, acked, minutes, crashes>>

\* materialize-ledger-comment.py post: the comment is created, fetched and
\* verified; outside the tolerance the emission ends with the comment left as
\* an orphan.
PostComment(w) ==
    /\ proc[w].pc = "post"
    /\ comments' = comments \cup {proc[w].uuid}
    /\ proc' = [proc EXCEPT ![w] = IF minutes <= proc[w].at + Tolerance
                                   THEN [@ EXCEPT !.pc = "append"] ELSE Idle]
    /\ UNCHANGED <<remote, queue, acked, minutes, crashes>>

\* validate_expected_previous
CasHolds(expect, current) == expect = current

\* append-ledger-branch.sh up to the commit, with append-ledger-event.py: fetch,
\* compare the prefix with the expected one, validate the candidate, append to
\* the work tree.  A refusal ends the run; the comment stays an orphan.
AppendLocal(w) ==
    LET e == [uuid |-> proc[w].uuid, at |-> proc[w].at] IN
    /\ proc[w].pc = "append"
    /\ proc' = [proc EXCEPT ![w] =
            IF CasHolds(proc[w].expect, remote) /\ ValidCandidate(remote, e)
            THEN [@ EXCEPT !.pc = "push", !.base = remote] ELSE Idle]
    /\ UNCHANGED <<remote, queue, comments, acked, minutes, crashes>>

\* Mutant: a plain forced push.
NoLease(base, current) == TRUE

\* git push --force-with-lease: the branch must still be at the fetched commit.
LeaseHolds(base, current) == base = current

\* The push and what follows it.  A retry takes the returned prefix hash as the
\* next expectation and goes on to write its marker; an operator is done.
Push(w) ==
    LET new == Append(proc[w].base, [uuid |-> proc[w].uuid, at |-> proc[w].at]) IN
    /\ proc[w].pc = "push"
    /\ IF LeaseHolds(proc[w].base, remote)
       THEN /\ remote' = new
            /\ acked' = acked \cup {proc[w].uuid}
            /\ proc' = [proc EXCEPT ![w] = IF w \in Retriers
                            THEN [@ EXCEPT !.pc = "marker", !.expect = new] ELSE Idle]
       ELSE /\ proc' = [proc EXCEPT ![w] = Idle]
            /\ UNCHANGED <<remote, acked>>
    /\ UNCHANGED <<queue, comments, minutes, crashes>>

\* append_terminal_marker(status="ledger_emitted")
MarkEmitted(r) ==
    /\ proc[r].pc = "marker"
    /\ queue' = Enqueue(queue, [status |-> "terminal", intent |-> proc[r].uuid])
    /\ proc' = [proc EXCEPT ![r].pc = "next", ![r].uuid = None]
    /\ UNCHANGED <<remote, comments, acked, minutes, crashes>>

\* A process is killed, or a call fails, at any point.
Crash(w) ==
    /\ crashes < MaxCrashes
    /\ proc[w].pc # "idle"
    /\ crashes' = crashes + 1
    /\ proc' = [proc EXCEPT ![w] = Idle]
    /\ UNCHANGED <<remote, queue, comments, acked, minutes>>

\* The push reached the remote and its answer was lost: the event is in the
\* ledger and the writer reports a failure.
PushAnswerLost(w) ==
    /\ crashes < MaxCrashes
    /\ proc[w].pc = "push"
    /\ LeaseHolds(proc[w].base, remote)
    /\ remote' = Append(proc[w].base, [uuid |-> proc[w].uuid, at |-> proc[w].at])
    /\ proc' = [proc EXCEPT ![w] = Idle]
    /\ crashes' = crashes + 1
    /\ UNCHANGED <<queue, comments, acked, minutes>>

Emission(w) == PostComment(w) \/ AppendLocal(w) \/ Push(w)

RetryStep(r) ==
    \/ LoadQueue(r) \/ CheckoutLedger(r) \/ MarkAlready(r)
    \/ NextIntent(r) \/ MarkEmitted(r)

AppendNext ==
    \/ AppendTick
    \/ \E i \in Intents : RecordDeny(i)
    \/ \E r \in Retriers : RetryStep(r)
    \/ \E e \in Emitters : StartEmit(e)
    \/ \E w \in Writers : Emission(w) \/ Crash(w) \/ PushAnswerLost(w)

AppendSpec == AppendInit /\ [][AppendNext]_appendVars

--------------------------------------------------------------------------------
Log == INSTANCE AppendOnlyLog WITH log <- remote

\* Concurrent writers, crashes and lost answers leave one linear ledger: the
\* branch implements the append-only log, so no event is overwritten by a
\* racing push, no intent is recorded twice and time never moves backwards.
RefinesLog == Log!Spec

\* A denial that carries a terminal marker, and every emission that was
\* reported as a success, is in the ledger: the debt is never written off
\* unrecorded.  (retry-audit-debt.py:314-451)
AckedIsRecorded == Terminal(queue) \cup acked \subseteq Recorded(remote)
================================================================================
