----------------------------- MODULE AppendOnlyLog -----------------------------
(***************************************************************************)
(* What the coordination ledger promises its readers: one sequence of      *)
(* events that only grows, one event at a time, in which no event_uuid     *)
(* occurs twice and committed_at never moves backwards.  LedgerAppend, the *)
(* writers that fetch, append and push with a lease, implements it.        *)
(***************************************************************************)
EXTENDS Naturals, Sequences

CONSTANTS
    Uuids,          \* the identities an event may carry
    Times           \* the times it may be committed at

VARIABLE log

LogEvents == [uuid : Uuids, at : Times]

\* e can follow the events of l: validate_new_event of the replay verifier.
MayFollow(l, e) ==
    /\ \A k \in 1..Len(l) : l[k].uuid # e.uuid
    /\ \A k \in 1..Len(l) : l[k].at <= e.at

Init == log = <<>>

Next == \E e \in LogEvents : MayFollow(log, e) /\ log' = Append(log, e)

Spec == Init /\ [][Next]_log
================================================================================
