---------------------------- MODULE AlertBridge ----------------------------
(***************************************************************************)
(* alertmanager-bridge.py: the HTTP server that turns Alertmanager's       *)
(* webhooks into GitHub issues and pages the operators.  The server is     *)
(* single-threaded, so webhooks are handled one after the other; every     *)
(* webhook also starts a paging thread, and those run concurrently with    *)
(* the handler and take turns under one lock.                              *)
(*                                                                         *)
(* A behaviour follows one alert, hence one issue title.  Its kind says    *)
(* how it is labelled: crisis (severity critical, page=sms), critical,     *)
(* warning or synthetic (is_synthetic=true).  Issues are numbered in the   *)
(* order they are created; the search index of GitHub may lag behind them, *)
(* a gh call may fail with or without effect, an operator may close an     *)
(* issue, and the pod may restart.                                         *)
(***************************************************************************)
EXTENDS AcceptanceJob, Naturals, Sequences, FiniteSets, FiniteSetsExt

AlertKinds == {"crisis", "critical", "warning", "synthetic"}

CONSTANTS
  SmsCap, Hour, TokenLife,   \* SMS groups per hour; an hour, a Graph token's life
  \* Bounds: webhooks, those waiting in the socket's backlog, changes of the
  \* alert, failures and the clock's last tick.
  MaxHooks, MaxBacklog, MaxAlertChanges, MaxBridgeFaults, BridgeEnd

(* The cap comes from the environment; the times are lengths. *)
ASSUME BridgeAssumption == SmsCap \in Nat /\ Hour \in Nat /\ TokenLife \in Nat

NoHook == [n |-> 0, status |-> "none"]

(* clean: every gh call since the pod started was answered truthfully, and
   nobody else touched the issues. *)
BridgeInit ==
  /\ lane = "bridge"
  /\ \E k \in AlertKinds :
       env = [kind |-> k, firing |-> TRUE, changes |-> 0, hooks |-> 0, backlog |-> <<>>,
              clock |-> 0, issues |-> 0, open |-> {}, index |-> {}, recorded |-> {},
              faults |-> 0, clean |-> TRUE]
  /\ job = [pc |-> "idle", hook |-> NoHook, found |-> 0, commented |-> FALSE,
            acked |-> {}, logged |-> {}, last |-> "resolved",
            threads |-> {}, paging |-> 0, sentAt |-> <<>>, paged |-> <<>>, token |-> 0,
            verdict |-> "none"]

(* The labels process_alert and notify_group look at. *)
Synthetic == env.kind = "synthetic"
Crisis == env.kind = "crisis"
Severe == env.kind \in {"crisis", "critical"}

-----------------------------------------------------------------------------
(* Alertmanager, GitHub and the operators. *)

AlertChanges ==
  /\ Live("bridge") /\ env.changes < MaxAlertChanges
  /\ Step([env EXCEPT !.firing = ~@, !.changes = @ + 1], job)

(* A notification of the group, or its repetition: Alertmanager posts again
   when an answer does not come in time. *)
PostWebhook ==
  /\ Live("bridge") /\ env.hooks < MaxHooks /\ Len(env.backlog) < MaxBacklog
  /\ LET h == [n |-> env.hooks + 1, status |-> IF env.firing THEN "firing" ELSE "resolved"]
     IN  Step([env EXCEPT !.hooks = @ + 1, !.backlog = Append(@, h)], job)

IndexCatchesUp ==
  /\ Live("bridge") /\ env.index # env.open
  /\ Step([env EXCEPT !.index = env.open], job)

OperatorCloses ==
  /\ Live("bridge") /\ env.open # {} /\ env.faults < MaxBridgeFaults
  /\ \E i \in env.open :
       Step([env EXCEPT !.open = @ \ {i}, !.faults = @ + 1, !.clean = FALSE], job)

ClockTicks ==
  /\ Live("bridge") /\ Severe /\ env.clock < BridgeEnd
  /\ Step([env EXCEPT !.clock = @ + 1], job)

(* The pod restarts: the handler, the paging threads, the hourly counter and
   the undelivered log (an emptyDir) are gone; the answer never comes. *)
PodRestarts ==
  /\ Live("bridge") /\ env.faults < MaxBridgeFaults
  /\ Step([env EXCEPT !.backlog = <<>>, !.faults = @ + 1, !.clean = FALSE],
          [job EXCEPT !.pc = "idle", !.hook = NoHook, !.found = 0, !.commented = FALSE,
                      !.acked = {}, !.logged = {}, !.threads = {}, !.paging = 0,
                      !.sentAt = <<>>, !.paged = <<>>, !.token = 0])

-----------------------------------------------------------------------------
(* The handler. *)

(* The answer 200 to the webhook, whatever was delivered.  acked: the firing
   webhooks that got it. *)
Acknowledged(j) ==
  [j EXCEPT !.pc = "idle", !.last = j.hook.status, !.hook = NoHook, !.found = 0,
            !.commented = FALSE,
            !.acked = IF j.hook.status = "firing" THEN @ \cup {j.hook.n} ELSE @]

Faulty(e) == [e EXCEPT !.faults = @ + 1, !.clean = FALSE]

(* do_POST: the paging thread starts before the first gh call.  A synthetic
   alert is answered without any. *)
ReceiveWebhook ==
  /\ At("bridge", "idle") /\ env.backlog # <<>>
  /\ LET h == Head(env.backlog)
         j == [job EXCEPT !.hook = h, !.threads = @ \cup {h.n}, !.pc = "search"]
     IN  Step([env EXCEPT !.backlog = Tail(@)],
              IF Synthetic THEN Acknowledged(j) ELSE j)

(* gh_issue_search_open: the newest issue the index still lists as open, and
   none (0) both when there is none and when the call failed.  A resolved
   alert without an issue counts as delivered. *)
Searched(e, found) ==
  Step(e, IF job.hook.status = "resolved"
          THEN IF found = 0 THEN Acknowledged(job)
               ELSE [job EXCEPT !.pc = "comment", !.found = found]
          ELSE [job EXCEPT !.pc = IF found = 0 THEN "create" ELSE "comment", !.found = found])

SearchIssue ==
  /\ At("bridge", "search")
  /\ \/ Searched([env EXCEPT !.clean = @ /\ env.index = env.open],
                 IF env.index = {} THEN 0 ELSE Max(env.index))
     \/ env.faults < MaxBridgeFaults /\ Searched(Faulty(env), 0)

(* log_undelivered, then the answer. *)
Undelivered(j) == Acknowledged([j EXCEPT !.logged = @ \cup {j.hook.n}])

(* gh_issue_create. *)
IssueCreated == [env EXCEPT !.issues = @ + 1, !.open = @ \cup {env.issues + 1},
                       !.recorded = @ \cup {job.hook.n}]
CreateIssue ==
  /\ At("bridge", "create")
  /\ \/ Step(IssueCreated, Acknowledged(job))
     \/ env.faults < MaxBridgeFaults /\ Step(Faulty(env), Undelivered(job))
     \/ env.faults < MaxBridgeFaults /\ Step(Faulty(IssueCreated), Undelivered(job))

(* gh_issue_comment: the recurrence of a firing alert ends the handling, the
   note of a resolved one is followed by the close whatever it returned. *)
Noted == [env EXCEPT !.recorded = @ \cup {job.hook.n}]

(* Mutant: a recurrence that could not be noted is not logged. *)
CommentedQuietly(ok) == IF job.hook.status = "firing" THEN Acknowledged(job)
                        ELSE [job EXCEPT !.pc = "close", !.commented = ok]
Commented(ok) ==
  IF job.hook.status = "firing" THEN IF ok THEN Acknowledged(job) ELSE Undelivered(job)
  ELSE [job EXCEPT !.pc = "close", !.commented = ok]

CommentIssue ==
  /\ At("bridge", "comment")
  /\ \/ Step(Noted, Commented(TRUE))
     \/ env.faults < MaxBridgeFaults /\ Step(Faulty(env), Commented(FALSE))
     \/ env.faults < MaxBridgeFaults /\ Step(Faulty(Noted), Commented(FALSE))

(* gh_issue_close; a failed comment or a failed close is logged. *)
IssueShut == [env EXCEPT !.open = @ \ {job.found}]
CloseIssue ==
  /\ At("bridge", "close")
  /\ \/ Step(IssueShut, IF job.commented THEN Acknowledged(job) ELSE Undelivered(job))
     \/ env.faults < MaxBridgeFaults /\ Step(Faulty(env), Undelivered(job))
     \/ env.faults < MaxBridgeFaults /\ Step(Faulty(IssueShut), Undelivered(job))

-----------------------------------------------------------------------------
(* The paging threads (notify_group). *)

(* _sms_allowed: outdated entries are dropped from the front, up to the
   first one that is not. *)
KeptFrom(sent, limit) ==
  CHOOSE k \in 1..(Len(sent) + 1) :
    /\ \A i \in 1..(k - 1) : env.clock - sent[i] > limit
    /\ k <= Len(sent) => ~ (env.clock - sent[k] > limit)

(* Mutant: an entry of exactly an hour is dropped too. *)
SmsWindowShort(sent) == SubSeq(sent, KeptFrom(sent, Hour - 1), Len(sent))
SmsWindow(sent) == SubSeq(sent, KeptFrom(sent, Hour), Len(sent))

(* A thread gets the lock.  Without alerts left it ends without the lock; a
   crisis sends an SMS to every number unless the cap is reached, whatever
   the provider answers, and notes the time it looked at. *)
PageBySms ==
  /\ Live("bridge") /\ job.paging = 0
  /\ \E n \in job.threads :
       LET window == SmsWindow(job.sentAt)
           allowed == Len(window) < SmsCap
           j == [job EXCEPT !.threads = @ \ {n}]
       IN  IF Synthetic THEN Step(env, j)
           ELSE IF ~ Crisis THEN Step(env, [j EXCEPT !.paging = n])
           ELSE Step(env, [j EXCEPT !.paging = n,
                                    !.sentAt = IF allowed THEN Append(window, env.clock) ELSE window,
                                    !.paged = IF allowed THEN Append(@, env.clock) ELSE @])

(* _graph_token: the cached token is used until shortly before it expires. *)
TokenUsable == job.token # 0 /\ env.clock < job.token

(* send_email, for severity critical only, and the lock is released. *)
PageByEmail ==
  /\ Live("bridge") /\ job.paging # 0
  /\ LET j == [job EXCEPT !.paging = 0]
     IN  \/ Step(env, j)
         \/ /\ Severe /\ ~ TokenUsable
            /\ Step(env, [j EXCEPT !.token = env.clock + TokenLife])

BridgeNext ==
  \/ AlertChanges \/ PostWebhook \/ IndexCatchesUp \/ OperatorCloses \/ ClockTicks
  \/ PodRestarts \/ ReceiveWebhook \/ SearchIssue \/ CreateIssue \/ CommentIssue
  \/ CloseIssue \/ PageBySms \/ PageByEmail

-----------------------------------------------------------------------------
(***************************************************************************)
(* process_alert: a firing alert that was answered is on an issue or in    *)
(* the undelivered log, whichever gh call failed.  While every call is     *)
(* answered truthfully the title has exactly one open issue after a firing *)
(* webhook and none after a resolved one, however the webhooks repeat and  *)
(* queue.                                                                  *)
(***************************************************************************)
AlertOnRecord ==
  lane = "bridge" /\ ~ Synthetic =>
    /\ job.acked \subseteq env.recorded \cup job.logged
    /\ env.clean /\ job.pc = "idle" =>
         Cardinality(env.open) = IF job.last = "firing" THEN 1 ELSE 0

(***************************************************************************)
(* _sms_allowed under _NOTIFY_LOCK: however many threads wait, at most     *)
(* SmsCap groups are paged by SMS within an hour of one another.           *)
(***************************************************************************)
SmsCapHolds ==
  lane = "bridge" =>
    \A i \in 1..Len(job.paged) :
      i + SmsCap <= Len(job.paged) => job.paged[i + SmsCap] - job.paged[i] > Hour
=============================================================================
