-------------------------- MODULE DeliveryPoller ---------------------------
(***************************************************************************)
(* delivery_poller.py with the poller state of ledger.py: the thread of    *)
(* the policy service that asks GitHub for webhook deliveries that failed  *)
(* and enforces them itself.  The high-water mark is durable; the health   *)
(* it reports is not.  A delivery is logged by GitHub when it is made and  *)
(* may be listed up to Overlap later; a webhook that got through is        *)
(* decided by the service's own worker (PolicyService).                    *)
(***************************************************************************)
EXTENDS AcceptanceJob, Naturals, Sequences, FiniteSets, FiniteSetsExt

CONSTANTS
  MaxDeliveries, PollerEnd, MaxOutages,   \* bounds: deliveries, clock, failures
  MaxAgeTicks, Overlap, StaleAfter,       \* max_delivery_age, overlap and stale_after in ticks
  PageCap                                 \* deliveries that fit in MAX_PAGES pages

ASSUME PollerAssumption == MaxAgeTicks \in Nat /\ Overlap \in Nat

PolledRuns == {1, 2}

(* failed: the webhook was not answered with 2xx or 3xx.  Every delivery is a
   deployment_protection_rule request of this installation and repository
   (another event is passed over like one that did not fail); poison is one
   that does not parse, whatever run it names. *)

PollerInit ==
  /\ lane = "poller"
  /\ env = [clock |-> 0, ds |-> <<>>, decided |-> {}, outages |-> 0]
  /\ job = [pc |-> "idle", now |-> 0, todo |-> {}, due |-> {}, hw |-> <<0, 0>>,
            healthy |-> FALSE, lastOk |-> 0, caught |-> {}, verdict |-> "none"]

Target(d) == env.ds[d].failed
ListedNow == {d \in DOMAIN env.ds : env.ds[d].listed}

-----------------------------------------------------------------------------
(* GitHub, the worker and time. *)

NewDelivery ==
  /\ Live("poller") /\ Len(env.ds) < MaxDeliveries
  /\ \E r \in PolledRuns, failed, listed \in BOOLEAN, k \in {"request", "poison"} :
       /\ r = 2 => \E d \in DOMAIN env.ds : env.ds[d].run = 1
       /\ k = "poison" => failed /\ r = 1
       /\ ~ failed => listed
       /\ Step([env EXCEPT !.ds = Append(@, [at |-> env.clock, run |-> r, failed |-> failed,
                                             kind |-> k, listed |-> listed])], job)

DeliveryListed ==
  /\ Live("poller")
  /\ \E d \in DOMAIN env.ds :
       ~ env.ds[d].listed /\ Step([env EXCEPT !.ds[d].listed = TRUE], job)

(* The worker decides a run whose webhook got through. *)
WorkerDecides ==
  /\ Live("poller")
  /\ \E d \in DOMAIN env.ds :
       /\ ~ env.ds[d].failed /\ env.ds[d].run \notin env.decided
       /\ Step([env EXCEPT !.decided = @ \cup {env.ds[d].run}], job)

(* A delivery is listed before it is older than the overlap. *)
PollerTick ==
  /\ Live("poller") /\ env.clock < PollerEnd
  /\ \A d \in DOMAIN env.ds : env.ds[d].listed \/ env.ds[d].at + Overlap > env.clock
  /\ Step([env EXCEPT !.clock = @ + 1], job)

-----------------------------------------------------------------------------
(* The poller. *)

CycleOver(j) == [j EXCEPT !.pc = "idle", !.now = 0, !.todo = {}, !.due = {}]

Unhealthy(j) == CycleOver([j EXCEPT !.healthy = FALSE, !.lastOk = 0, !.caught = {}])

(* Mutant: the scan starts at the high-water mark itself. *)
CutoffNoOverlap(now) == Max({IF now > MaxAgeTicks THEN now - MaxAgeTicks ELSE 0, job.hw[1]})
Cutoff(now) ==
  Max({IF now > MaxAgeTicks THEN now - MaxAgeTicks ELSE 0,
       IF job.hw[1] > Overlap THEN job.hw[1] - Overlap ELSE 0})

InWindow(now) == {d \in ListedNow : env.ds[d].at >= Cutoff(now)}

(* _collect reads newest first, page by page, until a page holds an older
   delivery; when MAX_PAGES pages held none and there are more, it rejects. *)
Truncated(now) ==
  /\ Cardinality(ListedNow) > PageCap
  /\ Cardinality(InWindow(now)) >= PageCap

(* poll_once: what was listed is taken at the start; the failed requests in
   the window are worked off oldest first, the order of their numbers. *)
Candidates(now) == {d \in InWindow(now) : Target(d)}

(* Every failed request a cycle could see that max_delivery_age spares. *)
DueDeliveries(now) == {d \in ListedNow : Target(d) /\ env.ds[d].at + MaxAgeTicks >= now}

(* An HTTP error, a rate limit or a rejected page. *)
PollFails ==
  /\ lane = "poller" /\ job.pc # "idle" /\ env.outages < MaxOutages
  /\ Step([env EXCEPT !.outages = @ + 1], Unhealthy(job))

BeginPoll ==
  /\ At("poller", "idle") /\ env.ds # <<>>
  /\ LET now == env.clock
     IN  IF Truncated(now) THEN job.healthy /\ Step(env, Unhealthy(job))
         ELSE Step(env, [job EXCEPT !.pc = "work", !.now = now, !.todo = Candidates(now),
                                    !.due = DueDeliveries(now)])

Oldest == Min(job.todo)

(* The detail is read and parsed, then process_polled: TRUE when the callback
   of the run has succeeded already or succeeds now. *)
Decide ==
  /\ At("poller", "work") /\ job.todo # {}
  /\ LET d == env.ds[Oldest]
     IN  /\ d.kind = "request"
         /\ Step([env EXCEPT !.decided = @ \cup {d.run}], [job EXCEPT !.pc = "advance"])

(* _cross_check_detail, the parser or process_polled rejects: the cycle ends
   with the deliveries behind this one untouched. *)
DecideFails ==
  /\ At("poller", "work") /\ job.todo # {}
  /\ LET d == env.ds[Oldest]
     IN  /\ d.kind = "poison" \/ d.run \notin env.decided
         /\ Step(env, Unhealthy(job))

(* advance_poller_after_callback: only over a succeeded callback, never back. *)
Later(a, b) == a[1] > b[1] \/ (a[1] = b[1] /\ a[2] >= b[2])
AdvanceHighWater ==
  /\ At("poller", "advance")
  /\ LET d == Oldest  mark == <<env.ds[d].at, d>>
     IN  Step(env, [job EXCEPT !.pc = "work", !.todo = @ \ {d},
                               !.hw = IF Later(mark, @) THEN mark ELSE @])

(* mark_poller_success and the health of _loop.  caught: what was due. *)
FinishPoll ==
  /\ At("poller", "work") /\ job.todo = {}
  /\ Step(env, CycleOver([job EXCEPT !.healthy = TRUE, !.lastOk = env.clock,
                                     !.caught = job.due]))

(* The service restarts; the ledger keeps the high-water mark. *)
PollerRestarts ==
  /\ Live("poller") /\ env.outages < MaxOutages
  /\ Step([env EXCEPT !.outages = @ + 1],
          Unhealthy(job))

Ready == job.healthy /\ env.clock - job.lastOk <= StaleAfter

PollerNext ==
  \/ NewDelivery \/ DeliveryListed \/ WorkerDecides \/ PollerTick \/ PollFails \/ BeginPoll
  \/ Decide \/ DecideFails \/ AdvanceHighWater \/ FinishPoll \/ PollerRestarts

-----------------------------------------------------------------------------
(***************************************************************************)
(* ready(): while the poller reports itself ready, every failed request    *)
(* its last good cycle could see is decided, unless it had outlived        *)
(* max_delivery_age: neither the high-water mark, nor an unparsable        *)
(* delivery, nor a restart lets one slip by.                               *)
(***************************************************************************)
ReadyMeansCaughtUp ==
  lane = "poller" /\ Ready =>
    \A d \in job.caught : env.ds[d].run \in env.decided
=============================================================================
