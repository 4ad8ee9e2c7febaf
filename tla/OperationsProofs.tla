-------------------------- MODULE OperationsProofs --------------------------
(***************************************************************************)
(* The operational services and gates of MC_Acceptance for every value of  *)
(* the constants: the alert bridge, the delivery poller, the SLA monitor,  *)
(* the host ceremonies, the ETL reconcile gate, the transit bootstrap and  *)
(* the promotion ledger.                                                   *)
(*                                                                         *)
(* Each lane's invariant relates what the service remembers to what        *)
(* happened: the bridge's counter is the tail of its pages, the poller's   *)
(* high-water mark has nothing undecided behind it, a scan holds every     *)
(* overdue fix it passed, a host script has taken its steps in order.      *)
(***************************************************************************)
EXTENDS AcceptanceProofs, NaturalsInduction, WellFoundedInduction,
        FiniteSetTheorems

-----------------------------------------------------------------------------
(* Sets of natural numbers. *)

\* A set of naturals that is not empty has a least member.
LEMMA LeastMember ==
  ASSUME NEW D, D \subseteq Nat, D # {}
  PROVE  \E n \in D : \A m \in D : n <= m
<1> DEFINE below == {ss \in Nat \X Nat : ss[1] < ss[2]}
<1>1. IsWellFoundedOn(below, Nat)
  BY NatLessThanWellFounded, Zenon DEF OpToRel
<1>2. \A k, m \in Nat : k < m => <<k, m>> \in below
  OBVIOUS
<1> HIDE DEF below
<1>3. PICK n \in D : \A m \in D : ~(<<m, n>> \in below)
  BY <1>1, WFMin
<1>4. \A m \in D : m \in Nat /\ n \in Nat /\ ~(m < n)
  BY <1>2, <1>3
<1> QED BY <1>3, <1>4

\* A set of naturals that is bounded and not empty has a maximum.
LEMMA MaxMember ==
  ASSUME NEW n \in Nat, NEW D, D \subseteq 0..n, D # {}
  PROVE  Max(D) \in D /\ \A m \in D : m <= Max(D)
<1> DEFINE C == {k \in Nat : \E m \in D : k = n - m}
<1>1. C # {} /\ C \subseteq Nat
  <2>1. PICK m \in D : TRUE
    OBVIOUS
  <2>2. n - m \in Nat
    BY <2>1
  <2> QED
    BY <2>1, <2>2
<1>2. PICK k \in C : \A l \in C : k <= l
  BY <1>1, LeastMember
<1>3. PICK x \in D : k = n - x
  BY <1>2
<1>4. \A m \in D : m <= x
  <2> TAKE m \in D
  <2>1. n - m \in C
    OBVIOUS
  <2> QED
    BY <2>1, <1>2, <1>3
<1> QED
  BY <1>3, <1>4 DEF Max

-----------------------------------------------------------------------------
(* AlertBridge: the pages by SMS. *)

(* sent is the end of paged, and what it no longer holds is more than an hour
   old. *)
IsTail(sent, paged, clock) ==
  /\ Len(sent) <= Len(paged)
  /\ \A i \in 1..Len(sent) : sent[i] = paged[Len(paged) - Len(sent) + i]
  /\ \A i \in 1..(Len(paged) - Len(sent)) : clock - paged[i] > Hour
Spaced(paged) ==
  \A i \in 1..Len(paged) : i + SmsCap <= Len(paged) => paged[i + SmsCap] - paged[i] > Hour

\* The first entry that is not outdated exists, if only behind the last one.
LEMMA KeptFromIs ==
  ASSUME env.clock \in Nat, NEW sent \in Seq(Nat)
  PROVE  /\ KeptFrom(sent, Hour) \in 1..(Len(sent) + 1)
         /\ \A i \in 1..(KeptFrom(sent, Hour) - 1) : env.clock - sent[i] > Hour
<1> DEFINE D == {k \in 1..(Len(sent) + 1) : k <= Len(sent) => ~ (env.clock - sent[k] > Hour)}
<1>1. Len(sent) \in Nat
  OBVIOUS
<1>2. Len(sent) + 1 \in D /\ D \subseteq Nat
  BY <1>1
<1>3. PICK k \in D : \A m \in D : k <= m
  BY <1>2, LeastMember
<1>4. \A i \in 1..(k - 1) : env.clock - sent[i] > Hour
  BY <1>1, <1>3
<1> QED
  BY <1>3, <1>4 DEF KeptFrom

\* Dropping outdated entries from the front of the counter leaves it a tail.
LEMMA WindowIsTail ==
  ASSUME env.clock \in Nat, NEW sent \in Seq(Nat), NEW paged \in Seq(Nat), IsTail(sent, paged, env.clock)
  PROVE  SmsWindow(sent) \in Seq(Nat) /\ IsTail(SmsWindow(sent), paged, env.clock)
<1>1. PICK m \in Nat, n \in Nat : m = Len(sent) /\ n = Len(paged) /\ m <= n
  BY DEF IsTail
<1>2. PICK k \in 1..(m + 1) :
        k = KeptFrom(sent, Hour) /\ \A i \in 1..(k - 1) : env.clock - sent[i] > Hour
  BY <1>1, KeptFromIs
<1>3. PICK window : window = SubSeq(sent, k, m)
  OBVIOUS
<1>w. SmsWindow(sent) = window
  BY <1>1, <1>2, <1>3 DEF SmsWindow
<1>4. \A i \in k..m : sent[i] \in Nat
  BY <1>1, <1>2
<1>5. window \in Seq(Nat) /\ Len(window) = m - k + 1
  BY <1>1, <1>2, <1>3, <1>4, SubSeqProperties
<1>a. k \in Int /\ 1 <= k /\ k <= m + 1
  OBVIOUS
<1>6. ASSUME NEW i \in 1..(m - k + 1)
      PROVE  window[i] = sent[k + i - 1]
  <2>1. i \in Int /\ 1 <= i /\ i <= m - k + 1 /\ k \in Int /\ m \in Int
    BY <1>a
  <2> QED
    BY <2>1, <1>1, <1>3, <1>a
<1>7. ASSUME NEW i \in 1..(n - (m - k + 1))
      PROVE  env.clock - paged[i] > Hour
  <2>1. CASE i <= n - m
    BY <2>1, <1>1, <1>2 DEF IsTail
  <2>2. CASE i > n - m
    <3>1. PICK l \in 1..(k - 1) : i = n - m + l
      <4>1. i \in Int /\ i <= n - m + k - 1
        BY <1>a
      <4>2. i - (n - m) \in 1..(k - 1) /\ i = n - m + (i - (n - m))
        BY <4>1, <2>2, <1>a
      <4> QED
        BY <4>2
    <3>2. l \in 1..m
      BY <3>1, <1>1, <1>2
    <3>3. sent[l] = paged[i]
      BY <3>1, <3>2, <1>1 DEF IsTail
    <3> QED
      BY <3>1, <3>3, <1>2
  <2> QED
    BY <2>1, <2>2, <1>1, <1>2
<1>8. ASSUME NEW i \in 1..(m - k + 1)
      PROVE  window[i] = paged[n - (m - k + 1) + i]
  <2>0. i \in Int /\ 1 <= i /\ i <= m - k + 1
    BY <1>a
  <2>1. k + i - 1 \in 1..m /\ n - m + (k + i - 1) = n - (m - k + 1) + i
    BY <2>0, <1>a
  <2>2. sent[k + i - 1] = paged[n - m + (k + i - 1)]
    BY <2>1, <1>1 DEF IsTail
  <2> QED
    BY <2>1, <2>2, <1>6
<1>9. m - k + 1 <= n
  BY <1>1, <1>2
<1> QED
  BY <1>1, <1>w, <1>5, <1>7, <1>8, <1>9 DEF IsTail

\* A page while the counter is below the cap: SmsCap pages back is outdated.
LEMMA PagedStaysSpaced ==
  ASSUME NEW sent \in Seq(Nat), NEW paged \in Seq(Nat), NEW clock \in Nat,
         IsTail(sent, paged, clock), Spaced(paged), Len(sent) < SmsCap
  PROVE  /\ Append(sent, clock) \in Seq(Nat) /\ Append(paged, clock) \in Seq(Nat)
         /\ IsTail(Append(sent, clock), Append(paged, clock), clock)
         /\ Spaced(Append(paged, clock))
<1>1. PICK m \in Nat, n \in Nat : m = Len(sent) /\ n = Len(paged) /\ m <= n /\ m < SmsCap
  BY DEF IsTail
<1>2. PICK s \in Seq(Nat), p \in Seq(Nat) : s = Append(sent, clock) /\ p = Append(paged, clock)
  BY AppendProperties
<1>3. /\ Len(s) = m + 1 /\ Len(p) = n + 1
      /\ \A i \in 1..m : s[i] = sent[i]
      /\ \A i \in 1..n : p[i] = paged[i]
      /\ s[m + 1] = clock /\ p[n + 1] = clock
  BY <1>1, <1>2, AppendProperties
<1>4. ASSUME NEW i \in 1..(m + 1)
      PROVE  s[i] = p[(n + 1) - (m + 1) + i]
  <2>1. CASE i = m + 1
    BY <2>1, <1>1, <1>3
  <2>2. CASE i \in 1..m
    <3>1. (n + 1) - (m + 1) + i = n - m + i /\ n - m + i \in 1..n
      BY <2>2, <1>1
    <3>2. sent[i] = paged[n - m + i]
      BY <2>2, <1>1 DEF IsTail
    <3> QED
      BY <2>2, <3>1, <3>2, <1>3
  <2>3. i = m + 1 \/ i \in 1..m
    BY <1>1
  <2> QED
    BY <2>1, <2>2, <2>3
<1>5. ASSUME NEW i \in 1..((n + 1) - (m + 1))
      PROVE  clock - p[i] > Hour
  <2>1. i \in 1..(n - m) /\ i \in 1..n
    BY <1>1
  <2> QED
    BY <2>1, <1>1, <1>3 DEF IsTail
<1>6. ASSUME NEW i \in 1..(n + 1), i + SmsCap <= n + 1
      PROVE  p[i + SmsCap] - p[i] > Hour
  <2>1. CASE i + SmsCap <= n
    <3>1. i \in 1..n /\ i + SmsCap \in 1..n
      BY <2>1, <1>1, BridgeAssumption
    <3>2. paged[i + SmsCap] - paged[i] > Hour
      BY <3>1, <1>1 DEF Spaced
    <3> QED
      BY <3>1, <3>2, <1>3
  <2>2. CASE i + SmsCap = n + 1
    <3>1. i \in 1..((n + 1) - (m + 1))
      BY <2>2, <1>1, BridgeAssumption
    <3> QED
      BY <3>1, <2>2, <1>3, <1>5
  <2>3. i + SmsCap <= n \/ i + SmsCap = n + 1
    BY <1>6, BridgeAssumption
  <2> QED
    BY <2>1, <2>2, <2>3
<1>7. IsTail(s, p, clock)
  BY <1>1, <1>3, <1>4, <1>5 DEF IsTail
<1>8. Spaced(p)
  BY <1>3, <1>6 DEF Spaced
<1> QED
  BY <1>2, <1>7, <1>8

-----------------------------------------------------------------------------
(* AlertBridge: the issues and the webhooks. *)

Hooks == [n : Nat, status : {"firing", "resolved"}]
HookOrNone == Hooks \cup {NoHook}

BridgeEnv ==
  [kind : AlertKinds, firing : BOOLEAN, changes : Nat, hooks : Nat, backlog : Seq(Hooks),
   clock : Nat, issues : Nat, open : SUBSET Nat, index : SUBSET Nat, recorded : SUBSET Nat,
   faults : Nat, clean : BOOLEAN]
BridgeJob ==
  [pc : {"idle", "search", "create", "comment", "close"}, hook : HookOrNone, found : Nat,
   commented : BOOLEAN, acked : SUBSET Nat, logged : SUBSET Nat, last : {"firing", "resolved"},
   threads : SUBSET Nat, paging : Nat, sentAt : Seq(Nat), paged : Seq(Nat), token : Nat,
   verdict : {"none"}]

BridgeTypes ==
  /\ env \in BridgeEnv /\ job \in BridgeJob
  /\ env.open \subseteq 1..env.issues /\ env.index \subseteq 1..env.issues

(* The handler holds a webhook of the kind its step is for. *)
HookInHand ==
  /\ job.pc # "idle" => job.hook \in Hooks
  /\ job.pc = "create" => job.hook.status = "firing"
  /\ job.pc = "close" => job.hook.status = "resolved"

(* Before the webhook in hand is answered, nothing of it is on the issues. *)
IssuesFollow ==
  env.clean /\ env.kind # "synthetic" =>
    /\ (env.open = {}) <=> (job.last = "resolved")
    /\ env.open # {} => \E i \in env.open : env.open = {i}
    /\ job.pc = "create" => env.open = {}
    /\ job.pc \in {"comment", "close"} => env.open = {job.found}

AckedOnRecord == env.kind # "synthetic" => job.acked \subseteq env.recorded \cup job.logged

(* The counter of _sms_allowed is the end of what was paged. *)
CounterIsTail == IsTail(job.sentAt, job.paged, env.clock)
SmsSpaced == Spaced(job.paged)

BridgeInv ==
  BridgeTypes /\ HookInHand /\ IssuesFollow /\ AckedOnRecord /\ CounterIsTail /\ SmsSpaced

(* A bridge that received no webhook satisfies the invariant. *)
LEMMA BridgeStart == BridgeInit => BridgeInv
<1> SUFFICES ASSUME BridgeInit PROVE BridgeInv
  OBVIOUS
<1>1. PICK k \in AlertKinds :
       env = [kind |-> k, firing |-> TRUE, changes |-> 0, hooks |-> 0, backlog |-> <<>>,
              clock |-> 0, issues |-> 0, open |-> {}, index |-> {}, recorded |-> {},
              faults |-> 0, clean |-> TRUE]
  BY DEF BridgeInit
<1>2. job = [pc |-> "idle", hook |-> NoHook, found |-> 0, commented |-> FALSE,
            acked |-> {}, logged |-> {}, last |-> "resolved",
            threads |-> {}, paging |-> 0, sentAt |-> <<>>, paged |-> <<>>, token |-> 0,
            verdict |-> "none"]
  BY DEF BridgeInit
<1>3. env \in BridgeEnv
  BY <1>1 DEF BridgeEnv
<1>4. job \in BridgeJob
  BY <1>2 DEF BridgeJob, HookOrNone
<1> QED
  BY <1>1, <1>2, <1>3, <1>4, BridgeAssumption DEF BridgeInv, BridgeTypes, HookInHand, IssuesFollow, AckedOnRecord,
     CounterIsTail, IsTail, SmsSpaced, Spaced

\* The paging part of the invariant looks at nothing but what was paged, the
\* counter and the clock, which never goes back.
LEMMA SmsKept ==
  ASSUME BridgeTypes, CounterIsTail, SmsSpaced, job'.paged = job.paged,
         job'.sentAt = job.sentAt, env'.clock \in Nat, env'.clock >= env.clock
  PROVE  CounterIsTail' /\ SmsSpaced'
<1>1. job.paged \in Seq(Nat) /\ env.clock \in Nat /\ job.sentAt \in Seq(Nat)
  BY DEF BridgeTypes, BridgeEnv, BridgeJob
<1>2. PICK paged \in Seq(Nat), sent \in Seq(Nat), clock \in Nat, later \in Nat :
        paged = job.paged /\ sent = job.sentAt /\ clock = env.clock /\ later = env'.clock
  BY <1>1
<1>3. IsTail(sent, paged, later)
  <2>1. IsTail(sent, paged, clock) /\ later >= clock
    BY <1>2 DEF CounterIsTail
  <2>2. \A i \in 1..(Len(paged) - Len(sent)) : i \in 1..Len(paged) /\ paged[i] \in Nat
    BY <2>1 DEF IsTail
  <2> QED
    BY <2>1, <2>2, BridgeAssumption DEF IsTail
<1> QED
  BY <1>2, <1>3 DEF CounterIsTail, SmsSpaced

\* The answer to a webhook leaves the log, the counter and the pages alone.
LEMMA AcknowledgedKeeps ==
  ASSUME NEW j \in BridgeJob, j.hook \in Hooks, NEW q, q = Acknowledged(j)
  PROVE  /\ q \in BridgeJob
         /\ q.pc = "idle" /\ q.last = j.hook.status /\ q.logged = j.logged
         /\ q.sentAt = j.sentAt /\ q.paged = j.paged
         /\ q.acked = IF j.hook.status = "firing" THEN j.acked \cup {j.hook.n} ELSE j.acked
<1>1. PICK acked \in SUBSET Nat :
        acked = IF j.hook.status = "firing" THEN j.acked \cup {j.hook.n} ELSE j.acked
  BY DEF BridgeJob, Hooks
<1>2. j.hook.status \in {"firing", "resolved"} /\ NoHook \in HookOrNone /\ 0 \in Nat
  BY DEF Hooks, HookOrNone
<1>3. q = [j EXCEPT !.pc = "idle", !.last = j.hook.status, !.hook = NoHook, !.found = 0,
                    !.commented = FALSE, !.acked = acked]
  BY <1>1 DEF Acknowledged, BridgeJob
<1>4. q \in BridgeJob
  BY <1>1, <1>2, <1>3, Zenon DEF BridgeJob
<1>5. /\ q.pc = "idle" /\ q.last = j.hook.status /\ q.logged = j.logged
      /\ q.sentAt = j.sentAt /\ q.paged = j.paged /\ q.acked = acked
  BY <1>3 DEF BridgeJob
<1> QED
  BY <1>1, <1>4, <1>5

\* An undelivered webhook is in the log, and answered.
LEMMA UndeliveredKeeps ==
  ASSUME NEW j \in BridgeJob, j.hook \in Hooks, NEW q, q = Undelivered(j)
  PROVE  /\ q \in BridgeJob
         /\ q.pc = "idle" /\ q.last = j.hook.status /\ q.logged = j.logged \cup {j.hook.n}
         /\ q.sentAt = j.sentAt /\ q.paged = j.paged
         /\ q.acked = IF j.hook.status = "firing" THEN j.acked \cup {j.hook.n} ELSE j.acked
<1>1. PICK k : k = [j EXCEPT !.logged = @ \cup {j.hook.n}]
  OBVIOUS
<1>2. j.logged \cup {j.hook.n} \in SUBSET Nat
  BY DEF BridgeJob, Hooks
<1>3. k \in BridgeJob
  BY <1>1, <1>2, Zenon DEF BridgeJob
<1>4. /\ k.hook = j.hook /\ k.logged = j.logged \cup {j.hook.n}
      /\ k.sentAt = j.sentAt /\ k.paged = j.paged /\ k.acked = j.acked
  BY <1>1 DEF BridgeJob
<1>5. q = Acknowledged(k)
  BY <1>1 DEF Undelivered
<1> QED
  BY <1>3, <1>4, <1>5, AcknowledgedKeeps

\* A failed call counts and ends the truthfulness; what it did is kept.
LEMMA FaultyKeeps ==
  ASSUME NEW e \in BridgeEnv, NEW q, q = Faulty(e)
  PROVE  /\ q \in BridgeEnv /\ ~ q.clean
         /\ q.kind = e.kind /\ q.clock = e.clock /\ q.issues = e.issues /\ q.open = e.open
         /\ q.index = e.index /\ q.recorded = e.recorded
<1>1. e.faults + 1 \in Nat
  BY DEF BridgeEnv
<1>2. q \in BridgeEnv
  BY <1>1, Zenon DEF Faulty, BridgeEnv
<1> QED
  BY <1>2 DEF Faulty, BridgeEnv

\* The invariant is kept by every step of the bridge, of GitHub and of the
\* operators.
LEMMA BridgeStep == BridgeInv /\ BridgeNext => BridgeInv'
<1> SUFFICES ASSUME BridgeInv, BridgeNext PROVE BridgeInv'
  OBVIOUS
<1> USE DEF BridgeInv, BridgeTypes, HookInHand, IssuesFollow, AckedOnRecord
<1>a. env \in BridgeEnv /\ job \in BridgeJob
  OBVIOUS
<1>b. /\ env.clock \in Nat /\ env.issues \in Nat /\ env.open \subseteq 1..env.issues
      /\ env.index \subseteq 1..env.issues /\ env.backlog \in Seq(Hooks)
      /\ env.recorded \in SUBSET Nat
  BY <1>a DEF BridgeEnv
<1>c. /\ job.hook \in HookOrNone /\ job.threads \in SUBSET Nat /\ job.acked \in SUBSET Nat
      /\ job.logged \in SUBSET Nat /\ job.last \in {"firing", "resolved"}
      /\ job.sentAt \in Seq(Nat) /\ job.paged \in Seq(Nat)
  BY <1>a DEF BridgeJob
<1>1. CASE AlertChanges
  <2>1. env' = [env EXCEPT !.firing = ~@, !.changes = @ + 1] /\ job' = job
    BY <1>1 DEF AlertChanges, Step
  <2>2. env.changes + 1 \in Nat /\ (~ env.firing) \in BOOLEAN
    BY <1>a DEF BridgeEnv
  <2>3. env' \in BridgeEnv
    BY <1>a, <2>1, <2>2, Zenon DEF BridgeEnv
  <2>4. /\ env'.kind = env.kind /\ env'.clock = env.clock /\ env'.issues = env.issues
        /\ env'.open = env.open /\ env'.index = env.index /\ env'.recorded = env.recorded
        /\ env'.clean = env.clean
    BY <2>1, <1>a DEF BridgeEnv
  <2>5. CounterIsTail' /\ SmsSpaced'
    BY <2>1, <2>4, <1>b, SmsKept
  <2> QED
    BY <2>1, <2>3, <2>4, <2>5
<1>2. CASE PostWebhook
  <2>1. PICK h : h = [n |-> env.hooks + 1, status |-> IF env.firing THEN "firing" ELSE "resolved"]
    OBVIOUS
  <2>2. env' = [env EXCEPT !.hooks = @ + 1, !.backlog = Append(@, h)] /\ job' = job
    BY <1>2, <2>1 DEF PostWebhook, Step
  <2>3. env.hooks + 1 \in Nat /\ h \in Hooks
    BY <2>1, <1>a DEF BridgeEnv, Hooks
  <2>4. Append(env.backlog, h) \in Seq(Hooks)
    BY <2>3, <1>b, AppendProperties
  <2>5. env' \in BridgeEnv
    BY <1>a, <2>2, <2>3, <2>4, Zenon DEF BridgeEnv
  <2>6. /\ env'.kind = env.kind /\ env'.clock = env.clock /\ env'.issues = env.issues
        /\ env'.open = env.open /\ env'.index = env.index /\ env'.recorded = env.recorded
        /\ env'.clean = env.clean
    BY <2>2, <1>a DEF BridgeEnv
  <2>7. CounterIsTail' /\ SmsSpaced'
    BY <2>2, <2>6, <1>b, SmsKept
  <2> QED
    BY <2>2, <2>5, <2>6, <2>7
<1>3. CASE IndexCatchesUp
  <2>1. env' = [env EXCEPT !.index = env.open] /\ job' = job
    BY <1>3 DEF IndexCatchesUp, Step
  <2>2. env' \in BridgeEnv
    BY <1>a, <2>1 DEF BridgeEnv
  <2>3. /\ env'.kind = env.kind /\ env'.clock = env.clock /\ env'.issues = env.issues
        /\ env'.open = env.open /\ env'.index = env.open /\ env'.recorded = env.recorded
        /\ env'.clean = env.clean
    BY <2>1, <1>a DEF BridgeEnv
  <2>4. CounterIsTail' /\ SmsSpaced'
    BY <2>1, <2>3, <1>b, SmsKept
  <2> QED
    BY <2>1, <2>2, <2>3, <2>4
<1>4. CASE OperatorCloses
  <2>1. PICK i \in env.open :
          env' = [env EXCEPT !.open = @ \ {i}, !.faults = @ + 1, !.clean = FALSE] /\ job' = job
    BY <1>4 DEF OperatorCloses, Step
  <2>2. env.faults + 1 \in Nat /\ env.open \ {i} \in SUBSET Nat
    BY <1>a DEF BridgeEnv
  <2>3. env' \in BridgeEnv
    BY <1>a, <2>1, <2>2, Zenon DEF BridgeEnv
  <2>4. /\ env'.kind = env.kind /\ env'.clock = env.clock /\ env'.issues = env.issues
        /\ env'.open = env.open \ {i} /\ env'.index = env.index /\ env'.recorded = env.recorded
        /\ ~ env'.clean
    BY <2>1, <1>a DEF BridgeEnv
  <2>5. CounterIsTail' /\ SmsSpaced'
    BY <2>1, <2>4, <1>b, SmsKept
  <2> QED
    BY <2>1, <2>3, <2>4, <2>5, <1>b
<1>5. CASE ClockTicks
  <2>1. env' = [env EXCEPT !.clock = @ + 1] /\ job' = job
    BY <1>5 DEF ClockTicks, Step
  <2>2. env' \in BridgeEnv
    BY <1>a, <2>1 DEF BridgeEnv
  <2>3. /\ env'.kind = env.kind /\ env'.clock = env.clock + 1 /\ env'.issues = env.issues
        /\ env'.open = env.open /\ env'.index = env.index /\ env'.recorded = env.recorded
        /\ env'.clean = env.clean
    BY <2>1, <1>a DEF BridgeEnv
  <2>4. CounterIsTail' /\ SmsSpaced'
    BY <2>1, <2>3, <1>b, SmsKept
  <2> QED
    BY <2>1, <2>2, <2>3, <2>4
<1>6. CASE PodRestarts
  <2>1. /\ env' = [env EXCEPT !.backlog = <<>>, !.faults = @ + 1, !.clean = FALSE]
        /\ job' = [job EXCEPT !.pc = "idle", !.hook = NoHook, !.found = 0, !.commented = FALSE,
                      !.acked = {}, !.logged = {}, !.threads = {}, !.paging = 0,
                      !.sentAt = <<>>, !.paged = <<>>, !.token = 0]
    BY <1>6 DEF PodRestarts, Step
  <2>2. /\ env.faults + 1 \in Nat /\ <<>> \in Seq(Hooks) /\ <<>> \in Seq(Nat) /\ 0 \in Nat
        /\ {} \in SUBSET Nat /\ NoHook \in HookOrNone
    BY <1>a DEF BridgeEnv, HookOrNone
  <2>3. env' \in BridgeEnv
    BY <1>a, <2>1, <2>2, Zenon DEF BridgeEnv
  <2>4. job' \in BridgeJob
    BY <1>a, <2>1, <2>2, Zenon DEF BridgeJob
  <2>5. /\ env'.kind = env.kind /\ env'.clock = env.clock /\ env'.issues = env.issues
        /\ env'.open = env.open /\ env'.index = env.index /\ env'.recorded = env.recorded
        /\ ~ env'.clean
    BY <2>1, <1>a DEF BridgeEnv
  <2>6. job'.pc = "idle" /\ job'.acked = {} /\ job'.sentAt = <<>> /\ job'.paged = <<>>
    BY <2>1, <1>a DEF BridgeJob
  <2>7. CounterIsTail' /\ SmsSpaced'
    BY <2>6, BridgeAssumption DEF CounterIsTail, SmsSpaced, IsTail, Spaced
  <2> QED
    BY <2>3, <2>4, <2>5, <2>6, <2>7
<1>7. CASE ReceiveWebhook
  <2>1. PICK h, j : /\ h = Head(env.backlog)
                    /\ j = [job EXCEPT !.hook = h, !.threads = @ \cup {h.n}, !.pc = "search"]
    OBVIOUS
  <2>2. /\ env' = [env EXCEPT !.backlog = Tail(@)] /\ env.backlog # <<>> /\ job.pc = "idle"
        /\ job' = IF Synthetic THEN Acknowledged(j) ELSE j
    BY <1>7, <2>1 DEF ReceiveWebhook, Step, At
  <2>3. h \in Hooks /\ Tail(env.backlog) \in Seq(Hooks)
    BY <2>1, <2>2, <1>b, HeadTailProperties
  <2>4. job.threads \cup {h.n} \in SUBSET Nat /\ h \in HookOrNone
    BY <2>3, <1>c DEF Hooks, HookOrNone
  <2>5. j \in BridgeJob
    BY <1>a, <2>1, <2>4, Zenon DEF BridgeJob
  <2>6. /\ j.pc = "search" /\ j.hook = h /\ j.acked = job.acked /\ j.logged = job.logged
        /\ j.last = job.last /\ j.sentAt = job.sentAt /\ j.paged = job.paged
    BY <2>1, <1>a DEF BridgeJob
  <2>7. env' \in BridgeEnv
    BY <1>a, <2>2, <2>3 DEF BridgeEnv
  <2>8. /\ env'.kind = env.kind /\ env'.clock = env.clock /\ env'.issues = env.issues
        /\ env'.open = env.open /\ env'.index = env.index /\ env'.recorded = env.recorded
        /\ env'.clean = env.clean
    BY <2>2, <1>a DEF BridgeEnv
  <2>9. CASE Synthetic
    <3>1. job' = Acknowledged(j) /\ env.kind = "synthetic"
      BY <2>2, <2>9 DEF Synthetic
    <3>2. /\ job' \in BridgeJob /\ job'.pc = "idle"
          /\ job'.sentAt = job.sentAt /\ job'.paged = job.paged
      BY <3>1, <2>3, <2>5, <2>6, AcknowledgedKeeps
    <3>3. CounterIsTail' /\ SmsSpaced'
      BY <2>8, <3>2, <1>b, SmsKept
    <3> QED
      BY <2>7, <2>8, <3>1, <3>2, <3>3
  <2>10. CASE ~ Synthetic
    <3>1. job' = j
      BY <2>2, <2>10
    <3>2. CounterIsTail' /\ SmsSpaced'
      BY <2>6, <2>8, <3>1, <1>b, SmsKept
    <3> QED
      BY <2>3, <2>5, <2>6, <2>7, <2>8, <3>1, <3>2
  <2> QED
    BY <2>9, <2>10
<1>8. CASE SearchIssue
  <2>0. job.pc = "search" /\ job.hook \in Hooks /\ job.hook.status \in {"firing", "resolved"}
    BY <1>8 DEF SearchIssue, At, Hooks
  <2>1. PICK e, found :
          /\ Searched(e, found)
          /\ \/ /\ e = [env EXCEPT !.clean = @ /\ env.index = env.open]
                /\ found = IF env.index = {} THEN 0 ELSE Max(env.index)
             \/ e = Faulty(env) /\ found = 0
    BY <1>8 DEF SearchIssue
  <2>2. /\ e \in BridgeEnv
        /\ e.kind = env.kind /\ e.clock = env.clock /\ e.issues = env.issues
        /\ e.open = env.open /\ e.index = env.index /\ e.recorded = env.recorded
        /\ e.clean => /\ env.clean /\ env.index = env.open
                      /\ found = IF env.index = {} THEN 0 ELSE Max(env.index)
    <3>1. CASE e = Faulty(env) /\ found = 0
      BY <3>1, <1>a, FaultyKeeps
    <3>2. CASE /\ e = [env EXCEPT !.clean = @ /\ env.index = env.open]
               /\ found = IF env.index = {} THEN 0 ELSE Max(env.index)
      <4>1. PICK clean \in BOOLEAN : clean = (env.clean /\ env.index = env.open)
        OBVIOUS
      <4>2. e = [env EXCEPT !.clean = clean]
        BY <3>2, <4>1
      <4> QED
        BY <3>2, <4>1, <4>2, <1>a DEF BridgeEnv
    <3> QED
      BY <2>1, <3>1, <3>2
  <2>3. /\ env.index # {} => Max(env.index) \in env.index
    <3>1. env.index \subseteq 0..env.issues
      BY <1>b
    <3> QED
      BY <3>1, <1>b, MaxMember
  <2>4. /\ found \in Nat
        /\ e.clean /\ found = 0 => env.open = {}
        /\ e.clean /\ found # 0 => found \in env.open
    BY <2>1, <2>2, <2>3, <1>b
  <2>5. env' = e
    BY <2>1 DEF Searched, Step
  <2>6. CASE job.hook.status = "resolved" /\ found = 0
    <3>1. job' = Acknowledged(job)
      BY <2>1, <2>6 DEF Searched, Step
    <3>2. /\ job' \in BridgeJob /\ job'.pc = "idle" /\ job'.last = "resolved"
          /\ job'.sentAt = job.sentAt /\ job'.paged = job.paged
          /\ job'.logged = job.logged /\ job'.acked = job.acked
      BY <3>1, <2>0, <2>6, <1>a, AcknowledgedKeeps
    <3>3. CounterIsTail' /\ SmsSpaced'
      BY <2>2, <2>5, <3>2, <1>b, SmsKept
    <3> QED
      BY <2>2, <2>4, <2>5, <2>6, <3>2, <3>3
  <2>7. CASE ~ (job.hook.status = "resolved" /\ found = 0)
    <3>1. PICK pc \in {"create", "comment"} :
            /\ job' = [job EXCEPT !.pc = pc, !.found = found]
            /\ pc = "create" => found = 0 /\ job.hook.status = "firing"
            /\ pc = "comment" => found # 0
      BY <2>0, <2>1, <2>7 DEF Searched, Step
    <3>2. /\ job' \in BridgeJob /\ job'.pc = pc /\ job'.found = found /\ job'.hook = job.hook
          /\ job'.acked = job.acked /\ job'.logged = job.logged /\ job'.last = job.last
          /\ job'.sentAt = job.sentAt /\ job'.paged = job.paged
      BY <3>1, <2>4, <1>a DEF BridgeJob
    <3>3. CounterIsTail' /\ SmsSpaced'
      BY <2>2, <2>5, <3>2, <1>b, SmsKept
    <3> QED
      BY <2>0, <2>2, <2>4, <2>5, <3>1, <3>2, <3>3
  <2> QED
    BY <2>6, <2>7
<1>9. CASE CreateIssue
  <2>0. job.pc = "create" /\ job.hook \in Hooks /\ job.hook.status = "firing" /\ job.hook.n \in Nat
    BY <1>9 DEF CreateIssue, At, Hooks
  <2>1. PICK made : made = IssueCreated
    OBVIOUS
  <2>2. env.issues + 1 \in Nat /\ env.open \cup {env.issues + 1} \in SUBSET Nat
        /\ env.recorded \cup {job.hook.n} \in SUBSET Nat
    BY <2>0, <1>b
  <2>3. made \in BridgeEnv
    BY <2>1, <2>2, <1>a, Zenon DEF IssueCreated, BridgeEnv
  <2>4. /\ made.kind = env.kind /\ made.clock = env.clock /\ made.issues = env.issues + 1
        /\ made.open = env.open \cup {env.issues + 1} /\ made.index = env.index
        /\ made.recorded = env.recorded \cup {job.hook.n} /\ made.clean = env.clean
    BY <2>1, <1>a DEF IssueCreated, BridgeEnv
  <2>5. env.open \cup {env.issues + 1} \subseteq 1..(env.issues + 1)
        /\ env.open \subseteq 1..(env.issues + 1) /\ env.index \subseteq 1..(env.issues + 1)
    BY <1>b
  <2>6. CASE env' = made /\ job' = Acknowledged(job)
    <3>1. /\ job' \in BridgeJob /\ job'.pc = "idle" /\ job'.last = "firing"
          /\ job'.sentAt = job.sentAt /\ job'.paged = job.paged
          /\ job'.logged = job.logged /\ job'.acked = job.acked \cup {job.hook.n}
      BY <2>0, <2>6, <1>a, AcknowledgedKeeps
    <3>2. CounterIsTail' /\ SmsSpaced'
      BY <2>4, <2>6, <3>1, <1>b, SmsKept
    <3>3. env.clean /\ env.kind # "synthetic" => env'.open = {env.issues + 1}
      BY <2>0, <2>4, <2>6
    <3>4. IssuesFollow'
      BY <2>4, <2>6, <3>1, <3>3
    <3> QED
      BY <2>3, <2>4, <2>5, <2>6, <3>1, <3>2, <3>4
  <2>7. CASE env' \in {Faulty(env), Faulty(made)} /\ job' = Undelivered(job)
    <3>1. /\ job' \in BridgeJob /\ job'.pc = "idle" /\ job'.last = "firing"
          /\ job'.sentAt = job.sentAt /\ job'.paged = job.paged
          /\ job'.logged = job.logged \cup {job.hook.n} /\ job'.acked = job.acked \cup {job.hook.n}
      BY <2>0, <2>7, <1>a, UndeliveredKeeps
    <3>2. PICK e \in BridgeEnv : env' = Faulty(e) /\ (e = env \/ e = made)
      BY <2>3, <2>7, <1>a
    <3>3. /\ env' \in BridgeEnv /\ ~ env'.clean
          /\ env'.kind = e.kind /\ env'.clock = e.clock /\ env'.issues = e.issues /\ env'.open = e.open
          /\ env'.index = e.index /\ env'.recorded = e.recorded
      BY <3>2, FaultyKeeps
    <3>4. /\ env'.kind = env.kind /\ env'.clock = env.clock /\ env.recorded \subseteq env'.recorded
          /\ env'.open \subseteq 1..env'.issues /\ env'.index \subseteq 1..env'.issues
      BY <2>4, <2>5, <3>2, <3>3, <1>b
    <3>5. CounterIsTail' /\ SmsSpaced'
      BY <3>1, <3>4, <1>b, SmsKept
    <3> QED
      BY <3>1, <3>3, <3>4, <3>5
  <2> QED
    BY <1>9, <2>1, <2>6, <2>7 DEF CreateIssue, Step
<1>10. CASE CommentIssue
  <2>0. /\ job.pc = "comment" /\ job.hook \in Hooks /\ job.hook.n \in Nat
        /\ job.hook.status \in {"firing", "resolved"}
    BY <1>10 DEF CommentIssue, At, Hooks
  <2>1. PICK made : made = Noted
    OBVIOUS
  <2>2. env.recorded \cup {job.hook.n} \in SUBSET Nat
    BY <2>0, <1>b
  <2>3. made \in BridgeEnv
    BY <2>1, <2>2, <1>a, Zenon DEF Noted, BridgeEnv
  <2>4. /\ made.kind = env.kind /\ made.clock = env.clock /\ made.issues = env.issues
        /\ made.open = env.open /\ made.index = env.index
        /\ made.recorded = env.recorded \cup {job.hook.n} /\ made.clean = env.clean
    BY <2>1, <1>a DEF Noted, BridgeEnv
  <2>5. PICK ok \in BOOLEAN :
          /\ job' = Commented(ok)
          /\ ok => env' = made
          /\ ~ ok => env' = Faulty(env) \/ env' = Faulty(made)
    BY <1>10, <2>1 DEF CommentIssue, Step
  <2>6. /\ env' \in BridgeEnv /\ env'.kind = env.kind /\ env'.clock = env.clock
        /\ env'.issues = env.issues /\ env'.open = env.open /\ env'.index = env.index
        /\ env.recorded \subseteq env'.recorded
        /\ env'.clean => env.clean
        /\ ok => job.hook.n \in env'.recorded
    <3>1. CASE ok
      BY <2>3, <2>4, <2>5, <3>1
    <3>2. CASE ~ ok
      <4>1. PICK e \in BridgeEnv : env' = Faulty(e) /\ (e = env \/ e = made)
        BY <2>3, <2>5, <3>2, <1>a
      <4> QED
        BY <2>4, <3>2, <4>1, FaultyKeeps
    <3> QED
      BY <3>1, <3>2
  <2>7. CASE job.hook.status = "firing"
    <3>1. job' = IF ok THEN Acknowledged(job) ELSE Undelivered(job)
      BY <2>5, <2>7 DEF Commented
    <3>2. /\ job' \in BridgeJob /\ job'.pc = "idle" /\ job'.last = "firing"
          /\ job'.sentAt = job.sentAt /\ job'.paged = job.paged
          /\ job.logged \subseteq job'.logged /\ (~ ok => job.hook.n \in job'.logged)
          /\ job'.acked = job.acked \cup {job.hook.n}
      <4>1. CASE ok
        BY <2>0, <2>7, <3>1, <4>1, <1>a, AcknowledgedKeeps
      <4>2. CASE ~ ok
        BY <2>0, <2>7, <3>1, <4>2, <1>a, UndeliveredKeeps, ZenonT(60)
      <4> QED
        BY <4>1, <4>2
    <3>3. CounterIsTail' /\ SmsSpaced'
      BY <2>6, <3>2, <1>b, SmsKept
    <3>4. IssuesFollow'
      BY <2>0, <2>6, <3>2
    <3>5. AckedOnRecord'
      BY <2>6, <3>2
    <3> QED
      BY <2>6, <3>2, <3>3, <3>4, <3>5
  <2>8. CASE job.hook.status = "resolved"
    <3>1. job' = [job EXCEPT !.pc = "close", !.commented = ok]
      BY <2>5, <2>8 DEF Commented
    <3>2. /\ job' \in BridgeJob /\ job'.pc = "close" /\ job'.found = job.found /\ job'.hook = job.hook
          /\ job'.acked = job.acked /\ job'.logged = job.logged /\ job'.last = job.last
          /\ job'.sentAt = job.sentAt /\ job'.paged = job.paged
      BY <3>1, <1>a DEF BridgeJob
    <3>3. CounterIsTail' /\ SmsSpaced'
      BY <2>6, <3>2, <1>b, SmsKept
    <3> QED
      BY <2>0, <2>6, <2>8, <3>2, <3>3
  <2> QED
    BY <2>0, <2>7, <2>8
<1>11. CASE CloseIssue
  <2>0. /\ job.pc = "close" /\ job.hook \in Hooks /\ job.hook.n \in Nat
        /\ job.hook.status = "resolved"
    BY <1>11 DEF CloseIssue, At, Hooks
  <2>1. PICK made : made = IssueShut
    OBVIOUS
  <2>2. env.open \ {job.found} \in SUBSET Nat
    BY <1>b
  <2>3. made \in BridgeEnv
    BY <2>1, <2>2, <1>a, Zenon DEF IssueShut, BridgeEnv
  <2>4. /\ made.kind = env.kind /\ made.clock = env.clock /\ made.issues = env.issues
        /\ made.open = env.open \ {job.found} /\ made.index = env.index
        /\ made.recorded = env.recorded /\ made.clean = env.clean
    BY <2>1, <1>a DEF IssueShut, BridgeEnv
  <2>5. /\ job' \in {Acknowledged(job), Undelivered(job)}
        /\ env' = made \/ env' = Faulty(env) \/ env' = Faulty(made)
    BY <1>11, <2>1 DEF CloseIssue, Step
  <2>6. /\ env' \in BridgeEnv /\ env'.kind = env.kind /\ env'.clock = env.clock
        /\ env'.issues = env.issues /\ env'.open \subseteq env.open /\ env'.index = env.index
        /\ env'.recorded = env.recorded
        /\ env'.clean => env.clean /\ env'.open = env.open \ {job.found}
    <3>1. CASE env' = made
      BY <2>3, <2>4, <3>1
    <3>2. CASE env' = Faulty(env) \/ env' = Faulty(made)
      <4>1. PICK e \in BridgeEnv : env' = Faulty(e) /\ (e = env \/ e = made)
        BY <2>3, <3>2, <1>a
      <4> QED
        BY <2>4, <4>1, FaultyKeeps
    <3> QED
      BY <2>5, <3>1, <3>2
  <2>7. /\ job' \in BridgeJob /\ job'.pc = "idle" /\ job'.last = "resolved"
        /\ job'.sentAt = job.sentAt /\ job'.paged = job.paged
        /\ job.logged \subseteq job'.logged /\ job'.acked = job.acked
    <3>1. CASE job' = Acknowledged(job)
      BY <2>0, <3>1, <1>a, AcknowledgedKeeps
    <3>2. CASE job' = Undelivered(job)
      BY <2>0, <3>2, <1>a, UndeliveredKeeps
    <3> QED
      BY <2>5, <3>1, <3>2
  <2>8. CounterIsTail' /\ SmsSpaced'
    BY <2>6, <2>7, <1>b, SmsKept
  <2>9. IssuesFollow'
    BY <2>0, <2>6, <2>7
  <2>10. AckedOnRecord'
    BY <2>6, <2>7
  <2> QED
    BY <2>6, <2>7, <2>8, <2>9, <2>10, <1>b
<1>12. CASE PageBySms
  <2>1. PICK n \in job.threads :
          LET window == SmsWindow(job.sentAt)
              allowed == Len(window) < SmsCap
              j == [job EXCEPT !.threads = @ \ {n}]
          IN  IF Synthetic THEN Step(env, j)
              ELSE IF ~ Crisis THEN Step(env, [j EXCEPT !.paging = n])
              ELSE Step(env, [j EXCEPT !.paging = n,
                                !.sentAt = IF allowed THEN Append(window, env.clock) ELSE window,
                                !.paged = IF allowed THEN Append(@, env.clock) ELSE @])
    BY <1>12 DEF PageBySms
  <2>2. PICK window : window = SmsWindow(job.sentAt)
    OBVIOUS
  <2>3. PICK sent, paged, j :
          /\ sent = IF Len(window) < SmsCap THEN Append(window, env.clock) ELSE window
          /\ paged = IF Len(window) < SmsCap THEN Append(job.paged, env.clock) ELSE job.paged
          /\ j = [job EXCEPT !.threads = @ \ {n}]
    OBVIOUS
  <2>4. n \in Nat /\ job.threads \ {n} \in SUBSET Nat
    BY <2>1, <1>c
  <2>5. /\ j \in BridgeJob /\ j.pc = job.pc /\ j.hook = job.hook /\ j.found = job.found
        /\ j.acked = job.acked /\ j.logged = job.logged /\ j.last = job.last
        /\ j.sentAt = job.sentAt /\ j.paged = job.paged
    BY <2>3, <2>4, <1>a DEF BridgeJob
  <2>6. /\ env' = env
        /\ \/ job' = j
           \/ job' = [j EXCEPT !.paging = n]
           \/ job' = [j EXCEPT !.paging = n, !.sentAt = sent, !.paged = paged]
    BY <2>1, <2>2, <2>3, <2>5 DEF Step
  <2>7. window \in Seq(Nat) /\ IsTail(window, job.paged, env.clock)
    BY <2>2, <1>b, <1>c, WindowIsTail DEF CounterIsTail
  <2>8. sent \in Seq(Nat) /\ paged \in Seq(Nat) /\ IsTail(sent, paged, env.clock) /\ Spaced(paged)
    <3>1. CASE Len(window) < SmsCap
      BY <2>3, <2>7, <3>1, <1>b, <1>c, PagedStaysSpaced DEF SmsSpaced
    <3>2. CASE ~ (Len(window) < SmsCap)
      BY <2>3, <2>7, <3>2, <1>c DEF SmsSpaced
    <3> QED
      BY <3>1, <3>2
  <2>9. /\ job' \in BridgeJob /\ job'.pc = job.pc /\ job'.hook = job.hook /\ job'.found = job.found
        /\ job'.acked = job.acked /\ job'.logged = job.logged /\ job'.last = job.last
        /\ \/ job'.sentAt = job.sentAt /\ job'.paged = job.paged
           \/ job'.sentAt = sent /\ job'.paged = paged
    <3>1. CASE job' = j
      BY <2>5, <3>1
    <3>2. CASE job' = [j EXCEPT !.paging = n]
      BY <2>4, <2>5, <3>2 DEF BridgeJob
    <3>3. CASE job' = [j EXCEPT !.paging = n, !.sentAt = sent, !.paged = paged]
      <4>1. job' \in BridgeJob
        BY <2>4, <2>5, <2>8, <3>3, Zenon DEF BridgeJob
      <4> QED
        BY <2>5, <3>3, <4>1 DEF BridgeJob
    <3> QED
      BY <2>6, <3>1, <3>2, <3>3
  <2>10. CounterIsTail' /\ SmsSpaced'
    BY <2>6, <2>8, <2>9 DEF CounterIsTail, SmsSpaced
  <2> QED
    BY <2>6, <2>9, <2>10
<1>13. CASE PageByEmail
  <2>1. PICK j : j = [job EXCEPT !.paging = 0]
    OBVIOUS
  <2>2. env' = env /\ (job' = j \/ job' = [j EXCEPT !.token = env.clock + TokenLife])
    BY <1>13, <2>1 DEF PageByEmail, Step
  <2>3. env.clock + TokenLife \in Nat
    BY <1>b, BridgeAssumption
  <2>4. /\ job' \in BridgeJob /\ job'.pc = job.pc /\ job'.hook = job.hook /\ job'.found = job.found
        /\ job'.acked = job.acked /\ job'.logged = job.logged /\ job'.last = job.last
        /\ job'.sentAt = job.sentAt /\ job'.paged = job.paged
    <3>1. /\ j \in BridgeJob /\ j.pc = job.pc /\ j.hook = job.hook /\ j.found = job.found
          /\ j.acked = job.acked /\ j.logged = job.logged /\ j.last = job.last
          /\ j.sentAt = job.sentAt /\ j.paged = job.paged
      BY <2>1, <1>a DEF BridgeJob
    <3>2. CASE job' = j
      BY <3>1, <3>2
    <3>3. CASE job' = [j EXCEPT !.token = env.clock + TokenLife]
      BY <2>3, <3>1, <3>3 DEF BridgeJob
    <3> QED
      BY <2>2, <3>2, <3>3
  <2>5. CounterIsTail' /\ SmsSpaced'
    BY <2>2, <2>4, <1>b, SmsKept
  <2> QED
    BY <2>2, <2>4, <2>5
<1> QED
  BY <1>1, <1>2, <1>3, <1>4, <1>5, <1>6, <1>7, <1>8, <1>9, <1>10, <1>11, <1>12, <1>13
  DEF BridgeNext

(* The invariant gives both properties of the bridge. *)
LEMMA BridgeSafe == BridgeInv => AlertOnRecord /\ SmsCapHolds
<1> SUFFICES ASSUME BridgeInv PROVE AlertOnRecord /\ SmsCapHolds
  OBVIOUS
<1>1. \A i \in Nat : Cardinality({i}) = 1
  BY FS_Singleton
<1>2. Cardinality({}) = 0
  BY FS_EmptySet
<1>3. AlertOnRecord
  <2>1. job.last \in {"firing", "resolved"} /\ env.open \subseteq Nat
    BY DEF BridgeInv, BridgeTypes, BridgeJob, BridgeEnv
  <2>2. env.clean /\ env.kind # "synthetic" =>
          Cardinality(env.open) = IF job.last = "firing" THEN 1 ELSE 0
    BY <1>1, <1>2, <2>1 DEF BridgeInv, IssuesFollow
  <2> QED
    BY <2>2 DEF BridgeInv, AckedOnRecord, AlertOnRecord, Synthetic
<1>4. SmsCapHolds
  BY DEF BridgeInv, SmsSpaced, Spaced, SmsCapHolds
<1> QED
  BY <1>3, <1>4

-----------------------------------------------------------------------------
(* DeliveryPoller: the poller of webhook deliveries. *)

Deliveries ==
  [at : Nat, run : PolledRuns, failed : BOOLEAN, kind : {"request", "poison"}, listed : BOOLEAN]
PollerEnv == [clock : Nat, ds : Seq(Deliveries), decided : SUBSET PolledRuns, outages : Nat]
PollerJob ==
  [pc : {"idle", "work", "advance"}, now : Nat, todo : SUBSET Nat, due : SUBSET Nat,
   hw : Nat \X Nat, healthy : BOOLEAN, lastOk : Nat, caught : SUBSET Nat, verdict : {"none"}]
PollerTypes == env \in PollerEnv /\ job \in PollerJob

(* Deliveries are numbered in the order of their times; one that is not listed
   yet is younger than the overlap. *)
Logged ==
  /\ \A d \in 1..Len(env.ds) :
       env.ds[d].at <= env.clock /\ (env.ds[d].listed \/ env.clock <= env.ds[d].at + Overlap)
  /\ \A c, d \in 1..Len(env.ds) : c <= d => env.ds[c].at <= env.ds[d].at

(* The high-water mark leaves nothing undecided behind the overlap but what
   has outlived max_delivery_age. *)
BehindHighWater ==
  /\ job.hw[1] <= env.clock
  /\ \A d \in 1..Len(env.ds) :
       env.ds[d].failed /\ env.ds[d].at + Overlap < job.hw[1] =>
         env.ds[d].run \in env.decided \/ env.ds[d].at + MaxAgeTicks < env.clock

(* What is due in a cycle is decided or still to do, and what an advance
   could pass over is due. *)
CycleCovers ==
  /\ job.pc \in {"work", "advance"} =>
       /\ job.now <= env.clock
       /\ job.todo \subseteq 1..Len(env.ds) /\ job.due \subseteq 1..Len(env.ds)
       /\ \A d \in job.todo : env.ds[d].at <= job.now
       /\ \A d \in job.due : d \in job.todo \/ env.ds[d].run \in env.decided
       /\ \A d \in 1..Len(env.ds) :
            env.ds[d].failed /\ env.ds[d].at + Overlap < job.now
              /\ env.ds[d].at + MaxAgeTicks >= job.now => d \in job.due
  /\ job.pc = "advance" => job.todo # {} /\ env.ds[Oldest].run \in env.decided

CaughtDecided == \A d \in job.caught : d \in 1..Len(env.ds) /\ env.ds[d].run \in env.decided

PollerInv == PollerTypes /\ Logged /\ BehindHighWater /\ CycleCovers /\ CaughtDecided

\* Nothing has been delivered.
LEMMA PollerStart == PollerInit => PollerInv
<1> SUFFICES ASSUME PollerInit PROVE PollerInv
  OBVIOUS
<1>1. env = [clock |-> 0, ds |-> <<>>, decided |-> {}, outages |-> 0]
  BY DEF PollerInit
<1>2. job = [pc |-> "idle", now |-> 0, todo |-> {}, due |-> {}, hw |-> <<0, 0>>,
             healthy |-> FALSE, lastOk |-> 0, caught |-> {}, verdict |-> "none"]
  BY DEF PollerInit
<1>3. env \in PollerEnv /\ env.ds = <<>>
  BY <1>1 DEF PollerEnv
<1>4. job \in PollerJob /\ job.pc = "idle" /\ job.caught = {}
  BY <1>2 DEF PollerJob
<1>5. job.hw[1] <= env.clock
  BY <1>1, <1>2
<1> QED
  BY <1>3, <1>4, <1>5 DEF PollerInv, PollerTypes, Logged, BehindHighWater, CycleCovers, CaughtDecided

\* A cycle that fails, or a restart, keeps the high-water mark and forgets the rest.
LEMMA UnhealthyKeeps ==
  ASSUME PollerInv, job' = Unhealthy(job), env' \in PollerEnv, env'.clock = env.clock,
         env'.ds = env.ds, env'.decided = env.decided
  PROVE  PollerInv'
<1>1. job \in PollerJob
  BY DEF PollerInv, PollerTypes
<1>2. job' \in PollerJob /\ job'.pc = "idle" /\ job'.hw = job.hw /\ job'.caught = {}
  BY <1>1 DEF Unhealthy, CycleOver, PollerJob
<1> QED
  BY <1>2 DEF PollerInv, PollerTypes, Logged, BehindHighWater, CycleCovers, CaughtDecided

\* The oldest delivery to do is one of them.
LEMMA OldestIsLeast ==
  ASSUME PollerInv, job.todo # {}
  PROVE  Oldest \in job.todo /\ \A d \in job.todo : Oldest <= d
<1>1. job.todo \subseteq Nat
  BY DEF PollerInv, PollerTypes, PollerJob
<1>2. \E n \in job.todo : \A m \in job.todo : n <= m
  BY <1>1, LeastMember
<1> QED
  BY <1>2 DEF Oldest, Min

\* What something trails by a span it does not reach.
LEMMA NotBehind == \A at, span, mark \in Nat : at + span < mark => ~ (mark <= at)
  OBVIOUS

\* What ends before one moment ends before a later one.
LEMMA SumBefore ==
  \A at, span, mid, end \in Nat : at + span < mid /\ mid <= end => at + span < end
  OBVIOUS

\* Time, GitHub and the worker only add to the log and to what is decided.
LEMMA LogKeeps ==
  ASSUME PollerInv, job' = job, env' \in PollerEnv, Logged', env.clock <= env'.clock,
         Len(env.ds) <= Len(env'.ds), env.decided \subseteq env'.decided,
         \A d \in 1..Len(env'.ds) : d \notin 1..Len(env.ds) => env'.ds[d].at = env.clock,
         \A d \in 1..Len(env.ds) :
           /\ env'.ds[d].at = env.ds[d].at /\ env'.ds[d].run = env.ds[d].run
           /\ env'.ds[d].failed = env.ds[d].failed
  PROVE  PollerInv'
<1>a. env \in PollerEnv /\ job \in PollerJob
  BY DEF PollerInv, PollerTypes
<1>b. env.clock \in Nat /\ env'.clock \in Nat /\ env.ds \in Seq(Deliveries) /\ env'.ds \in Seq(Deliveries)
  BY <1>a DEF PollerEnv
<1>c. \A d \in 1..Len(env.ds) : env.ds[d] \in Deliveries
  BY <1>b
<1>d. \A d \in 1..Len(env.ds) : env.ds[d].at \in Nat
  BY <1>c DEF Deliveries
<1>e. /\ job.now \in Nat /\ job.hw \in Nat \X Nat /\ job.hw[1] \in Nat
      /\ MaxAgeTicks \in Nat /\ Overlap \in Nat
  BY <1>a, PollerAssumption DEF PollerJob
<1>f. \A d \in 1..Len(env.ds) : d \in 1..Len(env'.ds)
  BY <1>b
<1>1. BehindHighWater'
  <2>a. job'.hw[1] <= env'.clock
    BY <1>b, <1>e DEF PollerInv, BehindHighWater
  <2> SUFFICES ASSUME NEW d \in 1..Len(env'.ds), env'.ds[d].failed, env'.ds[d].at + Overlap < job.hw[1]
               PROVE  env'.ds[d].run \in env'.decided \/ env'.ds[d].at + MaxAgeTicks < env'.clock
    BY <2>a DEF BehindHighWater
  <2>1. CASE d \in 1..Len(env.ds)
    <3>1. env.ds[d].run \in env.decided \/ env.ds[d].at + MaxAgeTicks < env.clock
      BY <2>1, <1>d DEF PollerInv, BehindHighWater
    <3>2. env'.ds[d].at = env.ds[d].at /\ env'.ds[d].run = env.ds[d].run /\ env.ds[d].at \in Nat
      BY <2>1, <1>d
    <3>3. CASE env.ds[d].run \in env.decided
      BY <3>2, <3>3
    <3>4. CASE env.ds[d].at + MaxAgeTicks < env.clock
      <4>1. env.ds[d].at + MaxAgeTicks < env'.clock
        BY <3>2, <3>4, <1>b, <1>e, SumBefore
      <4> QED
        BY <3>2, <4>1
    <3> QED
      BY <3>1, <3>3, <3>4
  <2>2. CASE d \notin 1..Len(env.ds)
    <3>1. job.hw[1] <= env.clock
      BY DEF PollerInv, BehindHighWater
    <3> QED
      BY <2>2, <3>1, <1>b, <1>e, SMTT(30)
  <2> QED
    BY <2>1, <2>2
<1>2. CycleCovers'
  <2>1. Oldest' = Oldest
    BY DEF Oldest
  <2>2. \A d \in 1..Len(env'.ds) :
          job.pc \in {"work", "advance"} /\ env'.ds[d].failed /\ env'.ds[d].at + Overlap < job.now
            /\ env'.ds[d].at + MaxAgeTicks >= job.now => d \in job.due
    <3> SUFFICES ASSUME NEW d \in 1..Len(env'.ds), job.pc \in {"work", "advance"}, env'.ds[d].failed,
                        env'.ds[d].at + Overlap < job.now, env'.ds[d].at + MaxAgeTicks >= job.now
                 PROVE  d \in job.due
      OBVIOUS
    <3>1. job.now <= env.clock
      BY DEF PollerInv, CycleCovers
    <3>2. CASE d \in 1..Len(env.ds)
      BY <3>2 DEF PollerInv, CycleCovers
    <3>3. CASE d \notin 1..Len(env.ds)
      BY <3>1, <3>3, <1>b, <1>e, SMTT(30)
    <3> QED
      BY <3>2, <3>3
  <2>3. job.pc \in {"work", "advance"} =>
          /\ job.now <= env'.clock
          /\ job.todo \subseteq 1..Len(env'.ds) /\ job.due \subseteq 1..Len(env'.ds)
    BY <1>b, <1>e, <1>f, SMTT(30) DEF PollerInv, CycleCovers
  <2>4. job.pc \in {"work", "advance"} =>
          /\ \A d \in job.todo : env'.ds[d].at <= job.now
          /\ \A d \in job.due : d \in job.todo \/ env'.ds[d].run \in env'.decided
    BY DEF PollerInv, CycleCovers
  <2>5. job.pc = "advance" => job.todo # {} /\ env'.ds[Oldest].run \in env'.decided
    <3>1. job.pc = "advance" => job.todo # {} /\ env.ds[Oldest].run \in env.decided
                                /\ job.todo \subseteq 1..Len(env.ds)
      BY DEF PollerInv, CycleCovers
    <3>2. job.pc = "advance" => Oldest \in job.todo
      BY <3>1, OldestIsLeast
    <3> QED
      BY <3>1, <3>2
  <2> QED
    BY <2>1, <2>2, <2>3, <2>4, <2>5 DEF CycleCovers
<1>3. CaughtDecided'
  BY <1>f DEF PollerInv, CaughtDecided
<1> QED
  BY <1>1, <1>2, <1>3, <1>a DEF PollerInv, PollerTypes

\* The scan starts at one of the two limits, the later one.
LEMMA CutoffIsOne ==
  ASSUME NEW now \in Nat, job.hw[1] \in Nat
  PROVE  Cutoff(now) \in {IF now > MaxAgeTicks THEN now - MaxAgeTicks ELSE 0,
                          IF job.hw[1] > Overlap THEN job.hw[1] - Overlap ELSE 0}
<1>a. MaxAgeTicks \in Nat /\ Overlap \in Nat
  BY PollerAssumption
<1>b. /\ (IF now > MaxAgeTicks THEN now - MaxAgeTicks ELSE 0) \in Nat
      /\ (IF job.hw[1] > Overlap THEN job.hw[1] - Overlap ELSE 0) \in Nat
  BY <1>a
<1>1. PICK a \in Nat : a = IF now > MaxAgeTicks THEN now - MaxAgeTicks ELSE 0
  BY <1>b
<1>2. PICK b \in Nat : b = IF job.hw[1] > Overlap THEN job.hw[1] - Overlap ELSE 0
  BY <1>b
<1>3. Cutoff(now) = Max({a, b})
  BY <1>1, <1>2 DEF Cutoff
<1>4. {a, b} \subseteq 0..(a + b) /\ {a, b} # {} /\ a + b \in Nat
  OBVIOUS
<1>5. Max({a, b}) \in {a, b}
  BY <1>4, MaxMember
<1> QED
  BY <1>1, <1>2, <1>3, <1>5

\* The invariant is kept by every step of GitHub, of the worker, of time and of
\* the poller.
LEMMA PollerStep == PollerInv /\ PollerNext => PollerInv'
<1> SUFFICES ASSUME PollerInv, PollerNext PROVE PollerInv'
  OBVIOUS
<1>0. PollerInv
  OBVIOUS
<1>a. env \in PollerEnv /\ job \in PollerJob
  BY DEF PollerInv, PollerTypes
<1>c. /\ env.clock \in Nat /\ env.ds \in Seq(Deliveries) /\ env.decided \in SUBSET PolledRuns
      /\ env.outages \in Nat
  BY <1>a DEF PollerEnv
<1>d. \A d \in 1..Len(env.ds) : env.ds[d] \in Deliveries
  BY <1>c
<1>e. \A d \in 1..Len(env.ds) : env.ds[d].at \in Nat /\ env.ds[d].run \in PolledRuns
  BY <1>d DEF Deliveries
<1>f. /\ job.now \in Nat /\ job.todo \in SUBSET Nat /\ job.due \in SUBSET Nat
      /\ job.hw \in Nat \X Nat /\ job.caught \in SUBSET Nat
  BY <1>a DEF PollerJob
<1>b. /\ env.clock \in Nat /\ env.ds \in Seq(Deliveries) /\ env.decided \in SUBSET PolledRuns
      /\ env.outages \in Nat /\ Len(env.ds) \in Nat /\ DOMAIN env.ds = 1..Len(env.ds)
      /\ \A d \in 1..Len(env.ds) : env.ds[d].at \in Nat /\ env.ds[d].run \in PolledRuns
      /\ job.now \in Nat /\ job.todo \in SUBSET Nat /\ job.due \in SUBSET Nat
      /\ job.hw \in Nat \X Nat /\ job.hw[1] \in Nat /\ job.caught \in SUBSET Nat
      /\ MaxAgeTicks \in Nat /\ Overlap \in Nat
  BY <1>c, <1>e, <1>f, PollerAssumption
<1> USE DEF PollerInv, PollerTypes, Logged, BehindHighWater, CycleCovers, CaughtDecided
<1>1. CASE NewDelivery
  <2>1. PICK r \in PolledRuns, failed, listed \in BOOLEAN, k \in {"request", "poison"} :
          /\ job' = job
          /\ env' = [env EXCEPT !.ds = Append(@, [at |-> env.clock, run |-> r, failed |-> failed,
                                                  kind |-> k, listed |-> listed])]
    BY <1>1 DEF NewDelivery, Step
  <2>2. PICK new \in Deliveries :
          new = [at |-> env.clock, run |-> r, failed |-> failed, kind |-> k, listed |-> listed]
    BY <2>1, <1>b DEF Deliveries
  <2>3. new.at = env.clock
    BY <2>2
  <2>4. PICK ds \in Seq(Deliveries) :
          /\ ds = Append(env.ds, new) /\ Len(ds) = Len(env.ds) + 1 /\ ds[Len(env.ds) + 1] = new
          /\ \A d \in 1..Len(env.ds) : ds[d] = env.ds[d]
    <3>1. Append(env.ds, new) \in Seq(Deliveries) /\ Len(Append(env.ds, new)) = Len(env.ds) + 1
      BY <2>2, <1>c
    <3>2. Append(env.ds, new)[Len(env.ds) + 1] = new
      BY <2>2, <1>c
    <3>3. \A d \in 1..Len(env.ds) : Append(env.ds, new)[d] = env.ds[d]
      BY <2>2, <1>c
    <3> QED
      BY <3>1, <3>2, <3>3
  <2>5. env' = [env EXCEPT !.ds = ds]
    BY <2>1, <2>2, <2>4
  <2>6. env' \in PollerEnv
    BY <2>5, <1>a DEF PollerEnv
  <2>7. env'.ds = ds /\ env'.clock = env.clock /\ env'.decided = env.decided
    BY <2>5, <1>a DEF PollerEnv
  <2>8. \A d \in 1..Len(ds) : d \in 1..Len(env.ds) \/ d = Len(env.ds) + 1
    BY <2>4, <1>b
  <2>9. Logged'
    BY <2>3, <2>4, <2>7, <2>8, <1>b
  <2>10. /\ Len(env.ds) <= Len(env'.ds)
         /\ \A d \in 1..Len(env'.ds) : d \notin 1..Len(env.ds) => env'.ds[d].at = env.clock
         /\ \A d \in 1..Len(env.ds) :
              /\ env'.ds[d].at = env.ds[d].at /\ env'.ds[d].run = env.ds[d].run
              /\ env'.ds[d].failed = env.ds[d].failed
    BY <2>3, <2>4, <2>7, <2>8, <1>b
  <2>11. env.clock <= env'.clock /\ env.decided \subseteq env'.decided
    BY <2>7, <1>b
  <2> QED
    BY <1>0, <2>1, <2>6, <2>9, <2>10, <2>11, LogKeeps
<1>2. CASE DeliveryListed
  <2>1. PICK c \in 1..Len(env.ds) : env' = [env EXCEPT !.ds[c].listed = TRUE] /\ job' = job
    BY <1>2, <1>b DEF DeliveryListed, Step
  <2>2. env.ds[c] \in Deliveries
    BY <1>d
  <2>3. /\ [env.ds[c] EXCEPT !.listed = TRUE] \in Deliveries
        /\ [env.ds[c] EXCEPT !.listed = TRUE].at = env.ds[c].at
        /\ [env.ds[c] EXCEPT !.listed = TRUE].run = env.ds[c].run
        /\ [env.ds[c] EXCEPT !.listed = TRUE].failed = env.ds[c].failed
        /\ [env.ds[c] EXCEPT !.listed = TRUE].listed = TRUE
    BY <2>2 DEF Deliveries
  <2>4. PICK r \in Deliveries :
          /\ r = [env.ds[c] EXCEPT !.listed = TRUE] /\ r.at = env.ds[c].at
          /\ r.run = env.ds[c].run /\ r.failed = env.ds[c].failed /\ r.listed = TRUE
    BY <2>3
  <2>5. [env.ds EXCEPT ![c] = r] \in Seq(Deliveries) /\ Len([env.ds EXCEPT ![c] = r]) = Len(env.ds)
    BY <1>b, ExceptSeq, ElementOfSeq
  <2>6. PICK ds \in Seq(Deliveries) : ds = [env.ds EXCEPT ![c] = r] /\ Len(ds) = Len(env.ds)
    BY <2>5
  <2>7. \A d \in 1..Len(env.ds) : ds[d] = IF d = c THEN r ELSE env.ds[d]
    BY <2>6, <1>b
  <2>8. env' = [env EXCEPT !.ds = ds]
    BY <2>1, <2>4, <2>6
  <2>9. env' \in PollerEnv
    BY <2>8, <1>a DEF PollerEnv
  <2>10. env'.ds = ds /\ env'.clock = env.clock /\ env'.decided = env.decided
    BY <2>8, <1>a DEF PollerEnv
  <2>11. \A d \in 1..Len(env.ds) :
           /\ ds[d].at = env.ds[d].at /\ ds[d].run = env.ds[d].run
           /\ ds[d].failed = env.ds[d].failed /\ (env.ds[d].listed => ds[d].listed)
    BY <2>4, <2>7
  <2>12. Logged'
    BY <2>6, <2>10, <2>11, <1>b, SMTT(30)
  <2>13. /\ Len(env.ds) <= Len(env'.ds)
         /\ \A d \in 1..Len(env'.ds) : d \notin 1..Len(env.ds) => env'.ds[d].at = env.clock
         /\ \A d \in 1..Len(env.ds) :
              /\ env'.ds[d].at = env.ds[d].at /\ env'.ds[d].run = env.ds[d].run
              /\ env'.ds[d].failed = env.ds[d].failed
         /\ env.clock <= env'.clock /\ env.decided \subseteq env'.decided
    BY <2>6, <2>10, <2>11, <1>b
  <2> QED
    BY <1>0, <2>1, <2>9, <2>12, <2>13, LogKeeps
<1>3. CASE WorkerDecides
  <2>1. PICK d \in 1..Len(env.ds) : env' = [env EXCEPT !.decided = @ \cup {env.ds[d].run}] /\ job' = job
    BY <1>3, <1>b DEF WorkerDecides, Step
  <2>2. env.decided \cup {env.ds[d].run} \in SUBSET PolledRuns
    BY <1>b
  <2>3. env' \in PollerEnv
    BY <2>1, <2>2, <1>a DEF PollerEnv
  <2>4. /\ env'.ds = env.ds /\ env'.clock = env.clock /\ env.decided \subseteq env'.decided
        /\ env.clock <= env'.clock /\ Len(env.ds) <= Len(env'.ds)
    BY <2>1, <1>a, <1>b DEF PollerEnv
  <2>5. Logged'
    BY <2>4
  <2> QED
    BY <1>0, <2>1, <2>3, <2>4, <2>5, LogKeeps
<1>4. CASE PollerTick
  <2>1. /\ env' = [env EXCEPT !.clock = @ + 1] /\ job' = job
        /\ \A d \in 1..Len(env.ds) : env.ds[d].listed \/ env.ds[d].at + Overlap > env.clock
    BY <1>4, <1>b DEF PollerTick, Step
  <2>2. env.clock + 1 \in Nat
    BY <1>b
  <2>3. env' \in PollerEnv
    BY <2>1, <2>2, <1>a DEF PollerEnv
  <2>4. env'.ds = env.ds /\ env'.clock = env.clock + 1 /\ env'.decided = env.decided
    BY <2>1, <1>a DEF PollerEnv
  <2>5. Logged'
    BY <2>1, <2>4, <1>b, SMTT(30)
  <2>6. env.clock <= env'.clock /\ Len(env.ds) <= Len(env'.ds) /\ env.decided \subseteq env'.decided
    BY <2>4, <1>b
  <2> QED
    BY <1>0, <2>1, <2>3, <2>4, <2>5, <2>6, LogKeeps
<1>5. CASE PollFails
  <2>1. env' = [env EXCEPT !.outages = @ + 1] /\ job' = Unhealthy(job)
    BY <1>5 DEF PollFails, Step
  <2>2. env' \in PollerEnv
    <3>1. env.outages + 1 \in Nat
      BY <1>c
    <3> QED
      BY <2>1, <3>1, <1>a DEF PollerEnv
  <2>3. env'.clock = env.clock /\ env'.ds = env.ds /\ env'.decided = env.decided
    BY <2>1, <1>a DEF PollerEnv
  <2> QED
    BY <1>0, <2>1, <2>2, <2>3, UnhealthyKeeps
<1>6. CASE PollerRestarts
  <2>1. env' = [env EXCEPT !.outages = @ + 1] /\ job' = Unhealthy(job)
    BY <1>6 DEF PollerRestarts, Step
  <2>2. env' \in PollerEnv
    <3>1. env.outages + 1 \in Nat
      BY <1>c
    <3> QED
      BY <2>1, <3>1, <1>a DEF PollerEnv
  <2>3. env'.clock = env.clock /\ env'.ds = env.ds /\ env'.decided = env.decided
    BY <2>1, <1>a DEF PollerEnv
  <2> QED
    BY <1>0, <2>1, <2>2, <2>3, UnhealthyKeeps
<1>7. CASE BeginPoll
  <2>1. CASE env' = env /\ job' = Unhealthy(job)
    BY <1>0, <1>a, <2>1, UnhealthyKeeps
  <2>2. CASE /\ job.pc = "idle" /\ env' = env
             /\ job' = [job EXCEPT !.pc = "work", !.now = env.clock, !.todo = Candidates(env.clock),
                                  !.due = DueDeliveries(env.clock)]
    <3>1. /\ Candidates(env.clock) \in SUBSET Nat /\ Candidates(env.clock) \subseteq 1..Len(env.ds)
          /\ DueDeliveries(env.clock) \in SUBSET Nat
          /\ DueDeliveries(env.clock) \subseteq 1..Len(env.ds)
      BY <1>b DEF Candidates, InWindow, ListedNow, DueDeliveries
    <3>2. job' \in PollerJob
      BY <2>2, <3>1, <1>a, <1>b DEF PollerJob
    <3>3. /\ job'.pc = "work" /\ job'.now = env.clock /\ job'.todo = Candidates(env.clock)
          /\ job'.due = DueDeliveries(env.clock) /\ job'.hw = job.hw
          /\ job'.caught = job.caught
      BY <2>2, <1>a DEF PollerJob
    <3>4. \A d \in DueDeliveries(env.clock) :
            d \in Candidates(env.clock) \/ env.ds[d].run \in env.decided
      <4> TAKE d \in DueDeliveries(env.clock)
      <4>1. /\ d \in 1..Len(env.ds) /\ env.ds[d].listed /\ env.ds[d].failed
            /\ env.ds[d].at + MaxAgeTicks >= env.clock
        BY <1>b DEF DueDeliveries, ListedNow, Target
      <4>2. CASE env.ds[d].at >= Cutoff(env.clock)
        BY <4>1, <4>2, <1>b DEF Candidates, InWindow, ListedNow, Target
      <4>3. CASE ~ (env.ds[d].at >= Cutoff(env.clock))
        <5>1. /\ Cutoff(env.clock) \in {IF env.clock > MaxAgeTicks THEN env.clock - MaxAgeTicks ELSE 0,
                                       IF job.hw[1] > Overlap THEN job.hw[1] - Overlap ELSE 0}
          BY <1>b, CutoffIsOne
        <5>2. /\ env.ds[d].at \in Nat /\ env.clock \in Nat /\ job.hw[1] \in Nat
              /\ MaxAgeTicks \in Nat /\ Overlap \in Nat
          BY <4>1, <1>b
        <5>3. env.ds[d].at + Overlap < job.hw[1]
          <6>1. PICK at \in Nat, now \in Nat, mark \in Nat :
                  at = env.ds[d].at /\ now = env.clock /\ mark = job.hw[1]
            BY <5>2
          <6>2. PICK cut : cut = Cutoff(env.clock)
            OBVIOUS
          <6>3. /\ cut \in {IF now > MaxAgeTicks THEN now - MaxAgeTicks ELSE 0,
                           IF mark > Overlap THEN mark - Overlap ELSE 0}
                /\ ~ (at >= cut) /\ at + MaxAgeTicks >= now
            BY <4>1, <4>3, <5>1, <6>1, <6>2
          <6>4. at + Overlap < mark
            BY <5>2, <6>3
          <6> QED
            BY <6>1, <6>4
        <5>4. ~ (env.ds[d].at + MaxAgeTicks < env.clock)
          BY <4>1, <5>2
        <5> QED
          BY <4>1, <5>3, <5>4
      <4> QED
        BY <4>2, <4>3
    <3>5. \A d \in 1..Len(env.ds) :
            env.ds[d].failed /\ env.ds[d].at + Overlap < env.clock
              /\ env.ds[d].at + MaxAgeTicks >= env.clock => d \in DueDeliveries(env.clock)
      BY <1>b, SMTT(30) DEF DueDeliveries, ListedNow, Target
    <3>6. \A d \in Candidates(env.clock) : env.ds[d].at <= env.clock
      BY <3>1
    <3>7. CycleCovers'
      BY <2>2, <3>1, <3>3, <3>4, <3>5, <3>6, <1>b
    <3> QED
      BY <2>2, <3>2, <3>3, <3>7, <1>a, <1>b
  <2> QED
    BY <1>7, <2>1, <2>2 DEF BeginPoll, Step, At
<1>8. CASE Decide
  <2>a. job.todo # {} /\ Oldest \in job.todo /\ (\A d \in job.todo : Oldest <= d)
        /\ Oldest \in 1..Len(env.ds)
    BY <1>8, <1>0, <1>b, OldestIsLeast DEF Decide, At
  <2>b. PICK r \in PolledRuns : r = env.ds[Oldest].run
    BY <2>a, <1>b
  <2>1. /\ job.pc = "work" /\ r = env.ds[Oldest].run
        /\ env' = [env EXCEPT !.decided = env.decided \cup {r}]
        /\ job' = [job EXCEPT !.pc = "advance"]
    BY <1>8, <2>a, <2>b DEF Decide, Step, At, Live
  <2>2. /\ job.pc = "work" /\ r = env.ds[Oldest].run
    BY <2>1, <2>a, <2>b
  <2>3. env.decided \cup {r} \in SUBSET PolledRuns
    BY <1>b
  <2>4. env' \in PollerEnv
    BY <2>1, <2>a, <2>b, <2>3, <1>a, <1>b DEF PollerEnv
  <2>5. /\ env'.decided = env.decided \cup {r} /\ env'.clock = env.clock
        /\ env'.ds = env.ds /\ env'.outages = env.outages
    BY <2>1, <2>a, <2>b, <1>a DEF PollerEnv
  <2>6. job' \in PollerJob
    BY <2>1, <2>a, <2>b, <2>3, <1>a, <1>b DEF PollerJob
  <2>7. /\ job'.pc = "advance" /\ job'.now = job.now /\ job'.todo = job.todo
        /\ job'.due = job.due /\ job'.hw = job.hw /\ job'.healthy = job.healthy
        /\ job'.lastOk = job.lastOk /\ job'.caught = job.caught
        /\ job'.verdict = job.verdict
    BY <2>1, <2>a, <2>b, <1>a DEF PollerJob
  <2>8. job.todo # {} /\ env.ds[Oldest].run = r /\ Oldest' = Oldest
    BY <2>a, <2>2, <2>3, <2>4, <2>5, <2>6, <2>7, <1>a, <1>b DEF Oldest
  <2>9. PollerTypes'
    BY <2>2, <2>3, <2>4, <2>5, <2>6, <2>7, <2>8, <1>a, <1>b
  <2>10. Logged'
    BY <2>2, <2>3, <2>4, <2>5, <2>6, <2>7, <2>8, <1>a, <1>b
  <2>11. BehindHighWater'
    BY <2>2, <2>3, <2>4, <2>5, <2>6, <2>7, <2>8, <1>a, <1>b
  <2>12. CycleCovers'
    BY <2>2, <2>3, <2>4, <2>5, <2>6, <2>7, <2>8, <1>a, <1>b
  <2>13. CaughtDecided'
    BY <2>2, <2>3, <2>4, <2>5, <2>6, <2>7, <2>8, <1>a, <1>b
  <2> QED
    BY <2>9, <2>10, <2>11, <2>12, <2>13
<1>9. CASE DecideFails
  <2>1. env' = env /\ job' = Unhealthy(job)
    BY <1>9 DEF DecideFails, Step
  <2> QED
    BY <1>0, <1>a, <2>1, UnhealthyKeeps
<1>10. CASE AdvanceHighWater
  <2>a. /\ job.pc = "advance" /\ job.todo # {} /\ Oldest \in job.todo
        /\ (\A d \in job.todo : Oldest <= d) /\ Oldest \in 1..Len(env.ds)
        /\ env.ds[Oldest].run \in env.decided
    BY <1>10, <1>0, <1>b, OldestIsLeast DEF AdvanceHighWater, At
  <2>b. PICK o \in 1..Len(env.ds) : o = Oldest
    BY <2>a
  <2>c. /\ o \in job.todo /\ \A d \in job.todo : o <= d
        /\ env.ds[o].run \in env.decided /\ env.ds[o].at \in Nat /\ o \in Nat
    BY <2>a, <2>b, <1>b
  <2>d. PICK mark \in Nat \X Nat : mark = <<env.ds[o].at, o>> /\ mark[1] = env.ds[o].at
    <3>1. PICK a \in Nat : a = env.ds[o].at
      BY <2>c
    <3>2. <<a, o>> \in Nat \X Nat /\ <<a, o>>[1] = a
      BY <2>c
    <3> QED
      BY <3>1, <3>2
  <2>e. PICK hw \in Nat \X Nat : /\ hw = IF Later(mark, job.hw) THEN mark ELSE job.hw
                               /\ (hw = job.hw \/ hw[1] = env.ds[o].at)
    BY <2>d, <1>f
  <2>1. env' = env /\ job' = [job EXCEPT !.pc = "work", !.todo = @ \ {o}, !.hw = hw]
    <3>1. env' = env /\ job' = [job EXCEPT !.pc = "work", !.todo = @ \ {Oldest},
                    !.hw = IF Later(<<env.ds[Oldest].at, Oldest>>, @)
                           THEN <<env.ds[Oldest].at, Oldest>> ELSE @]
      BY <1>10 DEF AdvanceHighWater, Step
    <3>2. env' = env /\ job' = [job EXCEPT !.pc = "work", !.todo = @ \ {o},
                    !.hw = IF Later(mark, job.hw) THEN mark ELSE job.hw]
      BY <2>b, <2>d, <3>1
    <3> QED
      BY <2>e, <3>2
  <2>2. job.todo \ {o} \in SUBSET Nat
    BY <1>b
  <2>3. job' \in PollerJob
    BY <2>1, <2>2, <1>a DEF PollerJob
  <2>4. /\ job'.pc = "work" /\ job'.todo = job.todo \ {o} /\ job'.hw = hw /\ job'.now = job.now
        /\ job'.due = job.due /\ job'.caught = job.caught
    BY <2>1, <1>a DEF PollerJob
  <2>f. env.ds[o].at <= job.now /\ job.now <= env.clock /\ job.now \in Nat
    BY <2>a, <2>c, <1>b
  <2>5. ASSUME NEW d \in 1..Len(env.ds), env.ds[d].failed, env.ds[d].at + Overlap < env.ds[o].at
        PROVE  env.ds[d].run \in env.decided \/ env.ds[d].at + MaxAgeTicks < env.clock
    <3>0. env.ds[d].at \in Nat /\ Overlap \in Nat /\ MaxAgeTicks \in Nat /\ env.clock \in Nat
      BY <1>b
    <3>1. d \notin job.todo
      <4>1. o <= d => env.ds[o].at <= env.ds[d].at
        OBVIOUS
      <4> QED
        <5>1. ~ (env.ds[o].at <= env.ds[d].at)
          BY <2>c, <2>5, <3>0, NotBehind
        <5> QED
          BY <2>c, <4>1, <5>1
    <3>3. CASE env.ds[d].at + MaxAgeTicks >= job.now
      <4>1. env.ds[d].at + Overlap < job.now
        BY <2>5, <2>c, <2>f, <3>0, SumBefore
      <4>2. d \in job.due
        BY <2>a, <2>5, <3>3, <4>1
      <4> QED
        BY <2>a, <3>1, <4>2
    <3>4. CASE ~ (env.ds[d].at + MaxAgeTicks >= job.now)
      <4>1. env.ds[d].at + MaxAgeTicks < job.now
        BY <2>f, <3>0, <3>4, SMTT(30)
      <4> QED
        BY <2>f, <3>0, <4>1, SumBefore
    <3> QED
      BY <3>3, <3>4
  <2>6. BehindHighWater'
    <3>1. CASE hw = job.hw
      BY <2>1, <2>4, <3>1
    <3>2. CASE hw[1] = env.ds[o].at
      BY <2>1, <2>4, <2>5, <2>f, <3>2, <1>b
    <3> QED
      BY <2>e, <3>1, <3>2
  <2>7. CycleCovers'
    BY <2>a, <2>c, <2>1, <2>4, <1>b
  <2> QED
    BY <2>1, <2>3, <2>4, <2>6, <2>7, <1>a, <1>b
<1>11. CASE FinishPoll
  <2>1. /\ job.pc = "work" /\ job.todo = {} /\ env' = env
        /\ job' = CycleOver([job EXCEPT !.healthy = TRUE, !.lastOk = env.clock, !.caught = job.due])
    BY <1>11 DEF FinishPoll, Step, At
  <2>2. job' \in PollerJob /\ job'.pc = "idle" /\ job'.hw = job.hw /\ job'.caught = job.due
    BY <2>1, <1>a, <1>b DEF CycleOver, PollerJob
  <2> QED
    BY <2>1, <2>2, <1>a, <1>b
<1> QED
  BY <1>1, <1>2, <1>3, <1>4, <1>5, <1>6, <1>7, <1>8, <1>9, <1>10, <1>11 DEF PollerNext

\* The invariant gives the meaning of readiness.
LEMMA PollerSafe == PollerInv => ReadyMeansCaughtUp
  BY DEF PollerInv, CaughtDecided, ReadyMeansCaughtUp

-----------------------------------------------------------------------------
(* SlaMonitor: the critical-fix SLA monitor. *)

SlaRuns == [head : SUBSET FixPrs, rev : SUBSET FixPrs, artifact : BOOLEAN, ok : BOOLEAN]
SlaEnv ==
  [hour : Nat, merges : Seq(FixPrs), mergedAt : [FixPrs -> Nat], runs : Seq(SlaRuns),
   open : SUBSET FixPrs, warned : SUBSET FixPrs, faults : Nat]
SlaPcs == {"idle", "next", "correlate", "issue", "warn", "judged"}
SlaJob ==
  [pc : SlaPcs, dry : BOOLEAN, todo : SUBSET FixPrs, pr : FixPrs \cup {0}, overdue : SUBSET FixPrs,
   covered : SUBSET FixPrs, blind : BOOLEAN, errors : BOOLEAN, verdict : {"none", "0", "1"}]
SlaTypes == env \in SlaEnv /\ job \in SlaJob

(* A run that left no artifact is a run that ended with success. *)
RunsSound == \A r \in DOMAIN env.runs : ~ env.runs[r].artifact => env.runs[r].ok

(* The overdue fixes of a scan are in the main branch and stay overdue while
   the scan is under way; the fix at hand is a fix. *)
ScanTracks ==
  job.pc \in {"next", "correlate", "issue", "warn"} =>
    /\ \A p \in job.overdue : Contains(env.merges, p) /\ Age(p) >= CriticalHours
    /\ job.pc # "next" => job.pr \in FixPrs
    /\ job.pc = "warn" => job.pr \notin job.overdue

Settled(p) == ReachedProd(p) \/ p \in job.covered

(* Each overdue fix is still to come, at hand, or settled. *)
ScanComplete ==
  job.pc \in {"next", "correlate", "issue", "warn"} /\ ~ job.dry /\ ~ job.blind /\ ~ job.errors =>
    \A p \in job.overdue :
      p \in job.todo \/ (job.pc # "next" /\ p = job.pr) \/ Settled(p)
JudgedSees ==
  job.pc = "judged" /\ job.verdict = "0" /\ ~ job.dry /\ ~ job.blind =>
    \A p \in job.overdue : Settled(p)

SlaInv == SlaTypes /\ RunsSound /\ ScanTracks /\ ScanComplete /\ JudgedSees

\* A fix that a readable run carried reached production.
LEMMA CarriedReached ==
  ASSUME SlaInv, NEW p, NEW r \in DOMAIN env.runs, Carries(r, p, {}, {})
  PROVE  ReachedProd(p)
  BY DEF SlaInv, RunsSound, Carries, ReachedProd

\* Merges, deploys and people take nothing back that a scan found.
LEMMA SlaEnvKeeps ==
  ASSUME SlaInv, env' \in SlaEnv, job' = job, RunsSound',
         \A p : Contains(env.merges, p) => Contains(env.merges, p)' /\ Age(p)' = Age(p),
         \A p : ReachedProd(p) => ReachedProd(p)'
  PROVE  SlaInv'
<1>1. SlaTypes' /\ ScanTracks'
  BY DEF SlaInv, SlaTypes, ScanTracks
<1>2. \A p : Settled(p) => Settled(p)'
  BY DEF Settled
<1>3. ScanComplete' /\ JudgedSees'
  BY <1>2 DEF SlaInv, ScanComplete, JudgedSees
<1> QED
  BY <1>1, <1>3 DEF SlaInv

\* A step of the scan leaves merges and deploys alone.
LEMMA SlaJobKeeps ==
  ASSUME SlaInv, env' \in SlaEnv, job' \in SlaJob, env'.runs = env.runs,
         ScanTracks', ScanComplete', JudgedSees'
  PROVE  SlaInv'
  BY DEF SlaInv, SlaTypes, RunsSound

\* Nothing is merged, deployed or scanned at the start.
LEMMA SlaStart == SlaInit => SlaInv
<1> SUFFICES ASSUME SlaInit PROVE SlaInv
  OBVIOUS
<1>1. /\ env = [hour |-> 0, merges |-> <<>>, mergedAt |-> [p \in FixPrs |-> 0], runs |-> <<>>,
                open |-> {}, warned |-> {}, faults |-> 0]
      /\ job = [pc |-> "idle", dry |-> FALSE, todo |-> {}, pr |-> 0, overdue |-> {},
                covered |-> {}, blind |-> FALSE, errors |-> FALSE, verdict |-> "none"]
  BY DEF SlaInit
<1>2. [p \in FixPrs |-> 0] \in [FixPrs -> Nat] /\ <<>> \in Seq(FixPrs) /\ <<>> \in Seq(SlaRuns)
  OBVIOUS
<1>3. env \in SlaEnv
  BY <1>1, <1>2 DEF SlaEnv
<1>4. job \in SlaJob
  BY <1>1 DEF SlaJob, SlaPcs
<1>5. RunsSound
  BY <1>1 DEF RunsSound
<1> QED
  BY <1>1, <1>3, <1>4, <1>5 DEF SlaInv, SlaTypes, ScanTracks, ScanComplete, JudgedSees

\* Every step of the repository and of the scan keeps the invariant.
LEMMA SlaStep == SlaInv /\ SlaNext => SlaInv'
<1> SUFFICES ASSUME SlaInv, SlaNext PROVE SlaInv'
  OBVIOUS
<1>0. SlaInv
  OBVIOUS
<1>a. env \in SlaEnv /\ job \in SlaJob
  BY DEF SlaInv, SlaTypes
<1>b. /\ env.hour \in Nat /\ env.merges \in Seq(FixPrs) /\ env.mergedAt \in [FixPrs -> Nat]
      /\ env.runs \in Seq(SlaRuns) /\ env.open \in SUBSET FixPrs /\ env.warned \in SUBSET FixPrs
      /\ env.faults \in Nat
  BY <1>a DEF SlaEnv
<1>c. /\ job.pc \in SlaPcs /\ job.dry \in BOOLEAN /\ job.todo \in SUBSET FixPrs
      /\ job.pr \in FixPrs \cup {0} /\ job.overdue \in SUBSET FixPrs /\ job.covered \in SUBSET FixPrs
      /\ job.blind \in BOOLEAN /\ job.errors \in BOOLEAN /\ job.verdict \in {"none", "0", "1"}
  BY <1>a DEF SlaJob
<1>e. /\ CriticalHours \in Nat /\ FixPrs \subseteq Nat
  BY SlaAssumption
<1>f. /\ GhFault(env) \in SlaEnv /\ GhFault(env).runs = env.runs /\ GhFault(env).merges = env.merges
      /\ GhFault(env).hour = env.hour /\ GhFault(env).mergedAt = env.mergedAt
  <2>1. PICK n \in Nat : n = env.faults + 1
    BY <1>b
  <2>2. GhFault(env) = [env EXCEPT !.faults = n]
    BY <2>1 DEF GhFault
  <2>3. [env EXCEPT !.faults = n] \in SlaEnv
    BY <1>a DEF SlaEnv
  <2>4. /\ [env EXCEPT !.faults = n].runs = env.runs /\ [env EXCEPT !.faults = n].merges = env.merges
        /\ [env EXCEPT !.faults = n].hour = env.hour
        /\ [env EXCEPT !.faults = n].mergedAt = env.mergedAt
    BY <1>a DEF SlaEnv
  <2> QED
    BY <2>2, <2>3, <2>4
\* What a scan that ends by an error leaves behind.
<1>x. /\ Exits(job, "1") \in SlaJob
      /\ Exits(job, "1").pc = "judged" /\ Exits(job, "1").verdict = "1"
  <2>1. Exits(job, "1") = [[job EXCEPT !.pc = "judged", !.verdict = "1", !.todo = {}, !.pr = 0]
                             EXCEPT !.overdue = {}, !.covered = {}, !.errors = FALSE]
    BY DEF Exits
  <2>2. /\ "judged" \in SlaPcs /\ "1" \in {"none", "0", "1"} /\ {} \in SUBSET FixPrs
        /\ 0 \in FixPrs \cup {0} /\ FALSE \in BOOLEAN
    BY DEF SlaPcs
  <2>3. [job EXCEPT !.pc = "judged", !.verdict = "1", !.todo = {}, !.pr = 0] \in SlaJob
    BY <2>2, <1>a, Zenon DEF SlaJob
  <2>4. /\ [job EXCEPT !.pc = "judged", !.verdict = "1", !.todo = {}, !.pr = 0].pc = "judged"
        /\ [job EXCEPT !.pc = "judged", !.verdict = "1", !.todo = {}, !.pr = 0].verdict = "1"
    BY <1>a DEF SlaJob
  <2>5. PICK over \in SlaJob :
          /\ over = [job EXCEPT !.pc = "judged", !.verdict = "1", !.todo = {}, !.pr = 0]
          /\ over.pc = "judged" /\ over.verdict = "1"
    BY <2>3, <2>4
  <2>6. Exits(job, "1") = [over EXCEPT !.overdue = {}, !.covered = {}, !.errors = FALSE]
    BY <2>1, <2>5
  <2>7. Exits(job, "1") \in SlaJob
    BY <2>2, <2>6, Zenon DEF SlaJob
  <2>8. Exits(job, "1").pc = "judged" /\ Exits(job, "1").verdict = "1"
    BY <2>5, <2>6 DEF SlaJob
  <2> QED
    BY <2>7, <2>8
<1>y. ASSUME env' \in SlaEnv, env'.runs = env.runs, job' = Exits(job, "1") PROVE SlaInv'
  <2>1. ScanTracks' /\ ScanComplete' /\ JudgedSees'
    BY <1>x, <1>y DEF ScanTracks, ScanComplete, JudgedSees
  <2> QED
    BY <1>0, <1>x, <1>y, <2>1, SlaJobKeeps
\* The fix at hand is dealt with: it is settled, not overdue, or the scan has
\* lost its claim to be complete.
<1>z. ASSUME env' \in SlaEnv, env'.runs = env.runs, env'.merges = env.merges, env'.hour = env.hour,
             env'.mergedAt = env.mergedAt, job' \in SlaJob,
             job.pc \in {"next", "correlate", "issue", "warn"},
             job'.pc = "next", job'.overdue = job.overdue, job'.todo = job.todo,
             job.covered \subseteq job'.covered,
             job.dry => job'.dry, job.blind => job'.blind, job.errors => job'.errors,
             \/ job'.dry \/ job'.blind \/ job'.errors
             \/ job.pr \notin job.overdue \/ ReachedProd(job.pr) \/ job.pr \in job'.covered
      PROVE  SlaInv'
  <2>1. /\ \A p : Contains(env.merges, p)' <=> Contains(env.merges, p)
        /\ \A p : Age(p)' = Age(p)
        /\ \A p : ReachedProd(p)' <=> ReachedProd(p)
    BY <1>z DEF Contains, Age, ReachedProd
  <2>2. ScanTracks'
    BY <1>0, <1>z, <2>1 DEF SlaInv, ScanTracks
  <2>3. \A p : Settled(p) => Settled(p)'
    BY <1>z, <2>1 DEF Settled
  <2>4. \A p : (ReachedProd(p) \/ p \in job'.covered) => Settled(p)'
    BY <2>1 DEF Settled
  <2>5. ScanComplete'
    BY <1>0, <1>z, <2>3, <2>4 DEF SlaInv, ScanComplete
  <2>6. JudgedSees'
    BY <1>z DEF JudgedSees
  <2> QED
    BY <1>0, <1>z, <2>2, <2>5, <2>6, SlaJobKeeps
<1>1. CASE MergeFix
  <2>1. PICK p \in FixPrs :
          /\ ~ Contains(env.merges, p) /\ job' = job
          /\ env' = [env EXCEPT !.merges = Append(@, p), !.mergedAt[p] = env.hour]
    BY <1>1 DEF MergeFix, Step
  <2>2. /\ Append(env.merges, p) \in Seq(FixPrs) /\ Len(Append(env.merges, p)) = Len(env.merges) + 1
        /\ \A i \in 1..Len(env.merges) : Append(env.merges, p)[i] = env.merges[i]
        /\ Len(env.merges) \in Nat
    BY <1>b
  <2>3. PICK merges \in Seq(FixPrs) :
          /\ merges = Append(env.merges, p) /\ Len(merges) = Len(env.merges) + 1
          /\ \A i \in 1..Len(env.merges) : merges[i] = env.merges[i]
    BY <2>2
  <2>4. /\ [env.mergedAt EXCEPT ![p] = env.hour] \in [FixPrs -> Nat]
        /\ \A o : o # p => [env.mergedAt EXCEPT ![p] = env.hour][o] = env.mergedAt[o]
    <3>1. [env.mergedAt EXCEPT ![p] = env.hour] \in [FixPrs -> Nat]
      BY <1>b
    <3>2. \A o \in FixPrs : o # p => [env.mergedAt EXCEPT ![p] = env.hour][o] = env.mergedAt[o]
      BY <1>b
    <3> QED
      BY <3>1, <3>2, <1>b
  <2>5. PICK at \in [FixPrs -> Nat] :
          at = [env.mergedAt EXCEPT ![p] = env.hour] /\ \A o : o # p => at[o] = env.mergedAt[o]
    BY <2>4
  <2>6. env' = [env EXCEPT !.merges = merges, !.mergedAt = at]
    BY <2>1, <2>3, <2>5, <1>a DEF SlaEnv
  <2>7. /\ env' \in SlaEnv /\ env'.merges = merges /\ env'.mergedAt = at /\ env'.hour = env.hour
        /\ env'.runs = env.runs
    BY <2>6, <1>a DEF SlaEnv
  <2>8. \A o : Contains(env.merges, o) => Contains(env.merges, o)' /\ Age(o)' = Age(o)
    BY <2>1, <2>2, <2>3, <2>5, <2>7 DEF Contains, Age
  <2>9. RunsSound' /\ \A o : ReachedProd(o) => ReachedProd(o)'
    BY <1>0, <2>7 DEF SlaInv, RunsSound, ReachedProd
  <2> QED
    BY <1>0, <2>1, <2>7, <2>8, <2>9, SlaEnvKeeps
<1>2. CASE DeployRuns
  <2>1. PICK k \in 0..Len(env.merges), artifact \in BOOLEAN, ok \in BOOLEAN :
          /\ ~ artifact => ok
          /\ job' = job
          /\ env' = [env EXCEPT !.runs =
                  Append(@, [head |-> ToSet(env.merges), rev |-> ToSet(SubSeq(env.merges, 1, k)),
                             artifact |-> artifact, ok |-> ok])]
    BY <1>2 DEF DeployRuns, Step
  <2>2. ToSet(env.merges) \in SUBSET FixPrs
    BY <1>b DEF ToSet
  <2>3. ToSet(SubSeq(env.merges, 1, k)) \in SUBSET FixPrs
    <3>1. SubSeq(env.merges, 1, k) \in Seq(FixPrs)
      BY <1>b
    <3> QED
      BY <3>1 DEF ToSet
  <2>4. PICK run \in SlaRuns :
          /\ run = [head |-> ToSet(env.merges), rev |-> ToSet(SubSeq(env.merges, 1, k)),
                    artifact |-> artifact, ok |-> ok]
          /\ ~ run.artifact => run.ok
    <3>1. /\ [head |-> ToSet(env.merges), rev |-> ToSet(SubSeq(env.merges, 1, k)),
              artifact |-> artifact, ok |-> ok] \in SlaRuns
          /\ [head |-> ToSet(env.merges), rev |-> ToSet(SubSeq(env.merges, 1, k)),
              artifact |-> artifact, ok |-> ok].artifact = artifact
          /\ [head |-> ToSet(env.merges), rev |-> ToSet(SubSeq(env.merges, 1, k)),
              artifact |-> artifact, ok |-> ok].ok = ok
      BY <2>2, <2>3, Zenon DEF SlaRuns
    <3> QED
      BY <2>1, <3>1
  <2>5. PICK runs \in Seq(SlaRuns) :
          /\ runs = Append(env.runs, run) /\ Len(runs) = Len(env.runs) + 1
          /\ Len(env.runs) \in Nat /\ runs[Len(env.runs) + 1] = run
          /\ \A i \in 1..Len(env.runs) : runs[i] = env.runs[i]
    <3>1. /\ Append(env.runs, run) \in Seq(SlaRuns)
          /\ Len(Append(env.runs, run)) = Len(env.runs) + 1
          /\ Len(env.runs) \in Nat /\ Append(env.runs, run)[Len(env.runs) + 1] = run
          /\ \A i \in 1..Len(env.runs) : Append(env.runs, run)[i] = env.runs[i]
      BY <1>b
    <3> QED
      BY <3>1
  <2>6. /\ env' \in SlaEnv /\ env'.runs = runs /\ env'.merges = env.merges /\ env'.hour = env.hour
        /\ env'.mergedAt = env.mergedAt
    BY <2>1, <2>4, <2>5, <1>a DEF SlaEnv
  <2>7. DOMAIN env.runs = 1..Len(env.runs) /\ DOMAIN runs = 1..(Len(env.runs) + 1)
    BY <2>5, <1>b
  <2>8. RunsSound'
    BY <1>0, <2>4, <2>5, <2>6, <2>7 DEF SlaInv, RunsSound
  <2>9. /\ \A p : ReachedProd(p) => ReachedProd(p)'
        /\ \A p : Contains(env.merges, p) => Contains(env.merges, p)' /\ Age(p)' = Age(p)
    BY <2>5, <2>6, <2>7 DEF ReachedProd, Contains, Age
  <2> QED
    BY <1>0, <2>1, <2>6, <2>8, <2>9, SlaEnvKeeps
<1>3. CASE IssueClosed
  <2>1. PICK p \in env.open : job' = job /\ env' = [env EXCEPT !.open = @ \ {p}]
    BY <1>3 DEF IssueClosed, Step
  <2>2. env.open \ {p} \in SUBSET FixPrs
    BY <1>b
  <2>3. /\ env' \in SlaEnv /\ env'.runs = env.runs /\ env'.merges = env.merges /\ env'.hour = env.hour
        /\ env'.mergedAt = env.mergedAt
    BY <2>1, <2>2, <1>a DEF SlaEnv
  <2>4. /\ RunsSound' /\ \A o : ReachedProd(o) => ReachedProd(o)'
        /\ \A o : Contains(env.merges, o) => Contains(env.merges, o)' /\ Age(o)' = Age(o)
    BY <1>0, <2>3 DEF SlaInv, RunsSound, ReachedProd, Contains, Age
  <2> QED
    BY <1>0, <2>1, <2>3, <2>4, SlaEnvKeeps
<1>4. CASE HourPasses
  <2>1. job.pc = "idle" /\ job' = job /\ env' = [env EXCEPT !.hour = @ + 1, !.warned = {}]
    BY <1>4 DEF HourPasses, At, Step
  <2>2. env.hour + 1 \in Nat /\ {} \in SUBSET FixPrs
    BY <1>b
  <2>3. env' \in SlaEnv /\ env'.runs = env.runs
    BY <2>1, <2>2, <1>a DEF SlaEnv
  <2>4. ScanTracks' /\ ScanComplete' /\ JudgedSees'
    BY <2>1 DEF ScanTracks, ScanComplete, JudgedSees
  <2> QED
    BY <1>0, <1>a, <2>1, <2>3, <2>4, SlaJobKeeps
<1>5. CASE ScanAgain
  <2>1. /\ env' = env
        /\ job' = [job EXCEPT !.pc = "idle", !.dry = FALSE, !.overdue = {}, !.covered = {},
                              !.blind = FALSE, !.errors = FALSE, !.verdict = "none"]
    BY <1>5 DEF ScanAgain, Step
  <2>2. /\ "idle" \in SlaPcs /\ "none" \in {"none", "0", "1"} /\ {} \in SUBSET FixPrs
        /\ FALSE \in BOOLEAN
    BY DEF SlaPcs
  <2>3. job' \in SlaJob
    BY <2>1, <2>2, <1>a, Zenon DEF SlaJob
  <2>4. job'.pc = "idle"
    BY <2>1, <1>a DEF SlaJob
  <2>5. ScanTracks' /\ ScanComplete' /\ JudgedSees'
    BY <2>4 DEF ScanTracks, ScanComplete, JudgedSees
  <2> QED
    BY <1>0, <1>a, <2>1, <2>3, <2>5, SlaJobKeeps
<1>6. CASE StartScan
  <2>1. CASE MayFail /\ Step(GhFault(env), Exits(job, "1"))
    BY <1>f, <1>y, <2>1 DEF Step
  <2>2. CASE \E dry \in BOOLEAN :
               Step(env, [job EXCEPT !.pc = "next", !.dry = dry, !.todo = InScan,
                                     !.overdue = {p \in InScan : Age(p) >= CriticalHours}])
    <3>1. PICK dry \in BOOLEAN :
            /\ env' = env
            /\ job' = [job EXCEPT !.pc = "next", !.dry = dry, !.todo = InScan,
                                  !.overdue = {p \in InScan : Age(p) >= CriticalHours}]
      BY <2>2 DEF Step
    <3>2. InScan \in SUBSET FixPrs /\ \A p \in InScan : Contains(env.merges, p)
      BY <1>b DEF InScan, ToSet, Contains
    <3>3. {p \in InScan : Age(p) >= CriticalHours} \in SUBSET FixPrs
      BY <3>2
    <3>4. "next" \in SlaPcs
      BY DEF SlaPcs
    <3>5. job' \in SlaJob
      BY <3>1, <3>2, <3>3, <3>4, <1>a, Zenon DEF SlaJob
    <3>6. /\ job'.pc = "next" /\ job'.todo = InScan
          /\ job'.overdue = {p \in InScan : Age(p) >= CriticalHours}
      BY <3>1, <1>a DEF SlaJob
    <3>7. \A p : (Contains(env.merges, p)' <=> Contains(env.merges, p)) /\ Age(p)' = Age(p)
      BY <3>1 DEF Contains, Age
    <3>8. ScanTracks' /\ ScanComplete' /\ JudgedSees'
      BY <3>2, <3>6, <3>7 DEF ScanTracks, ScanComplete, JudgedSees
    <3> QED
      BY <1>0, <1>a, <3>1, <3>5, <3>8, SlaJobKeeps
  <2> QED
    BY <1>6, <2>1, <2>2 DEF StartScan
<1>7. CASE NextPr
  <2>1. PICK p \in job.todo :
          /\ env' = env /\ job.pc = "next"
          /\ job' = [job EXCEPT !.pc = "correlate", !.pr = p, !.todo = @ \ {p}]
    BY <1>7 DEF NextPr, At, Step
  <2>2. "correlate" \in SlaPcs /\ p \in FixPrs \cup {0} /\ job.todo \ {p} \in SUBSET FixPrs /\ p \in FixPrs
    BY <1>c DEF SlaPcs
  <2>3. job' \in SlaJob
    BY <2>1, <2>2, <1>a, Zenon DEF SlaJob
  <2>4. /\ job'.pc = "correlate" /\ job'.pr = p /\ job'.todo = job.todo \ {p}
        /\ job'.overdue = job.overdue /\ job'.covered = job.covered /\ job'.dry = job.dry
        /\ job'.blind = job.blind /\ job'.errors = job.errors
    BY <2>1, <1>a DEF SlaJob
  <2>5. /\ \A o : (Contains(env.merges, o)' <=> Contains(env.merges, o)) /\ Age(o)' = Age(o)
        /\ \A o : Settled(o) => Settled(o)'
    BY <2>1, <2>4 DEF Contains, Age, Settled, ReachedProd
  <2>6. ScanTracks'
    BY <1>0, <2>1, <2>2, <2>4, <2>5 DEF SlaInv, ScanTracks
  <2>7. ScanComplete' /\ JudgedSees'
    BY <1>0, <2>1, <2>4, <2>5 DEF SlaInv, ScanComplete, JudgedSees
  <2> QED
    BY <1>0, <1>a, <2>1, <2>3, <2>6, <2>7, SlaJobKeeps
<1>8. CASE CorrelateDeploys
  <2>0. job.pc = "correlate" /\ job.pr \in FixPrs
    BY <1>0, <1>8 DEF CorrelateDeploys, At, SlaInv, ScanTracks
  <2>s. PICK p \in FixPrs : p = job.pr
    BY <2>0
  \* What follows from an answer on whether the fix reached production.
  <2>1. ASSUME env' \in SlaEnv, env'.runs = env.runs, env'.merges = env.merges, env'.hour = env.hour,
               env'.mergedAt = env.mergedAt, NEW reached \in BOOLEAN, NEW blind \in BOOLEAN,
               job' = [Correlated(p, reached) EXCEPT !.blind = blind],
               job.blind => blind, reached => (ReachedProd(p) \/ blind)
        PROVE  SlaInv'
    <3>1. CASE \/ reached
               \/ ~ (Age(p) >= CriticalHours) /\ ~ (Age(p) >= WarningHours)
      <4>1. \/ reached
            \/ ~ (Age(p) >= CriticalHours)
        BY <3>1
      <4>2. Correlated(p, reached) = [job EXCEPT !.pc = "next", !.pr = 0]
        BY <3>1 DEF Correlated
      <4>3. job' = [[job EXCEPT !.pc = "next", !.pr = 0] EXCEPT !.blind = blind]
        BY <2>1, <4>2
      <4>4. "next" \in SlaPcs /\ 0 \in FixPrs \cup {0}
        BY DEF SlaPcs
      <4>5. job' \in SlaJob
        BY <4>3, <4>4, <1>a, Zenon DEF SlaJob
      <4>6. /\ job'.pc = "next" /\ job'.overdue = job.overdue /\ job'.todo = job.todo
            /\ job'.covered = job.covered /\ job'.dry = job.dry /\ job'.blind = blind
            /\ job'.errors = job.errors
        BY <4>3, <1>a DEF SlaJob
      <4>7. job'.blind \/ job.pr \notin job.overdue \/ ReachedProd(job.pr)
        BY <1>0, <2>0, <2>1, <2>s, <4>1, <4>6 DEF SlaInv, ScanTracks
      <4> QED
        BY <1>z, <2>0, <2>1, <4>5, <4>6, <4>7
    <3>2. CASE ~ reached /\ (Age(p) >= CriticalHours \/ Age(p) >= WarningHours)
      <4>1. PICK pc \in {"issue", "warn"} :
              /\ Correlated(p, reached) = [job EXCEPT !.pc = pc]
              /\ pc = "warn" => ~ (Age(p) >= CriticalHours)
        BY <3>2 DEF Correlated
      <4>2. job' = [[job EXCEPT !.pc = pc] EXCEPT !.blind = blind]
        BY <2>1, <4>1
      <4>3. pc \in SlaPcs
        BY DEF SlaPcs
      <4>4. job' \in SlaJob
        BY <4>2, <4>3, <1>a, Zenon DEF SlaJob
      <4>5. /\ job'.pc = pc /\ job'.overdue = job.overdue /\ job'.todo = job.todo /\ job'.pr = p
            /\ job'.covered = job.covered /\ job'.dry = job.dry /\ job'.blind = blind
            /\ job'.errors = job.errors
        BY <4>2, <2>s, <1>a DEF SlaJob
      <4>6. /\ \A o : (Contains(env.merges, o)' <=> Contains(env.merges, o)) /\ Age(o)' = Age(o)
            /\ \A o : Settled(o) => Settled(o)'
        BY <2>1, <4>5 DEF Contains, Age, Settled, ReachedProd
      <4>7. ScanTracks'
        BY <1>0, <2>0, <4>1, <4>5, <4>6 DEF SlaInv, ScanTracks
      <4>8. ScanComplete' /\ JudgedSees'
        BY <1>0, <2>0, <2>1, <2>s, <4>5, <4>6 DEF SlaInv, ScanComplete, JudgedSees
      <4> QED
        BY <1>0, <2>1, <4>4, <4>7, <4>8, SlaJobKeeps
    <3> QED
      BY <3>1, <3>2
  <2>2. CASE Step(env, Correlated(job.pr, \E r \in DOMAIN env.runs : Carries(r, job.pr, {}, {})))
    <3>1. CASE \E r \in DOMAIN env.runs : Carries(r, p, {}, {})
      <4>1. ReachedProd(p)
        BY <1>0, <3>1, CarriedReached
      <4>2. env' = env /\ job' = Correlated(p, TRUE)
        BY <2>2, <2>s, <3>1 DEF Step, Correlated
      <4>3. job' = [Correlated(p, TRUE) EXCEPT !.blind = job.blind]
        <5>1. Correlated(p, TRUE) = [job EXCEPT !.pc = "next", !.pr = 0]
          BY DEF Correlated
        <5> QED
          BY <4>2, <5>1, <1>a DEF SlaJob
      <4> QED
        BY <2>1, <4>1, <4>2, <4>3, <1>a, <1>c
    <3>2. CASE ~ \E r \in DOMAIN env.runs : Carries(r, p, {}, {})
      <4>2. env' = env /\ job' = Correlated(p, FALSE)
        BY <2>2, <2>s, <3>2 DEF Step, Correlated
      <4>3. job' = [Correlated(p, FALSE) EXCEPT !.blind = job.blind]
        <5>1. PICK pc, pr : Correlated(p, FALSE) = [job EXCEPT !.pc = pc, !.pr = pr]
          <6>1. \/ Correlated(p, FALSE) = [job EXCEPT !.pc = "next", !.pr = 0]
                \/ Correlated(p, FALSE) = [job EXCEPT !.pc = "issue"]
                \/ Correlated(p, FALSE) = [job EXCEPT !.pc = "warn"]
            BY DEF Correlated
          <6>2. \A x : [job EXCEPT !.pc = x] = [job EXCEPT !.pc = x, !.pr = job.pr]
            BY <1>a DEF SlaJob
          <6> QED
            BY <6>1, <6>2
        <5> QED
          BY <4>2, <5>1, <1>a DEF SlaJob
      <4> QED
        BY <2>1, <4>2, <4>3, <1>a, <1>c
    <3> QED
      BY <3>1, <3>2
  <2>3. CASE \E mute, deaf \in SUBSET (DOMAIN env.runs) :
               /\ MayFail /\ mute # {}
               /\ Step(GhFault(env), [Correlated(job.pr, \E r \in DOMAIN env.runs : Carries(r, job.pr, mute, deaf))
                                        EXCEPT !.blind = TRUE])
    <3>1. PICK mute, deaf \in SUBSET (DOMAIN env.runs) :
            /\ env' = GhFault(env)
            /\ job' = [Correlated(p, \E r \in DOMAIN env.runs : Carries(r, p, mute, deaf))
                         EXCEPT !.blind = TRUE]
      BY <2>3, <2>s DEF Step
    <3>2. \/ job' = [Correlated(p, TRUE) EXCEPT !.blind = TRUE]
          \/ job' = [Correlated(p, FALSE) EXCEPT !.blind = TRUE]
      <4>1. CASE \E r \in DOMAIN env.runs : Carries(r, p, mute, deaf)
        BY <3>1, <4>1 DEF Correlated
      <4>2. CASE ~ \E r \in DOMAIN env.runs : Carries(r, p, mute, deaf)
        BY <3>1, <4>2 DEF Correlated
      <4> QED
        BY <4>1, <4>2
    <3> QED
      BY <2>1, <3>1, <3>2, <1>f
  <2>4. CASE MayFail /\ Step(GhFault(env), [job EXCEPT !.pc = "next", !.pr = 0, !.errors = TRUE])
    <3>1. env' = GhFault(env) /\ job' = [job EXCEPT !.pc = "next", !.pr = 0, !.errors = TRUE]
      BY <2>4 DEF Step
    <3>2. "next" \in SlaPcs /\ 0 \in FixPrs \cup {0} /\ TRUE \in BOOLEAN
      BY DEF SlaPcs
    <3>3. job' \in SlaJob
      BY <3>1, <3>2, <1>a, Zenon DEF SlaJob
    <3>4. /\ job'.pc = "next" /\ job'.overdue = job.overdue /\ job'.todo = job.todo
          /\ job'.covered = job.covered /\ job'.dry = job.dry /\ job'.blind = job.blind
          /\ job'.errors
      BY <3>1, <1>a DEF SlaJob
    <3> QED
      BY <1>f, <1>z, <2>0, <3>1, <3>3, <3>4
  <2> QED
    BY <1>8, <2>2, <2>3, <2>4 DEF CorrelateDeploys
<1>9. CASE OpenIssue
  <2>0. job.pc = "issue" /\ job.pr \in FixPrs
    BY <1>0, <1>9 DEF OpenIssue, At, SlaInv, ScanTracks
  <2>1. "next" \in SlaPcs /\ 0 \in FixPrs \cup {0} /\ job.covered \cup {job.pr} \in SUBSET FixPrs
        /\ env.open \cup {job.pr} \in SUBSET FixPrs
    BY <2>0, <1>b, <1>c DEF SlaPcs
  <2>2. PICK dealt \in SlaJob :
          /\ dealt = [job EXCEPT !.pc = "next", !.pr = 0]
          /\ dealt.pc = "next" /\ dealt.overdue = job.overdue /\ dealt.todo = job.todo
          /\ dealt.covered = job.covered /\ dealt.dry = job.dry /\ dealt.blind = job.blind
          /\ dealt.errors = job.errors
    <3>1. [job EXCEPT !.pc = "next", !.pr = 0] \in SlaJob
      BY <2>1, <1>a, Zenon DEF SlaJob
    <3>2. /\ [job EXCEPT !.pc = "next", !.pr = 0].pc = "next"
          /\ [job EXCEPT !.pc = "next", !.pr = 0].overdue = job.overdue
          /\ [job EXCEPT !.pc = "next", !.pr = 0].todo = job.todo
          /\ [job EXCEPT !.pc = "next", !.pr = 0].covered = job.covered
          /\ [job EXCEPT !.pc = "next", !.pr = 0].dry = job.dry
          /\ [job EXCEPT !.pc = "next", !.pr = 0].blind = job.blind
          /\ [job EXCEPT !.pc = "next", !.pr = 0].errors = job.errors
      BY <1>a DEF SlaJob
    <3> QED
      BY <3>1, <3>2
  <2>3. PICK opened \in SlaEnv :
          /\ opened = IF Marked(job.pr) THEN env ELSE [env EXCEPT !.open = @ \cup {job.pr}]
          /\ opened.runs = env.runs /\ opened.merges = env.merges /\ opened.hour = env.hour
          /\ opened.mergedAt = env.mergedAt /\ job.pr \in opened.open
    <3>1. /\ [env EXCEPT !.open = @ \cup {job.pr}] \in SlaEnv
          /\ [env EXCEPT !.open = @ \cup {job.pr}].runs = env.runs
          /\ [env EXCEPT !.open = @ \cup {job.pr}].merges = env.merges
          /\ [env EXCEPT !.open = @ \cup {job.pr}].hour = env.hour
          /\ [env EXCEPT !.open = @ \cup {job.pr}].mergedAt = env.mergedAt
          /\ job.pr \in [env EXCEPT !.open = @ \cup {job.pr}].open
      BY <2>1, <1>a DEF SlaEnv
    <3>2. CASE Marked(job.pr)
      BY <3>2, <1>a DEF Marked
    <3>3. CASE ~ Marked(job.pr)
      BY <3>1, <3>3
    <3> QED
      BY <3>2, <3>3
  <2>4. CASE job.dry /\ env' = env /\ job' = dealt
    BY <1>a, <1>z, <2>0, <2>2, <2>4
  <2>5. CASE env' = opened /\ job' = [dealt EXCEPT !.covered = @ \cup {job.pr}]
    <3>1. /\ job' \in SlaJob /\ job'.pc = "next" /\ job'.overdue = job.overdue /\ job'.todo = job.todo
          /\ job'.covered = job.covered \cup {job.pr} /\ job'.dry = job.dry /\ job'.blind = job.blind
          /\ job'.errors = job.errors
      BY <2>1, <2>2, <2>5 DEF SlaJob
    <3> QED
      BY <1>z, <2>0, <2>3, <2>5, <3>1
  <2>6. CASE env' = GhFault(env) /\ job' = Exits(job, "1")
    BY <1>f, <1>y, <2>6
  <2>7. CASE env' = GhFault(opened) /\ job' = Exits(job, "1")
    <3>1. opened.faults + 1 \in Nat
      BY DEF SlaEnv
    <3>2. env' \in SlaEnv /\ env'.runs = env.runs
      BY <2>3, <2>7, <3>1 DEF GhFault, SlaEnv
    <3> QED
      BY <1>y, <2>7, <3>2
  <2>8. \/ job.dry /\ env' = env /\ job' = dealt
        \/ env' = opened /\ job' = [dealt EXCEPT !.covered = @ \cup {job.pr}]
        \/ env' = GhFault(env) /\ job' = Exits(job, "1")
        \/ env' = GhFault(opened) /\ job' = Exits(job, "1")
    BY <1>9, <2>2, <2>3 DEF OpenIssue, Step
  <2> QED
    BY <2>4, <2>5, <2>6, <2>7, <2>8
<1>10. CASE WarnOnPr
  <2>0. job.pc = "warn" /\ job.pr \in FixPrs /\ job.pr \notin job.overdue
    BY <1>0, <1>10 DEF WarnOnPr, At, SlaInv, ScanTracks
  <2>1. CASE env' = GhFault(env) /\ job' = Exits(job, "1")
    BY <1>f, <1>y, <2>1
  <2>2. CASE /\ env' = (IF job.dry THEN env ELSE [env EXCEPT !.warned = @ \cup {job.pr}])
             /\ job' = [job EXCEPT !.pc = "next", !.pr = 0]
    <3>1. env.warned \cup {job.pr} \in SUBSET FixPrs /\ "next" \in SlaPcs /\ 0 \in FixPrs \cup {0}
      BY <2>0, <1>b DEF SlaPcs
    <3>2. /\ env' \in SlaEnv /\ env'.runs = env.runs /\ env'.merges = env.merges
          /\ env'.hour = env.hour /\ env'.mergedAt = env.mergedAt
      <4>1. CASE job.dry
        BY <1>a, <2>2, <4>1
      <4>2. CASE ~ job.dry
        <5>1. env' = [env EXCEPT !.warned = env.warned \cup {job.pr}]
          BY <2>2, <4>2
        <5> QED
          BY <5>1, <1>a, <3>1 DEF SlaEnv
      <4> QED
        BY <4>1, <4>2
    <3>3. job' \in SlaJob
      BY <2>2, <3>1, <1>a, Zenon DEF SlaJob
    <3>4. /\ job'.pc = "next" /\ job'.overdue = job.overdue /\ job'.todo = job.todo
          /\ job'.covered = job.covered /\ job'.dry = job.dry /\ job'.blind = job.blind
          /\ job'.errors = job.errors
      BY <2>2, <1>a DEF SlaJob
    <3> QED
      BY <1>z, <2>0, <3>2, <3>3, <3>4
  <2> QED
    BY <1>10, <2>1, <2>2 DEF WarnOnPr, Step
<1>11. CASE EndScan
  <2>1. /\ env' = env /\ job.pc = "next" /\ job.todo = {}
        /\ job' = Exits(job, IF job.errors THEN "1" ELSE "0")
    BY <1>11 DEF EndScan, At, Step
  <2>2. CASE job.errors
    BY <1>a, <1>y, <2>1, <2>2
  <2>3. CASE ~ job.errors
    <3>1. /\ "judged" \in SlaPcs /\ "0" \in {"none", "0", "1"} /\ {} \in SUBSET FixPrs
          /\ 0 \in FixPrs \cup {0} /\ FALSE \in BOOLEAN
      BY DEF SlaPcs
    <3>2. PICK over \in SlaJob :
            /\ over = [job EXCEPT !.pc = "judged", !.verdict = "0", !.todo = {}, !.pr = 0]
            /\ over.pc = "judged" /\ over.overdue = job.overdue /\ over.covered = job.covered
            /\ over.dry = job.dry /\ over.blind = job.blind
      <4>1. [job EXCEPT !.pc = "judged", !.verdict = "0", !.todo = {}, !.pr = 0] \in SlaJob
        BY <3>1, <1>a, Zenon DEF SlaJob
      <4>2. /\ [job EXCEPT !.pc = "judged", !.verdict = "0", !.todo = {}, !.pr = 0].pc = "judged"
            /\ [job EXCEPT !.pc = "judged", !.verdict = "0", !.todo = {}, !.pr = 0].overdue = job.overdue
            /\ [job EXCEPT !.pc = "judged", !.verdict = "0", !.todo = {}, !.pr = 0].covered = job.covered
            /\ [job EXCEPT !.pc = "judged", !.verdict = "0", !.todo = {}, !.pr = 0].dry = job.dry
            /\ [job EXCEPT !.pc = "judged", !.verdict = "0", !.todo = {}, !.pr = 0].blind = job.blind
        BY <1>a DEF SlaJob
      <4> QED
        BY <4>1, <4>2
    <3>3. CASE ~ job.dry /\ ~ job.blind
      <4>1. job' = over
        BY <2>1, <2>3, <3>2, <3>3 DEF Exits
      <4>2. \A p \in job.overdue : Settled(p)
        BY <1>0, <2>1, <2>3, <3>3 DEF SlaInv, ScanComplete
      <4>3. \A p : Settled(p) => Settled(p)'
        BY <2>1, <3>2, <4>1 DEF Settled, ReachedProd
      <4>4. ScanTracks' /\ ScanComplete' /\ JudgedSees'
        BY <3>2, <4>1, <4>2, <4>3 DEF ScanTracks, ScanComplete, JudgedSees
      <4> QED
        BY <1>0, <1>a, <2>1, <4>1, <4>4, SlaJobKeeps
    <3>4. CASE job.dry \/ job.blind
      <4>1. job' = [over EXCEPT !.overdue = {}, !.covered = {}, !.errors = FALSE]
        BY <2>1, <2>3, <3>2, <3>4 DEF Exits
      <4>2. job' \in SlaJob
        BY <3>1, <4>1, Zenon DEF SlaJob
      <4>3. job'.pc = "judged" /\ job'.overdue = {}
        BY <3>2, <4>1 DEF SlaJob
      <4>4. ScanTracks' /\ ScanComplete' /\ JudgedSees'
        BY <4>3 DEF ScanTracks, ScanComplete, JudgedSees
      <4> QED
        BY <1>0, <1>a, <2>1, <4>2, <4>4, SlaJobKeeps
    <3> QED
      BY <3>3, <3>4
  <2> QED
    BY <2>2, <2>3
<1> QED
  BY <1>1, <1>2, <1>3, <1>4, <1>5, <1>6, <1>7, <1>8, <1>9, <1>10, <1>11 DEF SlaNext

\* The invariant gives what a clean scan promises.
LEMMA SlaSafe == SlaInv => CleanScanSeesOverdue
  BY DEF SlaInv, JudgedSees, Settled, CleanScanSeesOverdue

-----------------------------------------------------------------------------
(* HostCeremony: the ceremonies of the GPU host. *)

Sources == {"base", "target"}
TaskStates == {"running", "stopped", "disabled"}
Hosts == [head : Sources, live : TaskStates, meet : TaskStates, consumer : BOOLEAN,
          permit : {"base", "target", "expired"}]
HostOps ==
  {"head", "both-running", "both-fenced", "enabled", "disabled", "consumer-idle", "permitted",
   "consumer-off", "pin", "install", "stop-live", "disable-live", "enable-live", "start-live",
   "stop-meet", "disable-meet", "enable-meet", "start-meet"}
Scripts == [ops : Seq(HostOps), at : Nat, src : Sources]
CeremonyEnv ==
  [kind : {"renew", "promote"}, host : Hosts, script : Scripts, stray : Scripts, calm : BOOLEAN,
   faults : Nat]
ScriptPcs == {"preflight", "stage", "pin", "start", "activate", "rollout", "ready", "fence"}
CeremonyPcs == ScriptPcs \cup {"root", "permit", "readhead", "done"}
CeremonyVerdicts ==
  {"none", "failed", "installed", "accepted", "reaccepted", "preflight-only"}
CeremonyJob ==
  [pc : CeremonyPcs, sent : BOOLEAN, goal : Sources, src : Sources,
   containment : {"none", "fenced", "unverified"}, verdict : CeremonyVerdicts]
CeremonyTypes == env \in CeremonyEnv /\ job \in CeremonyJob

(* Where the ceremony is and the sources it works with. *)
CeremonyTracks ==
  /\ job.sent => job.pc \in ScriptPcs
  /\ job.pc \in {"preflight", "root"} => job.goal = "base" /\ job.src = "base"
  /\ env.kind = "renew" =>
       job.goal = "base" /\ job.src = "base" /\ job.pc \notin {"pin", "start", "readhead"}
  /\ job.pc \in {"start", "permit", "activate", "rollout", "ready"} => job.src = job.goal
  /\ job.pc = "fence" /\ job.sent => job.containment = "fenced"
  /\ job.pc # "done" /\ ~ (job.pc = "fence" /\ job.sent) => job.containment = "none"

(* The script under way is the one of the step. *)
ScriptTracks ==
  job.sent /\ env.script # NoScript =>
    /\ env.script.ops = ScriptOf(job.pc) /\ env.script.at \in 1..Len(env.script.ops)
    /\ env.script.src = IF job.pc = "pin" THEN job.goal ELSE job.src

(* Step n of the script has been taken. *)
Taken(n) == env.script = NoScript \/ env.script.at > n

Untouched == job.pc \in {"preflight", "root"} => env.host = HostBefore(env.kind)
StaysFenced ==
  env.kind = "renew" /\ (job.pc \in {"permit", "activate"} \/ (job.pc = "stage" /\ job.sent /\ Taken(2))) =>
    env.host.live = "disabled"
Activates ==
  job.pc = "activate" /\ job.sent =>
    /\ Taken(1) => env.host.head = job.src
    /\ Taken(3) => env.host.permit = job.src /\ env.host.consumer
    /\ Taken(6) => env.host.meet = "disabled"
Permits == job.pc \in {"rollout", "ready"} => env.host.permit = job.src
Readies ==
  job.pc = "ready" /\ job.sent =>
    /\ Taken(1) => env.host.head = job.src
    /\ Taken(2) => env.host.consumer
    /\ Taken(3) => env.host.live = "running" /\ env.host.meet = "running"
Fences ==
  job.pc = "fence" /\ job.sent =>
    /\ Taken(2) => env.host.live = "disabled"
    /\ Taken(4) => env.host.meet = "disabled"

RunsSource(s) ==
  /\ env.host.head = s /\ env.host.permit = s /\ env.host.consumer
  /\ env.host.live = "running" /\ env.host.meet = "running"
Reports ==
  job.pc = "done" =>
    /\ job.verdict = "accepted" => RunsSource("target")
    /\ job.verdict = "reaccepted" => RunsSource("base")
    /\ job.verdict = "installed" =>
         /\ env.host.head = "base" /\ env.host.permit = "base" /\ env.host.consumer
         /\ env.host.live = "disabled" /\ env.host.meet = "disabled"
    /\ job.verdict = "failed" /\ job.containment = "fenced" =>
         env.host.live = "disabled" /\ env.host.meet = "disabled"
    /\ (job.verdict = "preflight-only" \/ (job.verdict = "failed" /\ job.containment = "none")) =>
         env.host = HostBefore(env.kind)

(* What is known of the host, step by step of the script under way. *)
HostTracks ==
  /\ Untouched /\ StaysFenced /\ Activates /\ Permits /\ Readies /\ Fences /\ Reports

(* Without a script that outlived its call. *)
CalmTracks == env.calm => env.stray = NoScript /\ ScriptTracks /\ HostTracks

CeremonyInv == CeremonyTypes /\ CeremonyTracks /\ CalmTracks

-----------------------------------------------------------------------------
\* What a step of a script does to the host, field by field.
LEMMA TookHost ==
  ASSUME env.host \in Hosts, NEW op, NEW src \in Sources
  PROVE  /\ Took(op, src) \in Hosts
         /\ op \notin {"stop-live", "disable-live", "enable-live", "start-live"} =>
              Took(op, src).live = env.host.live
         /\ op \notin {"stop-meet", "disable-meet", "enable-meet", "start-meet"} =>
              Took(op, src).meet = env.host.meet
         /\ op = "disable-live" => Took(op, src).live = "disabled"
         /\ op = "disable-meet" => Took(op, src).meet = "disabled"
         /\ op # "pin" => Took(op, src).head = env.host.head
         /\ op \notin {"install", "consumer-off"} => Took(op, src).consumer = env.host.consumer
         /\ op # "install" => Took(op, src).permit = env.host.permit
         /\ op = "install" => Took(op, src).consumer /\ Took(op, src).permit = src
<1> DEFINE Task(was, stop, disable, enable, start) ==
             IF op = stop /\ was = "running" THEN "stopped"
             ELSE IF op = disable THEN "disabled"
             ELSE IF op = enable /\ was = "disabled" THEN "stopped"
             ELSE IF op = start THEN "running" ELSE was
<1>0. /\ env.host.head \in Sources /\ env.host.live \in TaskStates /\ env.host.meet \in TaskStates
      /\ env.host.consumer \in BOOLEAN /\ env.host.permit \in {"base", "target", "expired"}
  BY DEF Hosts
<1>1. PICK live \in TaskStates :
        /\ live = Task(env.host.live, "stop-live", "disable-live", "enable-live", "start-live")
        /\ op \notin {"stop-live", "disable-live", "enable-live", "start-live"} => live = env.host.live
        /\ op = "disable-live" => live = "disabled"
  BY <1>0 DEF TaskStates
<1>2. PICK meet \in TaskStates :
        /\ meet = Task(env.host.meet, "stop-meet", "disable-meet", "enable-meet", "start-meet")
        /\ op \notin {"stop-meet", "disable-meet", "enable-meet", "start-meet"} => meet = env.host.meet
        /\ op = "disable-meet" => meet = "disabled"
  BY <1>0 DEF TaskStates
<1>3. PICK head \in Sources :
        head = (IF op = "pin" THEN src ELSE env.host.head) /\ (op # "pin" => head = env.host.head)
  BY <1>0
<1>4. PICK consumer \in BOOLEAN :
        /\ consumer = (IF op = "install" THEN TRUE
                       ELSE IF op = "consumer-off" THEN FALSE ELSE env.host.consumer)
        /\ op \notin {"install", "consumer-off"} => consumer = env.host.consumer
        /\ op = "install" => consumer
  BY <1>0
<1>5. PICK permit \in {"base", "target", "expired"} :
        /\ permit = (IF op = "install" THEN src ELSE env.host.permit)
        /\ op # "install" => permit = env.host.permit
        /\ op = "install" => permit = src
  BY <1>0 DEF Sources
<1>6. Took(op, src) = [env.host EXCEPT !.live = live, !.meet = meet, !.head = head,
                                       !.consumer = consumer, !.permit = permit]
  BY <1>1, <1>2, <1>3, <1>4, <1>5, Zenon DEF Took
<1> HIDE DEF Task
<1>7. Took(op, src) \in Hosts
  BY <1>6, Zenon DEF Hosts
<1>8. /\ Took(op, src).live = live /\ Took(op, src).meet = meet /\ Took(op, src).head = head
      /\ Took(op, src).consumer = consumer /\ Took(op, src).permit = permit
  BY <1>6 DEF Hosts
<1> QED
  BY <1>1, <1>2, <1>3, <1>4, <1>5, <1>7, <1>8

\* A step that only checks leaves the host as it is.
LEMMA CheckTook ==
  ASSUME env.host \in Hosts, NEW src \in Sources,
         NEW op \in {"head", "both-running", "both-fenced", "enabled", "disabled", "consumer-idle",
                     "permitted"}
  PROVE  Took(op, src) = env.host
<1>1. /\ Took(op, src) \in Hosts /\ Took(op, src).live = env.host.live
      /\ Took(op, src).meet = env.host.meet /\ Took(op, src).head = env.host.head
      /\ Took(op, src).consumer = env.host.consumer /\ Took(op, src).permit = env.host.permit
  BY TookHost
<1> QED
  BY <1>1 DEF Hosts

\* The scripts are sequences of steps.
LEMMA ScriptsTyped ==
  ASSUME NEW pc \in ScriptPcs
  PROVE  ScriptOf(pc) \in Seq(HostOps) /\ ScriptOf(pc) # <<>>
<1>1. PREFLIGHT \in Seq(HostOps) /\ PREFLIGHT # <<>>
  BY DEF PREFLIGHT, HostOps
<1>2. STAGE \in Seq(HostOps) /\ STAGE # <<>>
  BY DEF STAGE, HostOps
<1>3. STOP_AND_STAGE \in Seq(HostOps) /\ STOP_AND_STAGE # <<>>
  BY DEF STOP_AND_STAGE, HostOps
<1>4. PIN \in Seq(HostOps) /\ PIN # <<>>
  BY DEF PIN, HostOps
<1>5. START_DISABLED \in Seq(HostOps) /\ START_DISABLED # <<>>
  BY DEF START_DISABLED, HostOps
<1>6. ACTIVATE \in Seq(HostOps) /\ ACTIVATE # <<>>
  BY DEF ACTIVATE, HostOps
<1>7. ROLLOUT \in Seq(HostOps) /\ ROLLOUT # <<>>
  BY DEF ROLLOUT, HostOps
<1>8. READY \in Seq(HostOps) /\ READY # <<>>
  BY DEF READY, HostOps
<1>9. FENCE \in Seq(HostOps) /\ FENCE # <<>>
  BY DEF FENCE, HostOps
<1> QED
  BY <1>1, <1>2, <1>3, <1>4, <1>5, <1>6, <1>7, <1>8, <1>9 DEF ScriptOf, ScriptPcs

\* What is left of a script is a script.
LEMMA RestTyped ==
  ASSUME NEW s \in Scripts
  PROVE  Rest(s) \in Scripts
<1>1. NoScript \in Scripts
  BY DEF NoScript, Scripts, Sources
<1>2. [s EXCEPT !.at = s.at + 1] \in Scripts
  BY DEF Scripts
<1> QED
  BY <1>1, <1>2 DEF Rest

\* The host a ceremony finds is a host.
LEMMA HostBeforeTyped ==
  ASSUME NEW kind \in {"renew", "promote"}
  PROVE  HostBefore(kind) \in Hosts
  BY DEF HostBefore, Hosts, Sources, TaskStates

\* A ceremony starts on a host nobody touched.
LEMMA CeremonyStart == CeremonyInit => CeremonyInv
<1> SUFFICES ASSUME CeremonyInit PROVE CeremonyInv
  OBVIOUS
<1>1. PICK kind \in {"renew", "promote"} :
        env = [kind |-> kind, host |-> HostBefore(kind), script |-> NoScript, stray |-> NoScript,
               calm |-> TRUE, faults |-> 0]
  BY DEF CeremonyInit
<1>2. job = [pc |-> "preflight", sent |-> FALSE, goal |-> "base", src |-> "base",
             containment |-> "none", verdict |-> "none"]
  BY DEF CeremonyInit
<1>3. NoScript \in Scripts
  BY DEF NoScript, Scripts, Sources
<1>4. env \in CeremonyEnv /\ env.kind = kind /\ env.host = HostBefore(kind) /\ env.stray = NoScript
  BY <1>1, <1>3, HostBeforeTyped DEF CeremonyEnv
<1>5. job \in CeremonyJob
  BY <1>2 DEF CeremonyJob, CeremonyPcs, ScriptPcs, CeremonyVerdicts, Sources
<1>6. /\ job.pc = "preflight" /\ job.sent = FALSE /\ job.goal = "base" /\ job.src = "base"
      /\ job.containment = "none"
  BY <1>2
<1>7. CeremonyTracks
  BY <1>6 DEF CeremonyTracks
<1>8. CalmTracks
  BY <1>4, <1>6 DEF CalmTracks, ScriptTracks, HostTracks, Untouched, StaysFenced, Activates, Permits,
     Readies, Fences, Reports
<1> QED
  BY <1>4, <1>5, <1>7, <1>8 DEF CeremonyInv, CeremonyTypes

-----------------------------------------------------------------------------
\* The ceremony moves on to a step that has sent nothing: what that step
\* relies on holds of the host.
LEMMA CeremonyMoves ==
  ASSUME CeremonyInv, env' \in CeremonyEnv, job' \in CeremonyJob, env'.host = env.host,
         env'.kind = env.kind, env'.calm => env.calm /\ env'.stray = NoScript,
         CeremonyTracks', ~ job'.sent,
         env.calm => /\ job'.pc \in {"preflight", "root"} => env.host = HostBefore(env.kind)
                     /\ env.kind = "renew" /\ job'.pc \in {"permit", "activate"} =>
                          env.host.live = "disabled"
                     /\ job'.pc \in {"rollout", "ready"} => env.host.permit = job'.src
                     /\ Reports'
  PROVE  CeremonyInv'
<1>1. ASSUME env'.calm PROVE HostTracks' /\ ScriptTracks'
  <2>1. env.calm
    BY <1>1
  <2>2. Untouched' /\ StaysFenced' /\ Permits'
    BY <2>1 DEF Untouched, StaysFenced, Permits
  <2>3. Activates' /\ Readies' /\ Fences' /\ ScriptTracks'
    BY DEF Activates, Readies, Fences, ScriptTracks
  <2> QED
    BY <2>1, <2>2, <2>3 DEF HostTracks
<1> QED
  BY <1>1 DEF CeremonyInv, CeremonyTypes, CalmTracks

\* A call is refused, fails or is cut off.
LEMMA CeremonyRejected ==
  ASSUME CeremonyInv, env' \in CeremonyEnv, env'.host = env.host, env'.kind = env.kind,
         env'.calm => env.calm /\ env'.stray = NoScript,
         job.pc \in ScriptPcs \cup {"permit", "readhead"}, NEW timedOut \in BOOLEAN,
         job' = Rejected(job, timedOut) \/ (job.pc = "readhead" /\ job' = Contain(job))
  PROVE  CeremonyInv'
<1>a. job \in CeremonyJob /\ env \in CeremonyEnv
  BY DEF CeremonyInv, CeremonyTypes
<1>b. /\ "done" \in CeremonyPcs /\ "fence" \in CeremonyPcs /\ "readhead" \in CeremonyPcs
      /\ "failed" \in CeremonyVerdicts /\ "base" \in Sources /\ FALSE \in BOOLEAN
      /\ "unverified" \in {"none", "fenced", "unverified"}
  BY DEF CeremonyPcs, ScriptPcs, CeremonyVerdicts, Sources
<1>1. CASE job.pc = "fence" /\ job' = [[job EXCEPT !.containment = "unverified", !.sent = FALSE]
                                         EXCEPT !.pc = "done", !.verdict = "failed"]
  <2>1. job' \in CeremonyJob
    BY <1>1, <1>a, <1>b, Zenon DEF CeremonyJob
  <2>2. /\ job'.pc = "done" /\ job'.verdict = "failed" /\ job'.containment = "unverified"
        /\ job'.sent = FALSE /\ job'.goal = job.goal /\ job'.src = job.src
    BY <1>1, <1>a DEF CeremonyJob
  <2>3. CeremonyTracks'
    BY <2>2 DEF CeremonyInv, CeremonyTracks
  <2>4. Reports'
    BY <2>2 DEF Reports
  <2> QED
    BY <2>1, <2>2, <2>3, <2>4, CeremonyMoves
<1>2. CASE Promoting /\ job' = [job EXCEPT !.pc = "readhead", !.goal = "base", !.sent = FALSE]
           /\ job.pc # "fence"
  <2>1. job' \in CeremonyJob
    BY <1>2, <1>a, <1>b, Zenon DEF CeremonyJob
  <2>2. /\ job'.pc = "readhead" /\ job'.sent = FALSE /\ job'.goal = "base" /\ job'.src = job.src
        /\ job'.containment = job.containment
    BY <1>2, <1>a DEF CeremonyJob
  <2>3. env.kind # "renew" /\ job.containment = "none"
    BY <1>2 DEF Promoting, CeremonyInv, CeremonyTracks, ScriptPcs
  <2>4. CeremonyTracks'
    BY <2>2, <2>3 DEF CeremonyTracks
  <2>5. Reports'
    BY <2>2 DEF Reports
  <2> QED
    BY <2>1, <2>2, <2>4, <2>5, CeremonyMoves
<1>3. CASE job.pc # "fence" /\ job.pc # "preflight" /\ job' = [job EXCEPT !.pc = "fence", !.sent = FALSE]
  <2>1. job' \in CeremonyJob
    BY <1>3, <1>a, <1>b, Zenon DEF CeremonyJob
  <2>2. /\ job'.pc = "fence" /\ job'.sent = FALSE /\ job'.goal = job.goal /\ job'.src = job.src
        /\ job'.containment = job.containment
    BY <1>3, <1>a DEF CeremonyJob
  <2>3. job.containment = "none"
    BY <1>3 DEF CeremonyInv, CeremonyTracks, ScriptPcs
  <2>4. CeremonyTracks'
    BY <2>2, <2>3 DEF CeremonyInv, CeremonyTracks
  <2>5. Reports'
    BY <2>2 DEF Reports
  <2> QED
    BY <2>1, <2>2, <2>4, <2>5, CeremonyMoves
<1>4. CASE job.pc = "preflight" /\ job' = [[job EXCEPT !.sent = FALSE] EXCEPT !.pc = "done", !.verdict = "failed"]
  <2>1. job' \in CeremonyJob
    BY <1>4, <1>a, <1>b, Zenon DEF CeremonyJob
  <2>2. /\ job'.pc = "done" /\ job'.sent = FALSE /\ job'.goal = job.goal /\ job'.src = job.src
        /\ job'.containment = job.containment /\ job'.verdict = "failed"
    BY <1>4, <1>a DEF CeremonyJob
  <2>3. job.containment = "none"
    BY <1>4 DEF CeremonyInv, CeremonyTracks
  <2>4. CeremonyTracks'
    BY <2>2, <2>3 DEF CeremonyInv, CeremonyTracks
  <2>5. env.calm => env.host = HostBefore(env.kind)
    BY <1>4 DEF CeremonyInv, CalmTracks, HostTracks, Untouched
  <2>6. env.calm => Reports'
    BY <2>2, <2>3, <2>5 DEF Reports
  <2> QED
    BY <2>1, <2>2, <2>4, <2>6, CeremonyMoves
<1>5. Contain(job) = IF job.pc # "preflight" THEN [job EXCEPT !.pc = "fence", !.sent = FALSE]
                     ELSE [[job EXCEPT !.sent = FALSE] EXCEPT !.pc = "done", !.verdict = "failed"]
  BY DEF Contain, Mutated, CeremonyFails
<1>6. CASE job.pc = "readhead" /\ job' = Contain(job)
  BY <1>3, <1>5, <1>6
<1>7. CASE job' = Rejected(job, timedOut)
  <2>1. CASE job.pc = "fence"
    BY <1>1, <1>7, <2>1 DEF Rejected, CeremonyFails
  <2>2. CASE job.pc # "fence" /\ Promoting /\ job.goal = "target" /\ Mutated(job.pc) /\ ~ timedOut
    BY <1>2, <1>7, <2>2 DEF Rejected
  <2>3. CASE job.pc # "fence" /\ ~ (Promoting /\ job.goal = "target" /\ Mutated(job.pc) /\ ~ timedOut)
    <3>1. job' = Contain(job)
      BY <1>7, <2>3 DEF Rejected
    <3> QED
      BY <1>3, <1>4, <1>5, <2>3, <3>1
  <2> QED
    BY <2>1, <2>2, <2>3
<1> QED
  BY <1>6, <1>7

\* A step of the script under way: the host comes one step closer to what the
\* script promises.
LEMMA ScriptAdvances ==
  ASSUME CeremonyInv, job.sent, env.script # NoScript, job' = job, env' \in CeremonyEnv,
         env.calm, env'.kind = env.kind, env'.stray = env.stray, env'.calm = env.calm,
         env'.host = Took(env.script.ops[env.script.at], env.script.src),
         env'.script = Rest(env.script),
         Holds(env.script.ops[env.script.at], env.script.src)
  PROVE  ScriptTracks' /\ HostTracks'
<1>a. job \in CeremonyJob /\ env \in CeremonyEnv /\ ScriptTracks /\ HostTracks /\ job.pc \in ScriptPcs
  BY DEF CeremonyInv, CeremonyTypes, CeremonyTracks, CalmTracks
<1>b. /\ env.script \in Scripts /\ env.host \in Hosts /\ env.script.src \in Sources
      /\ job.src \in Sources
  BY <1>a DEF CeremonyEnv, Scripts, CeremonyJob
<1>i. /\ env.script.ops = ScriptOf(job.pc) /\ env.script.at \in 1..Len(env.script.ops)
      /\ env.script.src = IF job.pc = "pin" THEN job.goal ELSE job.src
  BY <1>a DEF ScriptTracks
<1>j. env.script.ops[env.script.at] \in HostOps
  <2>1. env.script.ops \in Seq(HostOps)
    BY <1>b DEF Scripts
  <2> QED
    BY <1>i, <2>1
<1>c. PICK op \in HostOps, src \in Sources, n \in 1..Len(env.script.ops) :
        /\ n = env.script.at /\ op = env.script.ops[n] /\ src = env.script.src
        /\ Holds(op, src) /\ env'.host = Took(op, src)
        /\ env.script.ops = ScriptOf(job.pc)
        /\ src = IF job.pc = "pin" THEN job.goal ELSE job.src
  BY <1>b, <1>i, <1>j
<1>d. /\ n = Len(ScriptOf(job.pc)) => env'.script = NoScript
      /\ n # Len(ScriptOf(job.pc)) => env'.script = [env.script EXCEPT !.at = n + 1]
  BY <1>c DEF Rest
<1>e. n \in Nat /\ Len(ScriptOf(job.pc)) \in Nat /\ n <= Len(ScriptOf(job.pc))
  BY <1>a, <1>c, ScriptsTyped
<1>f. n # Len(ScriptOf(job.pc)) =>
        /\ env'.script.at = n + 1 /\ env'.script.ops = env.script.ops
        /\ env'.script.src = env.script.src
  BY <1>b, <1>d DEF Scripts
<1>g. ScriptOf(job.pc)' = ScriptOf(job.pc)
  BY DEF ScriptOf, PREFLIGHT, STAGE, STOP_AND_STAGE, PIN, START_DISABLED, ACTIVATE, ROLLOUT, READY,
     FENCE, Promoting
<1>1. ScriptTracks'
  BY <1>c, <1>d, <1>e, <1>f, <1>g DEF ScriptTracks
\* Before the last step, a step is taken when it or a later one is at hand.
<1>2. /\ \A k \in Nat : Taken(k)' /\ n # Len(ScriptOf(job.pc)) => n >= k
      /\ \A k \in Nat : Taken(k) <=> n > k
  <2>1. \A k \in Nat : Taken(k) <=> n > k
    BY <1>c DEF Taken
  <2>2. ASSUME NEW k \in Nat, Taken(k)', n # Len(ScriptOf(job.pc)) PROVE n >= k
    <3>1. env'.script # NoScript
      <4>1. ScriptOf(job.pc) # <<>>
        BY <1>a, ScriptsTyped
      <4>2. env'.script.ops # <<>>
        BY <1>c, <1>f, <2>2, <4>1
      <4> QED
        BY <4>2 DEF NoScript
    <3>2. env'.script.at > k
      BY <2>2, <3>1 DEF Taken
    <3> QED
      BY <1>e, <1>f, <2>2, <3>2
  <2> QED
    BY <2>1, <2>2
\* What the other steps of the ceremony rely on does not concern this one.
<1>v. /\ job.pc # "preflight" => Untouched'
      /\ job.pc \notin {"stage", "activate"} => StaysFenced'
      /\ job.pc # "activate" => Activates'
      /\ job.pc \notin {"rollout", "ready"} => Permits'
      /\ job.pc # "ready" => Readies'
      /\ job.pc # "fence" => Fences'
      /\ Reports'
  <2>1. job.pc # "preflight" => Untouched'
    BY <1>a DEF Untouched, ScriptPcs
  <2>2. job.pc \notin {"stage", "activate"} => StaysFenced'
    BY <1>a DEF StaysFenced, ScriptPcs
  <2>3. job.pc # "activate" => Activates'
    BY DEF Activates
  <2>4. job.pc \notin {"rollout", "ready"} => Permits'
    BY DEF Permits
  <2>5. job.pc # "ready" => Readies'
    BY DEF Readies
  <2>6. job.pc # "fence" => Fences'
    BY DEF Fences
  <2>7. Reports'
    BY <1>a DEF Reports, ScriptPcs
  <2> QED
    BY <2>1, <2>2, <2>3, <2>4, <2>5, <2>6, <2>7
<1>h. /\ op \notin {"stop-live", "disable-live", "enable-live", "start-live"} =>
           env'.host.live = env.host.live
      /\ op \notin {"stop-meet", "disable-meet", "enable-meet", "start-meet"} =>
           env'.host.meet = env.host.meet
      /\ op = "disable-live" => env'.host.live = "disabled"
      /\ op = "disable-meet" => env'.host.meet = "disabled"
      /\ op # "pin" => env'.host.head = env.host.head
      /\ op \notin {"install", "consumer-off"} => env'.host.consumer = env.host.consumer
      /\ op # "install" => env'.host.permit = env.host.permit
      /\ op = "install" => env'.host.consumer /\ env'.host.permit = src
  BY <1>b, <1>c, TookHost
<1>k. op \in {"head", "both-running", "both-fenced", "enabled", "disabled", "consumer-idle", "permitted"} =>
        env'.host = env.host
  BY <1>b, <1>c, CheckTook
<1>3. CASE job.pc = "preflight"
  <2>1. op \in {"head", "both-running", "both-fenced", "enabled"}
    BY <1>c, <1>e, <1>3 DEF ScriptOf, PREFLIGHT
  <2>2. Untouched'
    BY <1>a, <1>k, <1>3, <2>1 DEF HostTracks, Untouched
  <2> QED
    BY <1>v, <1>1, <1>3, <2>2 DEF HostTracks
<1>4. CASE job.pc = "stage"
  <2>1. ASSUME env.kind = "renew", Taken(2)' PROVE env'.host.live = "disabled"
    <3>1. ScriptOf(job.pc) = STAGE
      BY <1>4, <2>1 DEF ScriptOf, Promoting
    <3>2. Len(ScriptOf(job.pc)) = 7
      BY <3>1 DEF STAGE
    <3>3. n \in 2..7
      BY <1>2, <1>e, <2>1, <3>2
    <3>4. CASE n = 2
      <4>1. op = "both-fenced"
        BY <1>c, <3>1, <3>4 DEF STAGE
      <4> QED
        BY <1>c, <1>h, <4>1 DEF Holds
    <3>5. CASE n \in 3..7
      <4>1. op \in {"enabled", "consumer-off", "enable-meet", "start-meet", "consumer-idle"}
        BY <1>c, <3>1, <3>5 DEF STAGE
      <4>2. env.host.live = "disabled"
        BY <1>2, <1>4, <1>a, <2>1, <3>5 DEF HostTracks, StaysFenced
      <4> QED
        BY <1>h, <4>1, <4>2
    <3> QED
      BY <3>3, <3>4, <3>5
  <2>2. StaysFenced'
    BY <1>4, <2>1 DEF StaysFenced
  <2> QED
    BY <1>v, <1>1, <1>4, <2>2 DEF HostTracks
<1>5. CASE job.pc \in {"pin", "start"}
  BY <1>v, <1>1, <1>5 DEF HostTracks
<1>6. CASE job.pc = "activate"
  <2>1. ScriptOf(job.pc) = ACTIVATE /\ Len(ScriptOf(job.pc)) = 6 /\ n \in 1..6 /\ src = job.src
    BY <1>6, <1>c, <1>e DEF ScriptOf, ACTIVATE
  <2>2. /\ n = 1 => op = "head"
        /\ n = 2 => op = "disabled"
        /\ n = 3 => op = "install"
        /\ n = 4 => op = "permitted"
        /\ n = 5 => op = "stop-meet"
        /\ n = 6 => op = "disable-meet"
    BY <1>c, <2>1 DEF ACTIVATE
  <2>3. n = 1 \/ n = 2 \/ n = 3 \/ n = 4 \/ n = 5 \/ n = 6
    BY <2>1
  <2>4. /\ n > 1 => env.host.head = job.src
        /\ n > 3 => env.host.permit = job.src /\ env.host.consumer
        /\ env.kind = "renew" => env.host.live = "disabled"
    BY <1>2, <1>6, <1>a DEF HostTracks, Activates, StaysFenced
  <2>5. env.kind = "renew" => env'.host.live = "disabled"
    BY <1>h, <2>2, <2>3, <2>4
  <2>6. env'.host.head = job.src
    <3>1. n = 1 => env.host.head = job.src
      BY <1>c, <2>1, <2>2 DEF Holds
    <3> QED
      BY <1>h, <2>2, <2>3, <2>4, <3>1
  <2>7. n >= 3 => env'.host.permit = job.src /\ env'.host.consumer
    BY <1>h, <2>1, <2>2, <2>3, <2>4
  <2>8. n = 6 => env'.host.meet = "disabled"
    BY <1>h, <2>2
  <2>9. (Taken(3)' => n >= 3) /\ (Taken(6)' => n = 6)
    <3>1. 3 \in Nat /\ 6 \in Nat
      OBVIOUS
    <3>2. (Taken(3)' /\ n # 6 => n >= 3) /\ (Taken(6)' /\ n # 6 => n >= 6)
      BY <1>2, <2>1, <3>1
    <3> QED
      BY <2>3, <3>2
  <2>10. Activates' /\ StaysFenced'
    BY <1>6, <2>5, <2>6, <2>7, <2>8, <2>9 DEF Activates, StaysFenced
  <2> QED
    BY <1>v, <1>1, <1>6, <2>10 DEF HostTracks
<1>7. CASE job.pc = "rollout"
  <2>1. op # "install"
    BY <1>c, <1>e, <1>7 DEF ScriptOf, ROLLOUT
  <2>2. Permits'
    BY <1>a, <1>h, <1>7, <2>1 DEF HostTracks, Permits
  <2> QED
    BY <1>v, <1>1, <1>7, <2>2 DEF HostTracks
<1>8. CASE job.pc = "ready"
  <2>1. ScriptOf(job.pc) = READY /\ Len(ScriptOf(job.pc)) = 3 /\ n \in 1..3 /\ src = job.src
    BY <1>8, <1>c, <1>e DEF ScriptOf, READY
  <2>2. /\ n = 1 => op = "head"
        /\ n = 2 => op = "enabled"
        /\ n = 3 => op = "both-running"
    BY <1>c, <2>1 DEF READY
  <2>3. env'.host = env.host /\ (n = 1 \/ n = 2 \/ n = 3)
    BY <1>k, <2>1, <2>2
  <2>4. /\ n > 1 => env.host.head = job.src
        /\ n > 2 => env.host.consumer
        /\ env.host.permit = job.src
    BY <1>2, <1>8, <1>a DEF HostTracks, Readies, Permits
  <2>5. /\ n = 1 => env.host.head = job.src
        /\ n = 2 => env.host.consumer
        /\ n = 3 => env.host.live = "running" /\ env.host.meet = "running"
    BY <1>c, <2>1, <2>2 DEF Holds
  <2>6. (Taken(2)' => n >= 2) /\ (Taken(3)' => n = 3)
    BY <1>2, <2>1
  <2>7. Readies' /\ Permits'
    BY <1>8, <2>1, <2>3, <2>4, <2>5, <2>6 DEF Readies, Permits
  <2> QED
    BY <1>v, <1>1, <1>8, <2>7 DEF HostTracks
<1>9. CASE job.pc = "fence"
  <2>1. ScriptOf(job.pc) = FENCE /\ Len(ScriptOf(job.pc)) = 4 /\ n \in 1..4
    BY <1>9, <1>c, <1>e DEF ScriptOf, FENCE
  <2>2. /\ n = 2 => op = "disable-live"
        /\ n = 3 => op = "stop-meet"
        /\ n = 4 => op = "disable-meet"
    BY <1>c, <2>1 DEF FENCE
  <2>3. n > 2 => env.host.live = "disabled"
    BY <1>2, <1>9, <1>a DEF HostTracks, Fences
  <2>4. (n >= 2 => env'.host.live = "disabled") /\ (n = 4 => env'.host.meet = "disabled")
    BY <1>h, <2>1, <2>2, <2>3
  <2>5. (Taken(2)' => n >= 2) /\ (Taken(4)' => n = 4)
    BY <1>2, <2>1
  <2>6. Fences'
    BY <1>9, <2>4, <2>5 DEF Fences
  <2> QED
    BY <1>v, <1>1, <1>9, <2>6 DEF HostTracks
<1>10. HostTracks'
  BY <1>a, <1>3, <1>4, <1>5, <1>6, <1>7, <1>8, <1>9 DEF ScriptPcs
<1> QED
  BY <1>1, <1>10

\* Every step of the ceremony, of its scripts and of the host keeps the
\* invariant.
LEMMA CeremonyStep == CeremonyInv /\ CeremonyNext => CeremonyInv'
<1> SUFFICES ASSUME CeremonyInv, CeremonyNext PROVE CeremonyInv'
  OBVIOUS
<1>0. CeremonyInv
  OBVIOUS
<1>a. env \in CeremonyEnv /\ job \in CeremonyJob
  BY DEF CeremonyInv, CeremonyTypes
<1>b. /\ env.kind \in {"renew", "promote"} /\ env.host \in Hosts /\ env.script \in Scripts
      /\ env.stray \in Scripts /\ env.calm \in BOOLEAN /\ env.faults \in Nat
  BY <1>a DEF CeremonyEnv
<1>c. /\ job.pc \in CeremonyPcs /\ job.sent \in BOOLEAN /\ job.goal \in Sources
      /\ job.src \in Sources
  BY <1>a DEF CeremonyJob
<1>d. env.calm => env.stray = NoScript /\ ScriptTracks /\ HostTracks
  BY <1>0 DEF CeremonyInv, CalmTracks
<1>n. NoScript \in Scripts
  BY DEF NoScript, Scripts, Sources
<1>p. /\ ScriptPcs = {"preflight", "stage", "pin", "start", "activate", "rollout", "ready", "fence"}
      /\ CeremonyPcs = ScriptPcs \cup {"root", "permit", "readhead", "done"}
  BY DEF ScriptPcs, CeremonyPcs
<1>t. CeremonyTracks
  BY <1>0 DEF CeremonyInv
\* The environment after a fault.
<1>f. PICK faults \in Nat : faults = env.faults + 1
  BY <1>b
<1>1. CASE SendScript
  <2>1. /\ job.pc \in ScriptPcs /\ ~ job.sent /\ env' = [env EXCEPT !.script = HostScript]
        /\ job' = [job EXCEPT !.sent = TRUE,
                              !.containment = IF job.pc = "fence" THEN "fenced" ELSE @]
    BY <1>1, <1>p DEF SendScript, Step
  <2>2. PICK c \in {"none", "fenced", "unverified"} :
          c = IF job.pc = "fence" THEN "fenced" ELSE job.containment
    BY <1>a DEF CeremonyJob
  <2>3. job' = [job EXCEPT !.sent = TRUE, !.containment = c]
    BY <2>1, <2>2
  <2>4. job' \in CeremonyJob
    BY <2>3, <1>a, Zenon DEF CeremonyJob
  <2>5. /\ job'.pc = job.pc /\ job'.sent = TRUE /\ job'.goal = job.goal /\ job'.src = job.src
        /\ job'.containment = c
    BY <2>3, <1>a DEF CeremonyJob
  <2>6. PICK s \in Sources : s = IF job.pc = "pin" THEN job.goal ELSE job.src
    BY <1>c
  <2>7. ScriptOf(job.pc) \in Seq(HostOps) /\ ScriptOf(job.pc) # <<>>
    BY <2>1, ScriptsTyped
  <2>8. PICK script \in Scripts :
          /\ script = HostScript /\ script.ops = ScriptOf(job.pc) /\ script.at = 1 /\ script.src = s
    <3>1. HostScript = [ops |-> ScriptOf(job.pc), at |-> 1, src |-> s]
      BY <2>6 DEF HostScript
    <3>2. /\ HostScript \in Scripts /\ HostScript.ops = ScriptOf(job.pc) /\ HostScript.at = 1
          /\ HostScript.src = s
      BY <2>7, <3>1 DEF Scripts
    <3> QED
      BY <3>2
  <2>9. env' = [env EXCEPT !.script = script]
    BY <2>1, <2>8
  <2>10. /\ env' \in CeremonyEnv /\ env'.script = script /\ env'.host = env.host
         /\ env'.kind = env.kind /\ env'.calm = env.calm /\ env'.stray = env.stray
    BY <2>9, <1>a DEF CeremonyEnv
  <2>11. ScriptOf(job.pc)' = ScriptOf(job.pc)
    BY <2>5, <2>10 DEF ScriptOf, PREFLIGHT, STAGE, STOP_AND_STAGE, PIN, START_DISABLED, ACTIVATE,
       ROLLOUT, READY, FENCE, Promoting
  <2>12. ScriptTracks'
    BY <2>5, <2>6, <2>7, <2>8, <2>10, <2>11 DEF ScriptTracks
  <2>13. script # NoScript
    BY <2>7, <2>8 DEF NoScript
  <2>14. ~ Taken(1)' /\ ~ Taken(2)' /\ ~ Taken(3)' /\ ~ Taken(4)' /\ ~ Taken(6)'
    BY <2>8, <2>10, <2>13 DEF Taken
  <2>15. CeremonyTracks'
    BY <1>t, <2>1, <2>2, <2>5, <2>10 DEF CeremonyTracks
  <2>16. ASSUME env.calm PROVE HostTracks'
    <3>1. Untouched' /\ Permits'
      BY <1>d, <2>5, <2>10, <2>16 DEF HostTracks, Untouched, Permits
    <3>2. StaysFenced'
      BY <1>d, <2>5, <2>10, <2>14, <2>16 DEF HostTracks, StaysFenced
    <3>3. Activates' /\ Readies' /\ Fences'
      BY <2>14 DEF Activates, Readies, Fences
    <3>4. Reports'
      BY <1>p, <2>1, <2>5 DEF Reports
    <3> QED
      BY <3>1, <3>2, <3>3, <3>4 DEF HostTracks
  <2>17. CalmTracks'
    BY <1>d, <2>10, <2>12, <2>16 DEF CalmTracks
  <2> QED
    BY <2>4, <2>10, <2>15, <2>17 DEF CeremonyInv, CeremonyTypes
<1>2. CASE ScriptStep
  <2>0. job.sent /\ env.script # NoScript /\ job.pc \in ScriptPcs
    BY <1>2, <1>t DEF ScriptStep, CeremonyTracks
  <2>1. CASE /\ Holds(env.script.ops[env.script.at], env.script.src) /\ job' = job
             /\ env' = [env EXCEPT !.host = Took(env.script.ops[env.script.at], env.script.src),
                                   !.script = Rest(@)]
    <3>1. env.script.src \in Sources
      BY <1>b DEF Scripts
    <3>2. PICK host \in Hosts : host = Took(env.script.ops[env.script.at], env.script.src)
      BY <1>b, <3>1, TookHost
    <3>3. PICK rest \in Scripts : rest = Rest(env.script)
      BY <1>b, RestTyped
    <3>4. env' = [env EXCEPT !.host = host, !.script = rest]
      BY <2>1, <3>2, <3>3
    <3>5. /\ env' \in CeremonyEnv /\ env'.host = host /\ env'.script = rest /\ env'.kind = env.kind
          /\ env'.calm = env.calm /\ env'.stray = env.stray
      BY <3>4, <1>a DEF CeremonyEnv
    <3>6. CeremonyTracks'
      BY <1>t, <2>1, <3>5 DEF CeremonyTracks
    <3>7. env.calm => ScriptTracks' /\ HostTracks'
      BY <1>0, <2>0, <2>1, <3>2, <3>3, <3>5, ScriptAdvances
    <3>8. CalmTracks'
      BY <1>d, <3>5, <3>7 DEF CalmTracks
    <3> QED
      BY <1>a, <2>1, <3>5, <3>6, <3>8 DEF CeremonyInv, CeremonyTypes
  <2>2. CASE job' = Rejected(job, FALSE) /\ env' = [env EXCEPT !.script = NoScript]
    <3>1. /\ env' \in CeremonyEnv /\ env'.host = env.host /\ env'.kind = env.kind
          /\ env'.calm = env.calm /\ env'.stray = env.stray
      BY <2>2, <1>a, <1>n DEF CeremonyEnv
    <3> QED
      BY <1>0, <1>d, <2>0, <2>2, <3>1, CeremonyRejected
  <2>3. CASE /\ job' = Rejected(job, FALSE)
             /\ env' = [[env EXCEPT !.script = NoScript] EXCEPT !.faults = @ + 1]
    <3>1. env' = [env EXCEPT !.script = NoScript, !.faults = faults]
      BY <1>a, <1>f, <2>3 DEF CeremonyEnv
    <3>2. /\ env' \in CeremonyEnv /\ env'.host = env.host /\ env'.kind = env.kind
          /\ env'.calm = env.calm /\ env'.stray = env.stray
      BY <3>1, <1>a, <1>n DEF CeremonyEnv
    <3> QED
      BY <1>0, <1>d, <2>0, <2>3, <3>2, CeremonyRejected
  <2> QED
    BY <1>2, <2>1, <2>2, <2>3 DEF ScriptStep, Step
<1>3. CASE RemoteAnswers
  <2>0. job.sent /\ env.script = NoScript /\ job.pc \in ScriptPcs /\ env' = env
    BY <1>3, <1>t DEF RemoteAnswers, CeremonyTracks, Step
  <2>1. Taken(1) /\ Taken(2) /\ Taken(3) /\ Taken(4) /\ Taken(6)
    BY <2>0 DEF Taken
  \* The ceremony goes on with another step.
  <2>2. ASSUME NEW pc \in CeremonyPcs \ {"done"}, NEW src \in Sources,
               job' = [job EXCEPT !.pc = pc, !.sent = FALSE, !.src = src],
               job.pc # "fence",
               pc = "root" => job.pc = "preflight", pc # "preflight", pc # "readhead",
               pc \in {"pin", "start"} => env.kind # "renew",
               pc # "root" \/ src = job.src,
               env.kind = "renew" => src = "base",
               pc \in {"start", "permit", "activate", "rollout", "ready"} => src = job.goal,
               env.calm => /\ pc = "root" => env.host = HostBefore(env.kind)
                           /\ env.kind = "renew" /\ pc \in {"permit", "activate"} =>
                                env.host.live = "disabled"
                           /\ pc \in {"rollout", "ready"} => env.host.permit = src
        PROVE  CeremonyInv'
    <3>1. job' \in CeremonyJob
      BY <2>2, <1>a, Zenon DEF CeremonyJob
    <3>2. /\ job'.pc = pc /\ job'.sent = FALSE /\ job'.src = src /\ job'.goal = job.goal
          /\ job'.containment = job.containment
      BY <2>2, <1>a DEF CeremonyJob
    <3>3. job.containment = "none"
      BY <1>p, <1>t, <2>0, <2>2 DEF CeremonyTracks
    <3>4. CeremonyTracks'
      BY <1>p, <1>t, <2>0, <2>2, <3>2, <3>3 DEF CeremonyTracks
    <3>5. Reports'
      BY <2>2, <3>2 DEF Reports
    <3> QED
      BY <1>0, <1>a, <1>d, <2>0, <2>2, <3>1, <3>2, <3>4, <3>5, CeremonyMoves
  \* The ceremony ends with a report.
  <2>3. ASSUME NEW v \in CeremonyVerdicts,
               job' = [[job EXCEPT !.pc = "done", !.sent = FALSE] EXCEPT !.verdict = v],
               env.calm =>
                 /\ v = "accepted" => RunsSource("target")
                 /\ v = "reaccepted" => RunsSource("base")
                 /\ v = "installed" =>
                      /\ env.host.head = "base" /\ env.host.permit = "base" /\ env.host.consumer
                      /\ env.host.live = "disabled" /\ env.host.meet = "disabled"
                 /\ v = "failed" =>
                      /\ job.containment = "fenced"
                      /\ env.host.live = "disabled" /\ env.host.meet = "disabled"
                 /\ v # "preflight-only"
        PROVE  CeremonyInv'
    <3>1. "done" \in CeremonyPcs /\ FALSE \in BOOLEAN
      BY <1>p
    <3>2. job' \in CeremonyJob
      BY <2>3, <3>1, <1>a, Zenon DEF CeremonyJob
    <3>3. /\ job'.pc = "done" /\ job'.sent = FALSE /\ job'.src = job.src /\ job'.goal = job.goal
          /\ job'.containment = job.containment /\ job'.verdict = v
      BY <2>3, <1>a DEF CeremonyJob
    <3>4. CeremonyTracks'
      BY <1>t, <2>0, <3>3 DEF CeremonyTracks
    <3>5. RunsSource("target")' = RunsSource("target") /\ RunsSource("base")' = RunsSource("base")
      BY <2>0 DEF RunsSource
    <3>6. env.calm => Reports'
      BY <2>0, <2>3, <3>3, <3>5 DEF Reports
    <3> QED
      BY <1>0, <1>a, <1>d, <2>0, <3>2, <3>3, <3>4, <3>6, CeremonyMoves
  <2>s. job' = Answered(job) /\ \A x : [job EXCEPT !.pc = x, !.sent = FALSE] =
                                      [job EXCEPT !.pc = x, !.sent = FALSE, !.src = job.src]
    <3>1. job' = Answered(job)
      BY <1>3 DEF RemoteAnswers, Step
    <3>2. \A x : [job EXCEPT !.pc = x, !.sent = FALSE] =
                 [job EXCEPT !.pc = x, !.sent = FALSE, !.src = job.src]
      BY <1>a DEF CeremonyJob
    <3> QED
      BY <3>1, <3>2
  <2>4. CASE job.pc = "preflight"
    <3>1. job' = [job EXCEPT !.pc = "root", !.sent = FALSE, !.src = job.src]
      BY <2>s, <2>4 DEF Answered
    <3>2. env.calm => env.host = HostBefore(env.kind)
      BY <1>d, <2>4 DEF HostTracks, Untouched
    <3>3. job.src = "base" /\ "root" \in CeremonyPcs \ {"done"}
      BY <1>p, <1>t, <2>4 DEF CeremonyTracks
    <3> QED
      BY <1>c, <2>2, <2>4, <3>1, <3>2, <3>3
  <2>5. CASE job.pc = "stage" /\ Promoting
    <3>1. job' = [job EXCEPT !.pc = "pin", !.sent = FALSE, !.src = job.src]
      BY <2>s, <2>5 DEF Answered
    <3>2. env.kind # "renew" /\ "pin" \in CeremonyPcs \ {"done"}
      BY <1>p, <2>5 DEF Promoting
    <3> QED
      BY <1>c, <2>2, <2>5, <3>1, <3>2
  <2>6. CASE job.pc = "stage" /\ ~ Promoting
    <3>1. job' = [job EXCEPT !.pc = "permit", !.sent = FALSE, !.src = job.src]
      BY <2>s, <2>6 DEF Answered
    <3>2. env.kind = "renew" /\ "permit" \in CeremonyPcs \ {"done"}
      BY <1>b, <1>p, <2>6 DEF Promoting
    <3>3. job.src = "base" /\ job.goal = "base"
      BY <1>t, <3>2 DEF CeremonyTracks
    <3>4. env.calm => env.host.live = "disabled"
      BY <1>d, <2>0, <2>1, <2>6, <3>2 DEF HostTracks, StaysFenced
    <3> QED
      BY <1>c, <2>2, <2>6, <3>1, <3>2, <3>3, <3>4
  <2>7. CASE job.pc = "pin"
    <3>1. job' = [[job EXCEPT !.pc = "start", !.sent = FALSE] EXCEPT !.src = job.goal]
      BY <2>s, <2>7 DEF Answered
    <3>2. job' = [job EXCEPT !.pc = "start", !.sent = FALSE, !.src = job.goal]
      BY <3>1, <1>a DEF CeremonyJob
    <3>3. env.kind # "renew" /\ "start" \in CeremonyPcs \ {"done"}
      BY <1>p, <1>t, <2>7 DEF CeremonyTracks
    <3> QED
      BY <1>c, <2>2, <2>7, <3>2, <3>3
  <2>8. CASE job.pc = "start"
    <3>1. job' = [job EXCEPT !.pc = "permit", !.sent = FALSE, !.src = job.src]
      BY <2>s, <2>8 DEF Answered
    <3>2. /\ env.kind # "renew" /\ job.src = job.goal
          /\ "permit" \in CeremonyPcs \ {"done"}
      BY <1>p, <1>t, <2>8 DEF CeremonyTracks
    <3> QED
      BY <1>c, <2>2, <2>8, <3>1, <3>2
  <2>9. CASE job.pc = "activate" /\ Promoting
    <3>1. job' = [job EXCEPT !.pc = "rollout", !.sent = FALSE, !.src = job.src]
      BY <2>s, <2>9 DEF Answered
    <3>2. /\ env.kind # "renew" /\ job.src = job.goal
          /\ "rollout" \in CeremonyPcs \ {"done"}
      BY <1>p, <1>t, <2>9 DEF CeremonyTracks, Promoting
    <3>3. env.calm => env.host.permit = job.src
      BY <1>d, <2>0, <2>1, <2>9 DEF HostTracks, Activates
    <3> QED
      BY <1>c, <2>2, <2>9, <3>1, <3>2, <3>3
  <2>10. CASE job.pc = "activate" /\ ~ Promoting
    <3>1. job' = [[job EXCEPT !.pc = "done", !.sent = FALSE] EXCEPT !.verdict = "installed"]
      BY <2>s, <2>10 DEF Answered
    <3>2. env.kind = "renew" /\ "installed" \in CeremonyVerdicts
      BY <1>b, <2>10 DEF Promoting, CeremonyVerdicts
    <3>3. job.src = "base"
      BY <1>t, <3>2 DEF CeremonyTracks
    <3>4. env.calm =>
            /\ env.host.head = "base" /\ env.host.permit = "base" /\ env.host.consumer
            /\ env.host.live = "disabled" /\ env.host.meet = "disabled"
      BY <1>d, <2>0, <2>1, <2>10, <3>2, <3>3 DEF HostTracks, Activates, StaysFenced
    <3> QED
      BY <2>3, <3>1, <3>2, <3>4
  <2>11. CASE job.pc = "rollout"
    <3>1. job' = [job EXCEPT !.pc = "ready", !.sent = FALSE, !.src = job.src]
      BY <2>s, <2>11 DEF Answered
    <3>2. /\ (env.kind = "renew" => job.src = "base") /\ job.src = job.goal
          /\ "ready" \in CeremonyPcs \ {"done"}
      BY <1>p, <1>t, <2>11 DEF CeremonyTracks
    <3>3. env.calm => env.host.permit = job.src
      BY <1>d, <2>11 DEF HostTracks, Permits
    <3> QED
      BY <1>c, <2>2, <2>11, <3>1, <3>2, <3>3
  <2>12. CASE job.pc = "ready"
    <3>1. PICK v \in {"accepted", "reaccepted"} : v = IF job.goal = "target" THEN "accepted" ELSE "reaccepted"
      OBVIOUS
    <3>2. job' = [[job EXCEPT !.pc = "done", !.sent = FALSE] EXCEPT !.verdict = v]
      BY <2>s, <2>12, <3>1 DEF Answered
    <3>3. job.src = job.goal /\ v \in CeremonyVerdicts
      BY <1>t, <2>12 DEF CeremonyTracks, CeremonyVerdicts
    <3>4. env.calm => RunsSource(job.goal)
      BY <1>d, <2>0, <2>1, <2>12, <3>3 DEF HostTracks, Permits, Readies, RunsSource
    <3>5. (v = "accepted" => job.goal = "target") /\ (v = "reaccepted" => job.goal = "base")
      BY <1>c, <3>1 DEF Sources
    <3> QED
      BY <2>3, <3>1, <3>2, <3>3, <3>4, <3>5
  <2>13. CASE job.pc = "fence"
    <3>1. job' = [[job EXCEPT !.pc = "done", !.sent = FALSE] EXCEPT !.verdict = "failed"]
      BY <2>s, <2>13 DEF Answered
    <3>2. job.containment = "fenced" /\ "failed" \in CeremonyVerdicts
      BY <1>t, <2>0, <2>13 DEF CeremonyTracks, CeremonyVerdicts
    <3>3. env.calm => env.host.live = "disabled" /\ env.host.meet = "disabled"
      BY <1>d, <2>0, <2>1, <2>13 DEF HostTracks, Fences
    <3> QED
      BY <2>3, <3>1, <3>2, <3>3
  <2> QED
    BY <1>p, <2>0, <2>4, <2>5, <2>6, <2>7, <2>8, <2>9, <2>10, <2>11, <2>12, <2>13
<1>4. CASE CheckRoot
  <2>0. job.pc = "root" /\ ~ job.sent /\ job.src = "base" /\ job.goal = "base" /\ job.containment = "none"
    BY <1>4, <1>p, <1>t DEF CheckRoot, At, CeremonyTracks
  <2>1. env.calm => env.host = HostBefore(env.kind)
    BY <1>d, <2>0 DEF HostTracks, Untouched
  <2>2. CASE env' = env /\ job' = [job EXCEPT !.pc = "stage", !.goal = IF Promoting THEN "target" ELSE "base"]
    <3>1. PICK goal \in Sources : goal = IF Promoting THEN "target" ELSE "base"
      BY DEF Sources
    <3>2. job' = [job EXCEPT !.pc = "stage", !.goal = goal] /\ "stage" \in CeremonyPcs
      BY <2>2, <3>1, <1>p
    <3>3. job' \in CeremonyJob
      BY <3>2, <1>a, Zenon DEF CeremonyJob
    <3>4. /\ job'.pc = "stage" /\ job'.sent = job.sent /\ job'.src = job.src /\ job'.goal = goal
          /\ job'.containment = job.containment
      BY <3>2, <1>a DEF CeremonyJob
    <3>5. CeremonyTracks'
      BY <1>b, <2>0, <2>2, <3>1, <3>4 DEF CeremonyTracks, Promoting
    <3>6. Reports'
      BY <3>4 DEF Reports
    <3> QED
      BY <1>0, <1>a, <1>d, <2>0, <2>2, <3>3, <3>4, <3>5, <3>6, CeremonyMoves
  <2>3. ASSUME NEW v \in {"preflight-only", "failed"}, job' = [job EXCEPT !.pc = "done", !.verdict = v],
               env' \in CeremonyEnv, env'.host = env.host, env'.kind = env.kind, env'.calm = env.calm,
               env'.stray = env.stray
        PROVE  CeremonyInv'
    <3>1. v \in CeremonyVerdicts /\ "done" \in CeremonyPcs
      BY <1>p DEF CeremonyVerdicts
    <3>2. job' \in CeremonyJob
      BY <2>3, <3>1, <1>a, Zenon DEF CeremonyJob
    <3>3. /\ job'.pc = "done" /\ job'.sent = job.sent /\ job'.src = job.src /\ job'.goal = job.goal
          /\ job'.containment = job.containment /\ job'.verdict = v
      BY <2>3, <1>a DEF CeremonyJob
    <3>4. CeremonyTracks'
      BY <2>0, <3>3 DEF CeremonyTracks
    <3>5. env.calm => Reports'
      BY <2>0, <2>1, <2>3, <3>3 DEF Reports
    <3> QED
      BY <1>0, <1>d, <2>0, <2>3, <3>2, <3>3, <3>4, <3>5, CeremonyMoves
  <2>4. CASE env' = env /\ job' = Ends(job, "preflight-only")
    BY <1>a, <2>3, <2>4 DEF Ends
  <2>5. CASE env' = [env EXCEPT !.faults = @ + 1] /\ job' = CeremonyFails(job)
    <3>1. env' = [env EXCEPT !.faults = faults]
      BY <1>f, <2>5
    <3>2. /\ env' \in CeremonyEnv /\ env'.host = env.host /\ env'.kind = env.kind
          /\ env'.calm = env.calm /\ env'.stray = env.stray
      BY <3>1, <1>a DEF CeremonyEnv
    <3> QED
      BY <2>3, <2>5, <3>2 DEF CeremonyFails
  <2> QED
    BY <1>4, <2>2, <2>4, <2>5 DEF CheckRoot, Step
<1>5. CASE CallCutOff
  <2>1. PICK timedOut, goesOn \in BOOLEAN :
          /\ job.sent /\ job' = Rejected(job, timedOut)
          /\ env' = [env EXCEPT !.script = NoScript, !.faults = @ + 1,
                                !.stray = IF goesOn THEN env.script ELSE @,
                                !.calm = @ /\ (~ goesOn \/ env.script = NoScript)]
    BY <1>5 DEF CallCutOff, Step
  <2>2. PICK stray \in Scripts : stray = IF goesOn THEN env.script ELSE env.stray
    BY <1>b
  <2>3. PICK calm \in BOOLEAN : calm = (env.calm /\ (~ goesOn \/ env.script = NoScript))
    BY <1>b
  <2>4. env' = [env EXCEPT !.script = NoScript, !.faults = faults, !.stray = stray, !.calm = calm]
    BY <1>f, <2>1, <2>2, <2>3
  <2>5. /\ env' \in CeremonyEnv /\ env'.host = env.host /\ env'.kind = env.kind
        /\ env'.calm = calm /\ env'.stray = stray
    BY <2>4, <1>a, <1>n DEF CeremonyEnv
  <2>6. calm => env.calm /\ stray = NoScript
    BY <1>d, <2>2, <2>3
  <2>7. job.pc \in ScriptPcs
    BY <1>t, <2>1 DEF CeremonyTracks
  <2> QED
    BY <1>0, <2>1, <2>5, <2>6, <2>7, CeremonyRejected
<1>6. CASE StrayStep
  <2>1. ~ env.calm
    BY <1>6, <1>d DEF StrayStep
  <2>2. env.stray.src \in Sources
    BY <1>b DEF Scripts
  <2>3. PICK host \in Hosts : host = Took(env.stray.ops[env.stray.at], env.stray.src)
    BY <1>b, <2>2, TookHost
  <2>4. PICK rest \in Scripts : rest = Rest(env.stray)
    BY <1>b, RestTyped
  <2>5. /\ job' = job
        /\ \/ env' = [env EXCEPT !.host = host, !.stray = rest]
           \/ env' = [env EXCEPT !.stray = NoScript]
    BY <1>6, <2>3, <2>4 DEF StrayStep, Step
  <2>6. env' \in CeremonyEnv /\ env'.kind = env.kind /\ env'.calm = env.calm
    <3>1. CASE env' = [env EXCEPT !.host = host, !.stray = rest]
      BY <3>1, <1>a DEF CeremonyEnv
    <3>2. CASE env' = [env EXCEPT !.stray = NoScript]
      BY <3>2, <1>a, <1>n DEF CeremonyEnv
    <3> QED
      BY <2>5, <3>1, <3>2
  <2>7. CeremonyTracks'
    BY <1>t, <2>5, <2>6 DEF CeremonyTracks
  <2>8. CalmTracks'
    BY <2>1, <2>6 DEF CalmTracks
  <2> QED
    BY <1>a, <2>5, <2>6, <2>7, <2>8 DEF CeremonyInv, CeremonyTypes
<1>7. CASE IssuePermit
  <2>0. job.pc = "permit" /\ ~ job.sent
    BY <1>7, <1>p, <1>t DEF IssuePermit, At, CeremonyTracks
  <2>1. CASE env' = env /\ job' = [job EXCEPT !.pc = "activate"]
    <3>1. "activate" \in CeremonyPcs
      BY <1>p
    <3>2. job' \in CeremonyJob
      BY <2>1, <3>1, <1>a, Zenon DEF CeremonyJob
    <3>3. /\ job'.pc = "activate" /\ job'.sent = job.sent /\ job'.src = job.src
          /\ job'.goal = job.goal /\ job'.containment = job.containment
      BY <2>1, <1>a DEF CeremonyJob
    <3>4. CeremonyTracks'
      BY <1>t, <2>0, <2>1, <3>3 DEF CeremonyTracks
    <3>5. env.calm /\ env.kind = "renew" => env.host.live = "disabled"
      BY <1>d, <2>0 DEF HostTracks, StaysFenced
    <3>6. Reports'
      BY <3>3 DEF Reports
    <3> QED
      BY <1>0, <1>a, <1>d, <2>0, <2>1, <3>2, <3>3, <3>4, <3>5, <3>6, CeremonyMoves
  <2>2. CASE \E timedOut \in BOOLEAN :
               env' = [env EXCEPT !.faults = @ + 1] /\ job' = Rejected(job, timedOut)
    <3>1. env' = [env EXCEPT !.faults = faults]
      BY <1>f, <2>2
    <3>2. /\ env' \in CeremonyEnv /\ env'.host = env.host /\ env'.kind = env.kind
          /\ env'.calm = env.calm /\ env'.stray = env.stray
      BY <3>1, <1>a DEF CeremonyEnv
    <3>3. PICK timedOut \in BOOLEAN : job' = Rejected(job, timedOut)
      BY <2>2
    <3> QED
      BY <1>0, <1>d, <2>0, <3>2, <3>3, CeremonyRejected
  <2> QED
    BY <1>7, <2>1, <2>2 DEF IssuePermit, Step
<1>8. CASE ReadHead
  <2>0. job.pc = "readhead" /\ ~ job.sent /\ env.kind # "renew"
    BY <1>8, <1>p, <1>t DEF ReadHead, At, CeremonyTracks
  <2>1. CASE env' = env /\ job' = [job EXCEPT !.pc = "stage", !.src = env.host.head]
    <3>1. "stage" \in CeremonyPcs /\ env.host.head \in Sources
      BY <1>b, <1>p DEF Hosts
    <3>2. job' \in CeremonyJob
      BY <2>1, <3>1, <1>a, Zenon DEF CeremonyJob
    <3>3. /\ job'.pc = "stage" /\ job'.sent = job.sent /\ job'.containment = job.containment
      BY <2>1, <1>a DEF CeremonyJob
    <3>4. CeremonyTracks'
      BY <1>t, <2>0, <2>1, <3>3 DEF CeremonyTracks
    <3>5. Reports'
      BY <3>3 DEF Reports
    <3> QED
      BY <1>0, <1>a, <1>d, <2>0, <2>1, <3>2, <3>3, <3>4, <3>5, CeremonyMoves
  <2>2. CASE env' = [env EXCEPT !.faults = @ + 1] /\ job' = Contain(job)
    <3>1. env' = [env EXCEPT !.faults = faults]
      BY <1>f, <2>2
    <3>2. /\ env' \in CeremonyEnv /\ env'.host = env.host /\ env'.kind = env.kind
          /\ env'.calm = env.calm /\ env'.stray = env.stray
      BY <3>1, <1>a DEF CeremonyEnv
    <3> QED
      BY <1>0, <1>d, <2>0, <2>2, <3>2, CeremonyRejected
  <2> QED
    BY <1>8, <2>1, <2>2 DEF ReadHead, Step
<1> QED
  BY <1>1, <1>2, <1>3, <1>4, <1>5, <1>6, <1>7, <1>8 DEF CeremonyNext

\* The invariant gives what the report of a ceremony says.
LEMMA CeremonySafe == CeremonyInv => CeremonyReportIsTrue
  BY DEF CeremonyInv, CalmTracks, HostTracks, Reports, RunsSource, CeremonyReportIsTrue

-----------------------------------------------------------------------------
(* EtlReconcile: the ETL reconcile gate. *)

TableVerdicts == {"ROW_COUNT_MISMATCH", "SAMPLE_MISMATCH", "CHECKSUM_MISMATCH", "MATCH"}
RowSets == UNION {[keys -> SourceContents] : keys \in SUBSET EtlKeys}
ReconcileEnv ==
  [src : [TableNames -> [EtlKeys -> SourceContents]], pg : [TableNames -> [EtlKeys -> PgContents]],
   changes : Nat]
ReconcilePcs ==
  {"connect", "expect", "lookup", "checksum", "count", "countpg", "sample", "verdict", "judged", "done"}
ReconcileJob ==
  [pc : ReconcilePcs, scope : {"none", "limited", "full"}, at : 1..Len(EtlTables), nMssql : Nat,
   nPg : Nat, exp : RowSets, found : RowSets, sum : RowSets, verdicts : Seq(TableVerdicts),
   verdict : {"none", "error"} \cup TableVerdicts]
ReconcileTypes == env \in ReconcileEnv /\ job \in ReconcileJob

(* There is a verdict for each table dealt with, and the report of a command
   that ended with a match has one, a match, for every table. *)
VerdictsCover ==
  /\ job.pc # "done" =>
       job.verdict = "none" /\ Len(job.verdicts) = IF job.pc = "judged" THEN job.at ELSE job.at - 1
  /\ job.verdict = "MATCH" =>
       Len(job.verdicts) = Len(EtlTables) /\ \A i \in DOMAIN job.verdicts : job.verdicts[i] = "MATCH"

SameRows ==
  \A k \in DOMAIN job.exp :
    k \in DOMAIN job.sum /\ job.sum[k] = job.exp[k] /\ ~ RowRejected(job.exp[k])

(* Limited scope: what each query has read is still true of PostgreSQL, whose
   rows are overwritten and never deleted. *)
Counted == job.nMssql = Cardinality(DOMAIN job.exp)
LookedUp ==
  /\ job.nPg = Cardinality(DOMAIN job.found) /\ DOMAIN job.found \subseteq DOMAIN job.exp
  /\ DOMAIN job.found \subseteq Present(env.pg[Table])
Summed ==
  /\ DOMAIN job.sum \subseteq DOMAIN job.exp /\ DOMAIN job.found \subseteq DOMAIN job.sum
  /\ \A k \in DOMAIN job.sum : job.sum[k] \in PgContents
LimitedTracks ==
  job.scope = "limited" =>
    /\ job.pc \in {"lookup", "checksum", "verdict"} => Counted
    /\ job.pc \in {"checksum", "verdict"} => LookedUp
    /\ job.pc = "verdict" => Summed
    /\ job.pc = "judged" /\ Last(job.verdicts) = "MATCH" => SameRows

(* Only full scope counts and samples. *)
FullScope ==
  /\ job.pc \in {"count", "countpg", "sample"} => job.scope = "full"
  /\ job.pc \notin {"connect", "done"} => job.scope # "none"

ReconcileInv == ReconcileTypes /\ VerdictsCover /\ LimitedTracks /\ FullScope

-----------------------------------------------------------------------------
\* The key after a smaller one has a higher rank, and each has a place.
LEMMA RankOrders ==
  ASSUME NEW D, IsFiniteSet(D), D \subseteq Nat, NEW j \in D, NEW k \in D, j < k
  PROVE  Rank(D, j) < Rank(D, k)
<1> DEFINE A == {i \in D : i < j}
           B == {i \in D : i < k}
<1>1. IsFiniteSet(B) /\ j \in B
  BY FS_Subset
<1>2. Cardinality(B) \in Nat /\ Cardinality(B \ {j}) = Cardinality(B) - 1 /\ IsFiniteSet(B \ {j})
  BY <1>1, FS_RemoveElement, FS_CardinalityType
<1>3. A \in SUBSET (B \ {j})
  <2> SUFFICES ASSUME NEW i \in D, i < j PROVE i < k /\ i # j
    OBVIOUS
  <2>1. i \in Nat /\ j \in Nat /\ k \in Nat
    OBVIOUS
  <2> QED
    BY <2>1
<1>4. Cardinality(A) <= Cardinality(B \ {j}) /\ IsFiniteSet(A)
  BY <1>2, <1>3, FS_Subset
<1>5. Cardinality(A) \in Nat
  BY <1>4, FS_CardinalityType
<1> QED
  BY <1>2, <1>4, <1>5 DEF Rank

\* A key is found at its place.
LEMMA KeyAtRank ==
  ASSUME NEW D, IsFiniteSet(D), D \subseteq Nat, NEW k \in D
  PROVE  /\ Rank(D, k) \in Nat /\ Rank(D, k) + 1 \in 1..Cardinality(D)
         /\ KeyAt(D, Rank(D, k) + 1) = k
<1> DEFINE A == {i \in D : i < k}
<1>1. A \in SUBSET (D \ {k})
  BY k \in Nat
<1>2. Cardinality(D) \in Nat /\ Cardinality(D \ {k}) = Cardinality(D) - 1 /\ IsFiniteSet(D \ {k})
  BY FS_RemoveElement, FS_CardinalityType
<1>3. Cardinality(A) <= Cardinality(D \ {k}) /\ IsFiniteSet(A)
  BY <1>1, <1>2, FS_Subset
<1>4. Cardinality(A) \in Nat
  BY <1>3, FS_CardinalityType
<1>5. Rank(D, k) \in Nat /\ Rank(D, k) + 1 \in 1..Cardinality(D)
  BY <1>2, <1>3, <1>4 DEF Rank
<1>6. \A j \in D : Rank(D, j) = Rank(D, k) => j = k
  <2> SUFFICES ASSUME NEW j \in D, Rank(D, j) = Rank(D, k), j # k PROVE FALSE
    OBVIOUS
  <2>1. j \in Nat /\ k \in Nat
    OBVIOUS
  <2>2. CASE j < k
    <3>1. Rank(D, j) < Rank(D, k)
      BY <2>2, RankOrders
    <3> QED
      BY <1>5, <3>1
  <2>3. CASE k < j
    <3>1. Rank(D, k) < Rank(D, j)
      BY <2>3, RankOrders
    <3> QED
      BY <1>5, <3>1
  <2> QED
    BY <2>1, <2>2, <2>3
<1>7. (Rank(D, k) + 1) - 1 = Rank(D, k)
  BY <1>5
<1>8. KeyAt(D, Rank(D, k) + 1) = CHOOSE j \in D : Rank(D, j) = Rank(D, k)
  BY <1>7 DEF KeyAt
<1> QED
  BY <1>5, <1>6, <1>8

\* Two sets of rows with the same keys and the same aggregate are the same.
LEMMA AggregateDecides ==
  ASSUME NEW f, NEW g, IsFiniteSet(DOMAIN f), DOMAIN f \subseteq Nat, DOMAIN g = DOMAIN f,
         Aggregate(f) = Aggregate(g), NEW k \in DOMAIN f
  PROVE  f[k] = g[k]
<1>1. PICK i \in 1..Cardinality(DOMAIN f) : KeyAt(DOMAIN f, i) = k
  BY KeyAtRank
<1>2. Aggregate(f)[i] = f[KeyAt(DOMAIN f, i)]
  BY <1>1 DEF Aggregate
<1>3. Aggregate(g)[i] = g[KeyAt(DOMAIN f, i)]
  BY <1>1 DEF Aggregate
<1> QED
  BY <1>1, <1>2, <1>3

\* Keys are finite in number.
LEMMA KeysFinite ==
  ASSUME NEW D \in SUBSET EtlKeys
  PROVE  IsFiniteSet(D) /\ Cardinality(D) \in Nat /\ D \subseteq Nat
<1>1. IsFiniteSet(EtlKeys) /\ EtlKeys \subseteq Nat
  BY ReconcileAssumption
<1>2. IsFiniteSet(D)
  BY <1>1, FS_Subset
<1> QED
  BY <1>1, <1>2, FS_CardinalityType

\* The rows of a query are rows.
LEMMA OnlyRows ==
  ASSUME NEW f \in [EtlKeys -> SourceContents], NEW D \in SUBSET EtlKeys
  PROVE  Only(f, D) \in RowSets /\ DOMAIN Only(f, D) = D /\ \A k \in D : Only(f, D)[k] = f[k]
<1>1. Only(f, D) \in [D -> SourceContents]
  BY DEF Only
<1> QED
  BY <1>1 DEF Only, RowSets

(* The keys of a set of rows are keys of a table. *)
LEMMA RowSetKeys ==
  ASSUME NEW f \in RowSets
  PROVE  DOMAIN f \in SUBSET EtlKeys
  BY DEF RowSets

(* The empty answer is a set of rows without a key. *)
LEMMA NoRowsAreRows == NoRows \in RowSets /\ DOMAIN NoRows = {}
  BY DEF NoRows, RowSets

\* The overall verdict is a match only when every verdict is.
LEMMA OverallMatch ==
  ASSUME NEW vs \in Seq(TableVerdicts), vs # <<>>
  PROVE  /\ OverallVerdict(vs) \in TableVerdicts
         /\ OverallVerdict(vs) = "MATCH" => \A i \in DOMAIN vs : vs[i] = "MATCH"
<1> DEFINE W == {i \in DOMAIN vs : \A j \in DOMAIN vs : Priority(vs[j]) <= Priority(vs[i])}
           P == {Priority(vs[i]) : i \in DOMAIN vs}
<1>1. DOMAIN vs = 1..Len(vs) /\ Len(vs) \in Nat /\ 1 \in DOMAIN vs
  OBVIOUS
<1>2. \A i \in DOMAIN vs : vs[i] \in TableVerdicts /\ Priority(vs[i]) \in 0..2
  BY DEF Priority
<1>3. P \subseteq 0..2 /\ P # {}
  BY <1>1, <1>2
<1>4. Max(P) \in P /\ \A m \in P : m <= Max(P)
  BY <1>3, MaxMember, 2 \in Nat
<1>5. W # {} /\ W \subseteq Nat
  <2>1. PICK i \in DOMAIN vs : Max(P) = Priority(vs[i])
    BY <1>4
  <2>2. \A j \in DOMAIN vs : Priority(vs[j]) \in P
    OBVIOUS
  <2>3. i \in W
    BY <1>4, <2>1, <2>2
  <2> QED
    BY <1>1, <2>3
<1>6. \E n \in W : \A m \in W : n <= m
  BY <1>5, LeastMember
<1>7. Min(W) \in W
  BY <1>6 DEF Min
<1>8. OverallVerdict(vs) = vs[Min(W)]
  BY DEF OverallVerdict
<1>9. vs[Min(W)] = "MATCH" => \A j \in DOMAIN vs : Priority(vs[j]) <= 0
  BY <1>7 DEF Priority
<1>10. \A j \in DOMAIN vs : Priority(vs[j]) <= 0 => vs[j] = "MATCH"
  BY DEF Priority
<1> QED
  BY <1>2, <1>7, <1>8, <1>9, <1>10

\* A table that matches in limited scope has the rows that were expected: as
\* many keys were found as were expected, so all of them, and none went away
\* before the checksum was taken.
LEMMA MatchedRows ==
  ASSUME job \in ReconcileJob, job.scope = "limited", Counted, LookedUp, Summed,
         AssignVerdict = "MATCH"
  PROVE  SameRows
<1>1. job.exp \in RowSets /\ job.found \in RowSets /\ job.sum \in RowSets
  BY DEF ReconcileJob
<1>2. DOMAIN job.exp \in SUBSET EtlKeys
  BY <1>1, RowSetKeys
<1>3. IsFiniteSet(DOMAIN job.exp) /\ DOMAIN job.exp \subseteq Nat
  BY <1>2, KeysFinite
<1>4. job.nPg = job.nMssql /\ ~ ChecksumDiffers
  BY DEF AssignVerdict
<1>5. Cardinality(DOMAIN job.exp) = Cardinality(DOMAIN job.found) /\ DOMAIN job.found \in SUBSET (DOMAIN job.exp)
  BY <1>4 DEF Counted, LookedUp
<1>6. DOMAIN job.exp = DOMAIN job.found
  BY <1>3, <1>5, FS_Subset
<1>7. DOMAIN job.sum = DOMAIN job.exp
  BY <1>6 DEF Summed
<1> SUFFICES ASSUME NEW k \in DOMAIN job.exp
             PROVE  k \in DOMAIN job.sum /\ job.sum[k] = job.exp[k] /\ ~ RowRejected(job.exp[k])
  BY DEF SameRows
<1>8. job.exp # NoRows /\ job.sum # NoRows
  BY <1>7, NoRowsAreRows
<1>9. Aggregate(job.sum) = Aggregate(job.exp)
  BY <1>4, <1>8 DEF ChecksumDiffers, MssqlAggregate
<1>10. job.exp[k] = job.sum[k]
  BY <1>3, <1>7, <1>9, AggregateDecides
<1>11. job.sum[k] # "bad"
  BY <1>7 DEF Summed, PgContents
<1> QED
  BY <1>7, <1>10, <1>11 DEF RowRejected

-----------------------------------------------------------------------------
\* No table has been looked at.
LEMMA ReconcileStart == ReconcileInit => ReconcileInv
<1> SUFFICES ASSUME ReconcileInit PROVE ReconcileInv
  OBVIOUS
<1>1. PICK start \in EtlStart : env = [src |-> start.src, pg |-> start.pg, changes |-> 0]
  BY DEF ReconcileInit
<1>2. /\ start.src \in [TableNames -> [EtlKeys -> SourceContents]]
      /\ start.pg \in [TableNames -> [EtlKeys -> PgContents]]
  <2>1. start \in [src : [TableNames -> [EtlKeys -> SourceContents]],
                   pg : [TableNames -> [EtlKeys -> PgContents]]]
    BY ReconcileAssumption
  <2> QED
    BY <2>1
<1>3. env \in ReconcileEnv
  BY <1>1, <1>2 DEF ReconcileEnv
<1>4. job = [pc |-> "connect", scope |-> "none", at |-> 1, nMssql |-> 0, nPg |-> 0,
             exp |-> NoRows, found |-> NoRows, sum |-> NoRows, verdicts |-> <<>>,
             verdict |-> "none"]
  BY DEF ReconcileInit
<1>5. 1 \in 1..Len(EtlTables)
  BY ReconcileAssumption
<1>6. "connect" \in ReconcilePcs /\ <<>> \in Seq(TableVerdicts)
  BY DEF ReconcilePcs
<1>7. job \in ReconcileJob
  BY <1>4, <1>5, <1>6, NoRowsAreRows DEF ReconcileJob
<1>8. /\ job.pc = "connect" /\ job.scope = "none" /\ job.at = 1 /\ Len(job.verdicts) = 0
      /\ job.verdict = "none"
  BY <1>4
<1> QED
  BY <1>3, <1>7, <1>8 DEF ReconcileInv, ReconcileTypes, VerdictsCover, LimitedTracks, FullScope

\* The databases change under the command: PostgreSQL loses no row.
LEMMA ReconcileEnvKeeps ==
  ASSUME ReconcileInv, env' \in ReconcileEnv, job' = job,
         \A t \in TableNames : Present(env.pg[t]) \subseteq Present(env'.pg[t])
  PROVE  ReconcileInv'
<1>1. Table' = Table /\ Table \in TableNames
  BY ReconcileAssumption DEF Table, ReconcileInv, ReconcileTypes, ReconcileJob
<1>2. LookedUp => LookedUp'
  BY <1>1 DEF LookedUp
<1>3. Counted' = Counted /\ Summed' = Summed /\ SameRows' = SameRows
  BY DEF Counted, Summed, SameRows
<1> QED
  BY <1>2, <1>3 DEF ReconcileInv, ReconcileTypes, VerdictsCover, LimitedTracks, FullScope

\* Every change of the databases and every query keeps the invariant.
LEMMA ReconcileStep == ReconcileInv /\ ReconcileNext => ReconcileInv'
<1> SUFFICES ASSUME ReconcileInv, ReconcileNext PROVE ReconcileInv'
  OBVIOUS
<1>0. ReconcileInv
  OBVIOUS
<1>a. env \in ReconcileEnv /\ job \in ReconcileJob
  BY DEF ReconcileInv, ReconcileTypes
<1>b. /\ env.src \in [TableNames -> [EtlKeys -> SourceContents]]
      /\ env.pg \in [TableNames -> [EtlKeys -> PgContents]] /\ env.changes \in Nat
  BY <1>a DEF ReconcileEnv
<1>c. /\ job.scope \in {"none", "limited", "full"} /\ job.at \in 1..Len(EtlTables)
      /\ job.nMssql \in Nat /\ job.nPg \in Nat /\ job.exp \in RowSets /\ job.found \in RowSets
      /\ job.sum \in RowSets /\ job.verdicts \in Seq(TableVerdicts)
  BY <1>a DEF ReconcileJob
<1>d. PICK t \in TableNames : t = Table
  BY <1>c, ReconcileAssumption DEF Table
<1>e. /\ env.src[t] \in [EtlKeys -> SourceContents] /\ env.pg[t] \in [EtlKeys -> PgContents]
      /\ env.pg[t] \in [EtlKeys -> SourceContents]
  <2>1. env.src[t] \in [EtlKeys -> SourceContents] /\ env.pg[t] \in [EtlKeys -> PgContents]
    BY <1>b
  <2>2. PgContents \subseteq SourceContents
    BY DEF PgContents, SourceContents
  <2> QED
    BY <2>1, <2>2
<1>g. job.pc # "done" => job.verdict = "none"
  BY <1>0 DEF ReconcileInv, VerdictsCover
<1>p. ReconcilePcs = {"connect", "expect", "lookup", "checksum", "count", "countpg", "sample",
                      "verdict", "judged", "done"}
  BY DEF ReconcilePcs
\* What a lookup in PostgreSQL returns.
<1>l. ASSUME NEW D \in SUBSET EtlKeys
      PROVE  /\ PgLookup(D) \in RowSets /\ DOMAIN PgLookup(D) = D \cap Present(env.pg[t])
             /\ DOMAIN PgLookup(D) \in SUBSET EtlKeys
             /\ \A k \in DOMAIN PgLookup(D) : PgLookup(D)[k] \in PgContents
  <2>1. PICK keys \in SUBSET EtlKeys : keys = D \cap Present(env.pg[t])
    BY <1>l
  <2>2. PgLookup(D) = Only(env.pg[t], keys)
    BY <1>d, <2>1 DEF PgLookup
  <2>3. /\ Only(env.pg[t], keys) \in RowSets /\ DOMAIN Only(env.pg[t], keys) = keys
        /\ \A k \in keys : Only(env.pg[t], keys)[k] = env.pg[t][k]
    BY <1>e, OnlyRows
  <2> QED
    BY <2>1, <2>2, <2>3, <1>e
\* What the source returns.
<1>m. ASSUME NEW n
      PROVE  MssqlFetch(n) \in RowSets /\ DOMAIN MssqlFetch(n) \in SUBSET EtlKeys
  <2>1. PICK keys \in SUBSET EtlKeys : keys = FirstKeys(Present(env.src[t]), n)
    BY <1>e DEF FirstKeys, Present
  <2>2. MssqlFetch(n) = Only(env.src[t], keys)
    BY <1>d, <2>1 DEF MssqlFetch
  <2> QED
    BY <2>2, <1>e, OnlyRows
<1>1. CASE SourceChanges
  <2>1. PICK s \in TableNames, k \in EtlKeys, c \in {"none", "v2", "bad"} :
          job' = job /\ env' = [env EXCEPT !.src[s][k] = c, !.changes = @ + 1]
    BY <1>1 DEF SourceChanges, Step
  <2>2. [env.src EXCEPT ![s][k] = c] \in [TableNames -> [EtlKeys -> SourceContents]]
    BY <1>b DEF SourceContents
  <2>3. PICK src \in [TableNames -> [EtlKeys -> SourceContents]] : src = [env.src EXCEPT ![s][k] = c]
    BY <2>2
  <2>4. PICK n \in Nat : n = env.changes + 1
    BY <1>b
  <2>5. env' = [env EXCEPT !.src = src, !.changes = n]
    BY <2>1, <2>3, <2>4, <1>a DEF ReconcileEnv
  <2>6. env' \in ReconcileEnv /\ env'.pg = env.pg
    BY <2>5, <1>a DEF ReconcileEnv
  <2> QED
    BY <1>0, <2>1, <2>6, ReconcileEnvKeeps
<1>2. CASE RowLoaded
  <2>1. PICK s \in TableNames, k \in EtlKeys :
          /\ env.src[s][k] \notin {"none", env.pg[s][k]} /\ ~ RowRejected(env.src[s][k])
          /\ job' = job /\ env' = [env EXCEPT !.pg[s][k] = env.src[s][k], !.changes = @ + 1]
    BY <1>2 DEF RowLoaded, Step
  <2>2. env.src[s][k] \in PgContents /\ env.src[s][k] # "none"
    <3>1. env.src[s][k] \in SourceContents
      BY <1>b
    <3> QED
      BY <2>1, <3>1 DEF RowRejected, SourceContents, PgContents
  <2>3. PICK c \in PgContents : c = env.src[s][k] /\ c # "none"
    BY <2>2
  <2>4. /\ [env.pg EXCEPT ![s][k] = c] \in [TableNames -> [EtlKeys -> PgContents]]
        /\ \A u \in TableNames, x \in EtlKeys :
             \/ [env.pg EXCEPT ![s][k] = c][u][x] = env.pg[u][x]
             \/ [env.pg EXCEPT ![s][k] = c][u][x] = c
    BY <1>b
  <2>5. PICK pg \in [TableNames -> [EtlKeys -> PgContents]] :
          /\ pg = [env.pg EXCEPT ![s][k] = c]
          /\ \A u \in TableNames, x \in EtlKeys : pg[u][x] = env.pg[u][x] \/ pg[u][x] = c
    BY <2>4
  <2>6. PICK n \in Nat : n = env.changes + 1
    BY <1>b
  <2>7. env' = [env EXCEPT !.pg = pg, !.changes = n]
    BY <2>1, <2>3, <2>5, <2>6, <1>a DEF ReconcileEnv
  <2>8. env' \in ReconcileEnv /\ env'.pg = pg
    BY <2>7, <1>a DEF ReconcileEnv
  <2>9. \A u \in TableNames : Present(env.pg[u]) \subseteq Present(env'.pg[u])
    <3> SUFFICES ASSUME NEW u \in TableNames, NEW x \in Present(env.pg[u])
                 PROVE  x \in Present(pg[u])
      BY <2>8
    <3>1. DOMAIN env.pg[u] = EtlKeys /\ DOMAIN pg[u] = EtlKeys
      BY <1>b
    <3> QED
      BY <2>3, <2>5, <3>1 DEF Present
  <2> QED
    BY <1>0, <2>1, <2>8, <2>9, ReconcileEnvKeeps
\* The command ends: what it read is dropped, or the report is out.
<1>x. ASSUME env' = env, job' \in ReconcileJob, job'.pc = "done", job'.verdict # "MATCH"
      PROVE  ReconcileInv'
  BY <1>a, <1>x DEF ReconcileInv, ReconcileTypes, VerdictsCover, LimitedTracks, FullScope
\* A step within a table that gives no verdict.
<1>y. ASSUME env' = env, job' \in ReconcileJob, job.pc \notin {"judged", "done"},
             job'.pc \notin {"judged", "done"}, job'.at = job.at, job'.verdicts = job.verdicts,
             job'.verdict = job.verdict, LimitedTracks', FullScope'
      PROVE  ReconcileInv'
  <2>1. VerdictsCover'
    BY <1>0, <1>y DEF ReconcileInv, VerdictsCover
  <2> QED
    BY <1>a, <1>y, <2>1 DEF ReconcileInv, ReconcileTypes
<1>3. CASE Connect
  <2>1. job.pc = "connect" /\ env' = env
    BY <1>3 DEF Connect, At, Step
  <2>2. CASE \E s \in {"limited", "full"} :
               job' = [job EXCEPT !.pc = IF s = "limited" THEN "expect" ELSE "count", !.scope = s]
    <3>1. PICK s \in {"limited", "full"} :
               job' = [job EXCEPT !.pc = IF s = "limited" THEN "expect" ELSE "count", !.scope = s]
      BY <2>2
    <3>2. PICK pc \in {"expect", "count"} : pc = IF s = "limited" THEN "expect" ELSE "count"
      OBVIOUS
    <3>3. pc \in ReconcilePcs /\ s \in {"none", "limited", "full"}
      BY <1>p
    <3>4. job' = [job EXCEPT !.pc = pc, !.scope = s]
      BY <3>1, <3>2
    <3>5. job' \in ReconcileJob
      BY <3>3, <3>4, <1>a, Zenon DEF ReconcileJob
    <3>6. job'.pc = pc /\ job'.at = job.at /\ job'.verdicts = job.verdicts /\ job'.verdict = job.verdict
          /\ job'.scope = s
      BY <3>4, <1>a DEF ReconcileJob
    <3>7. LimitedTracks' /\ FullScope'
      BY <3>2, <3>6, <1>a DEF LimitedTracks, FullScope
    <3> QED
      BY <1>y, <2>1, <3>5, <3>6, <3>7
  <2>3. CASE job' = Ends(job, "error")
    <3>1. job' = [job EXCEPT !.pc = "done", !.verdict = "error"]
      BY <2>3 DEF Ends
    <3>2. "done" \in ReconcilePcs /\ "error" \in {"none", "error"} \cup TableVerdicts
      BY <1>p
    <3>3. job' \in ReconcileJob
      BY <3>1, <3>2, <1>a, Zenon DEF ReconcileJob
    <3>4. job'.pc = "done" /\ job'.verdict = "error"
      BY <3>1, <1>a DEF ReconcileJob
    <3> QED
      BY <1>x, <2>1, <3>3, <3>4
  <2> QED
    BY <1>3, <2>2, <2>3 DEF Connect, Step
<1>4. CASE QueryRaises
  <2>1. /\ env' = env
        /\ job' = [[job EXCEPT !.exp = NoRows, !.found = NoRows, !.sum = NoRows]
                     EXCEPT !.pc = "done", !.verdict = "error"]
    BY <1>4 DEF QueryRaises, Step, Ends
  <2>2. "done" \in ReconcilePcs /\ "error" \in {"none", "error"} \cup TableVerdicts
    BY <1>p
  <2>3. PICK j \in ReconcileJob : j = [job EXCEPT !.exp = NoRows, !.found = NoRows, !.sum = NoRows]
    <3>1. [job EXCEPT !.exp = NoRows, !.found = NoRows, !.sum = NoRows] \in ReconcileJob
      BY <1>a, NoRowsAreRows, Zenon DEF ReconcileJob
    <3> QED
      BY <3>1
  <2>4. job' = [j EXCEPT !.pc = "done", !.verdict = "error"]
    BY <2>1, <2>3
  <2>5. job' \in ReconcileJob
    BY <2>2, <2>4, Zenon DEF ReconcileJob
  <2>6. job'.pc = "done" /\ job'.verdict = "error"
    BY <2>4 DEF ReconcileJob
  <2> QED
    BY <1>x, <2>1, <2>5, <2>6
<1>5. CASE FetchExpected
  <2>1. /\ job.pc = "expect" /\ env' = env
        /\ job' = [job EXCEPT !.pc = "lookup", !.exp = MssqlFetch(RowLimit),
                              !.nMssql = Cardinality(DOMAIN MssqlFetch(RowLimit))]
    BY <1>5 DEF FetchExpected, At, Step
  <2>2. PICK rows \in RowSets : rows = MssqlFetch(RowLimit)
    BY <1>m
  <2>3. Cardinality(DOMAIN rows) \in Nat
    BY RowSetKeys, KeysFinite
  <2>4. job' = [job EXCEPT !.pc = "lookup", !.exp = rows, !.nMssql = Cardinality(DOMAIN rows)]
    BY <2>1, <2>2
  <2>5. "lookup" \in ReconcilePcs
    BY <1>p
  <2>6. job' \in ReconcileJob
    BY <2>3, <2>4, <2>5, <1>a, Zenon DEF ReconcileJob
  <2>7. /\ job'.pc = "lookup" /\ job'.at = job.at /\ job'.verdicts = job.verdicts
        /\ job'.verdict = job.verdict /\ job'.exp = rows /\ job'.nMssql = Cardinality(DOMAIN rows)
        /\ job'.scope = job.scope
    BY <2>4, <1>a DEF ReconcileJob
  <2>8. LimitedTracks' /\ FullScope'
    BY <1>0, <2>1, <2>7 DEF ReconcileInv, LimitedTracks, Counted, FullScope
  <2> QED
    BY <1>y, <2>1, <2>6, <2>7, <2>8
<1>6. CASE LookupHashes
  <2>1. job.pc = "lookup" /\ env' = env
    BY <1>6 DEF LookupHashes, At, Step
  <2>2. DOMAIN job.exp \in SUBSET EtlKeys
    BY <1>c, RowSetKeys
  <2>3. PICK found \in RowSets :
          /\ found = PgLookup(DOMAIN job.exp) /\ DOMAIN found = DOMAIN job.exp \cap Present(env.pg[t])
          /\ DOMAIN found \in SUBSET EtlKeys
    BY <2>2, <1>l
  <2>4. Cardinality(DOMAIN found) \in Nat /\ "verdict" \in ReconcilePcs /\ "checksum" \in ReconcilePcs
    BY <2>3, KeysFinite, <1>p
  <2>5. CASE job.scope = "full"
    <3>1. job' = [job EXCEPT !.pc = "verdict", !.found = found]
      BY <1>6, <2>3, <2>5 DEF LookupHashes, Step
    <3>2. job' \in ReconcileJob
      BY <3>1, <2>4, <1>a, Zenon DEF ReconcileJob
    <3>3. /\ job'.pc = "verdict" /\ job'.at = job.at /\ job'.verdicts = job.verdicts
          /\ job'.verdict = job.verdict /\ job'.scope = job.scope
      BY <3>1, <1>a DEF ReconcileJob
    <3>4. LimitedTracks' /\ FullScope'
      BY <2>5, <3>3 DEF LimitedTracks, FullScope
    <3> QED
      BY <1>y, <2>1, <3>2, <3>3, <3>4
  <2>6. CASE job.scope # "full"
    <3>1. job' = [job EXCEPT !.pc = "checksum", !.found = found, !.nPg = Cardinality(DOMAIN found)]
      BY <1>6, <2>3, <2>6 DEF LookupHashes, Step
    <3>2. job' \in ReconcileJob
      BY <3>1, <2>4, <1>a, Zenon DEF ReconcileJob
    <3>3. /\ job'.pc = "checksum" /\ job'.at = job.at /\ job'.verdicts = job.verdicts
          /\ job'.verdict = job.verdict /\ job'.scope = job.scope /\ job'.found = found
          /\ job'.nPg = Cardinality(DOMAIN found) /\ job'.exp = job.exp /\ job'.nMssql = job.nMssql
      BY <3>1, <1>a DEF ReconcileJob
    <3>4. job.scope = "limited" => Counted'
      BY <1>0, <2>1, <3>3 DEF ReconcileInv, LimitedTracks, Counted
    <3>5. Table' = t
      BY <1>d, <3>3 DEF Table
    <3>6. LookedUp'
      BY <2>1, <2>3, <3>3, <3>5 DEF LookedUp
    <3>7. LimitedTracks' /\ FullScope'
      BY <1>0, <2>1, <3>3, <3>4, <3>6 DEF ReconcileInv, LimitedTracks, FullScope
    <3> QED
      BY <1>y, <2>1, <3>2, <3>3, <3>7
  <2> QED
    BY <2>5, <2>6
<1>7. CASE ChecksumPg
  <2>1. job.pc = "checksum" /\ env' = env
    BY <1>7 DEF ChecksumPg, At, Step
  <2>2. CASE job.scope = "full"
    <3>1. PICK sum \in RowSets : sum = PgLookup(EtlKeys)
      BY <1>l
    <3>2. job' = [job EXCEPT !.pc = "sample", !.sum = sum]
      BY <1>7, <2>2, <3>1 DEF ChecksumPg, Step
    <3>3. "sample" \in ReconcilePcs
      BY <1>p
    <3>4. job' \in ReconcileJob
      BY <3>2, <3>3, <1>a, Zenon DEF ReconcileJob
    <3>5. /\ job'.pc = "sample" /\ job'.at = job.at /\ job'.verdicts = job.verdicts
          /\ job'.verdict = job.verdict /\ job'.scope = job.scope
      BY <3>2, <1>a DEF ReconcileJob
    <3>6. LimitedTracks' /\ FullScope'
      BY <2>2, <3>5 DEF LimitedTracks, FullScope
    <3> QED
      BY <1>y, <2>1, <3>4, <3>5, <3>6
  <2>3. CASE job.scope # "full"
    <3>1. DOMAIN job.exp \in SUBSET EtlKeys
      BY <1>c, RowSetKeys
    <3>2. PICK sum \in RowSets :
            /\ sum = PgLookup(DOMAIN job.exp) /\ DOMAIN sum = DOMAIN job.exp \cap Present(env.pg[t])
            /\ \A k \in DOMAIN sum : sum[k] \in PgContents
      BY <3>1, <1>l
    <3>3. job' = [job EXCEPT !.pc = "verdict", !.sum = sum]
      BY <1>7, <2>3, <3>2 DEF ChecksumPg, Step
    <3>4. "verdict" \in ReconcilePcs
      BY <1>p
    <3>5. job' \in ReconcileJob
      BY <3>3, <3>4, <1>a, Zenon DEF ReconcileJob
    <3>6. /\ job'.pc = "verdict" /\ job'.at = job.at /\ job'.verdicts = job.verdicts
          /\ job'.verdict = job.verdict /\ job'.scope = job.scope /\ job'.found = job.found
          /\ job'.nPg = job.nPg /\ job'.exp = job.exp /\ job'.nMssql = job.nMssql /\ job'.sum = sum
      BY <3>3, <1>a DEF ReconcileJob
    <3>7. Table' = t
      BY <1>d, <3>6 DEF Table
    <3>8. job.scope = "limited" => Counted /\ LookedUp
      BY <1>0, <2>1 DEF ReconcileInv, LimitedTracks
    <3>9. job.scope = "limited" => Counted' /\ LookedUp' /\ Summed'
      BY <1>d, <2>1, <3>2, <3>6, <3>7, <3>8 DEF Counted, LookedUp, Summed
    <3>10. LimitedTracks' /\ FullScope'
      BY <1>0, <2>1, <3>6, <3>9 DEF ReconcileInv, LimitedTracks, FullScope
    <3> QED
      BY <1>y, <2>1, <3>5, <3>6, <3>10
  <2> QED
    BY <2>2, <2>3
<1>8. CASE CountMssql
  <2>1. /\ job.pc = "count" /\ env' = env
        /\ job' = [job EXCEPT !.pc = "countpg", !.nMssql = Cardinality(Present(env.src[t]))]
    BY <1>8, <1>d DEF CountMssql, At, Step
  <2>2. Present(env.src[t]) \in SUBSET EtlKeys
    BY <1>e DEF Present
  <2>3. Cardinality(Present(env.src[t])) \in Nat /\ "countpg" \in ReconcilePcs
    BY <2>2, KeysFinite, <1>p
  <2>4. job' \in ReconcileJob
    BY <2>1, <2>3, <1>a, Zenon DEF ReconcileJob
  <2>5. /\ job'.pc = "countpg" /\ job'.at = job.at /\ job'.verdicts = job.verdicts
        /\ job'.verdict = job.verdict /\ job'.scope = job.scope
    BY <2>1, <1>a DEF ReconcileJob
  <2>6. LimitedTracks' /\ FullScope'
    BY <1>0, <2>1, <2>5 DEF ReconcileInv, LimitedTracks, FullScope
  <2> QED
    BY <1>y, <2>1, <2>4, <2>5, <2>6
<1>9. CASE CountPg
  <2>1. /\ job.pc = "countpg" /\ env' = env
        /\ job' = [job EXCEPT !.pc = "checksum", !.nPg = Cardinality(Present(env.pg[t]))]
    BY <1>9, <1>d DEF CountPg, At, Step
  <2>2. Present(env.pg[t]) \in SUBSET EtlKeys
    BY <1>e DEF Present
  <2>3. Cardinality(Present(env.pg[t])) \in Nat /\ "checksum" \in ReconcilePcs
    BY <2>2, KeysFinite, <1>p
  <2>4. job' \in ReconcileJob
    BY <2>1, <2>3, <1>a, Zenon DEF ReconcileJob
  <2>5. /\ job'.pc = "checksum" /\ job'.at = job.at /\ job'.verdicts = job.verdicts
        /\ job'.verdict = job.verdict /\ job'.scope = job.scope
    BY <2>1, <1>a DEF ReconcileJob
  <2>6. job.scope = "full"
    BY <1>0, <2>1 DEF ReconcileInv, FullScope
  <2>7. LimitedTracks' /\ FullScope'
    BY <2>5, <2>6 DEF LimitedTracks, FullScope
  <2> QED
    BY <1>y, <2>1, <2>4, <2>5, <2>7
<1>10. CASE FetchSample
  <2>1. /\ job.pc = "sample" /\ env' = env
        /\ job' = [job EXCEPT !.pc = "lookup", !.exp = MssqlFetch(SampleRows)]
    BY <1>10 DEF FetchSample, At, Step
  <2>2. MssqlFetch(SampleRows) \in RowSets /\ "lookup" \in ReconcilePcs
    BY <1>m, <1>p
  <2>3. job' \in ReconcileJob
    BY <2>1, <2>2, <1>a, Zenon DEF ReconcileJob
  <2>4. /\ job'.pc = "lookup" /\ job'.at = job.at /\ job'.verdicts = job.verdicts
        /\ job'.verdict = job.verdict /\ job'.scope = job.scope
    BY <2>1, <1>a DEF ReconcileJob
  <2>5. job.scope = "full"
    BY <1>0, <2>1 DEF ReconcileInv, FullScope
  <2>6. LimitedTracks' /\ FullScope'
    BY <2>4, <2>5 DEF LimitedTracks, FullScope
  <2> QED
    BY <1>y, <2>1, <2>3, <2>4, <2>6
<1>11. CASE JudgeTable
  <2>1. /\ job.pc = "verdict" /\ env' = env
        /\ job' = [job EXCEPT !.pc = "judged", !.verdicts = Append(@, AssignVerdict)]
    BY <1>11 DEF JudgeTable, At, Step
  <2>2. PICK v \in TableVerdicts : v = AssignVerdict
    BY DEF AssignVerdict, TableVerdicts
  <2>3. PICK vs \in Seq(TableVerdicts) : /\ vs = Append(job.verdicts, v)
                                         /\ Len(vs) = Len(job.verdicts) + 1 /\ vs[Len(vs)] = v
    <3>1. /\ Append(job.verdicts, v) \in Seq(TableVerdicts)
          /\ Len(Append(job.verdicts, v)) = Len(job.verdicts) + 1
          /\ Append(job.verdicts, v)[Len(Append(job.verdicts, v))] = v
      BY <1>c
    <3> QED
      BY <3>1
  <2>4. job' = [job EXCEPT !.pc = "judged", !.verdicts = vs]
    BY <2>1, <2>2, <2>3
  <2>5. "judged" \in ReconcilePcs
    BY <1>p
  <2>6. job' \in ReconcileJob
    BY <2>4, <2>5, <1>a, Zenon DEF ReconcileJob
  <2>7. /\ job'.pc = "judged" /\ job'.at = job.at /\ job'.verdicts = vs
        /\ job'.verdict = job.verdict /\ job'.scope = job.scope /\ job'.exp = job.exp
        /\ job'.sum = job.sum
    BY <2>4, <1>a DEF ReconcileJob
  <2>8. Len(job.verdicts) = job.at - 1 /\ job.verdict = "none"
    BY <1>0, <2>1 DEF ReconcileInv, VerdictsCover
  <2>9. VerdictsCover'
    BY <1>c, <2>3, <2>7, <2>8 DEF VerdictsCover
  <2>10. job.scope = "limited" /\ v = "MATCH" => SameRows
    BY <1>0, <1>a, <2>1, <2>2, MatchedRows DEF ReconcileInv, LimitedTracks
  <2>11. LimitedTracks'
    BY <2>3, <2>7, <2>10 DEF LimitedTracks, Last, SameRows
  <2>12. FullScope'
    BY <1>0, <2>1, <2>7 DEF ReconcileInv, FullScope
  <2> QED
    BY <1>a, <2>1, <2>6, <2>9, <2>11, <2>12 DEF ReconcileInv, ReconcileTypes
<1>12. CASE NextTable
  <2>1. job.pc = "judged" /\ env' = env
    BY <1>12 DEF NextTable, At, Step
  <2>2. PICK j \in ReconcileJob :
          /\ j = [job EXCEPT !.exp = NoRows, !.found = NoRows, !.sum = NoRows, !.nPg = 0, !.nMssql = 0]
          /\ j.at = job.at /\ j.verdicts = job.verdicts /\ j.verdict = job.verdict /\ j.scope = job.scope
    <3>1. [job EXCEPT !.exp = NoRows, !.found = NoRows, !.sum = NoRows, !.nPg = 0, !.nMssql = 0] \in ReconcileJob
      BY <1>a, NoRowsAreRows, 0 \in Nat, Zenon DEF ReconcileJob
    <3>2. /\ [job EXCEPT !.exp = NoRows, !.found = NoRows, !.sum = NoRows, !.nPg = 0, !.nMssql = 0].at = job.at
          /\ [job EXCEPT !.exp = NoRows, !.found = NoRows, !.sum = NoRows, !.nPg = 0, !.nMssql = 0].verdicts = job.verdicts
          /\ [job EXCEPT !.exp = NoRows, !.found = NoRows, !.sum = NoRows, !.nPg = 0, !.nMssql = 0].verdict = job.verdict
          /\ [job EXCEPT !.exp = NoRows, !.found = NoRows, !.sum = NoRows, !.nPg = 0, !.nMssql = 0].scope = job.scope
      BY <1>a, Zenon DEF ReconcileJob
    <3> QED
      BY <3>1, <3>2
  <2>3. Len(job.verdicts) = job.at /\ job.verdict = "none" /\ job.scope \in {"limited", "full"}
    BY <1>0, <1>c, <2>1 DEF ReconcileInv, VerdictsCover, FullScope
  <2>4. Len(EtlTables) \in Nat
    BY ReconcileAssumption
  <2>5. CASE job.at < Len(EtlTables)
    <3>1. PICK pc \in {"count", "expect"} : pc = IF job.scope = "full" THEN "count" ELSE "expect"
      OBVIOUS
    <3>2. PICK at \in 1..Len(EtlTables) : at = job.at + 1
      BY <1>c, <2>4, <2>5
    <3>3. job' = [j EXCEPT !.at = at, !.pc = pc]
      BY <1>12, <2>2, <2>5, <3>1, <3>2 DEF NextTable, Step
    <3>4. pc \in ReconcilePcs
      BY <1>p
    <3>5. job' \in ReconcileJob
      BY <3>3, <3>4, Zenon DEF ReconcileJob
    <3>6. /\ job'.pc = pc /\ job'.at = at /\ job'.verdicts = job.verdicts /\ job'.verdict = job.verdict
          /\ job'.scope = job.scope
      BY <2>2, <3>3 DEF ReconcileJob
    <3>7. VerdictsCover'
      BY <1>c, <2>3, <3>1, <3>2, <3>6 DEF VerdictsCover
    <3>8. LimitedTracks' /\ FullScope'
      BY <2>3, <3>1, <3>6 DEF LimitedTracks, FullScope
    <3> QED
      BY <1>a, <2>1, <3>5, <3>7, <3>8 DEF ReconcileInv, ReconcileTypes
  <2>6. CASE ~ (job.at < Len(EtlTables))
    <3>1. job.verdicts # <<>>
      BY <1>c, <2>3
    <3>2. PICK v \in TableVerdicts :
            /\ v = OverallVerdict(job.verdicts)
            /\ v = "MATCH" => \A i \in DOMAIN job.verdicts : job.verdicts[i] = "MATCH"
      BY <1>c, <3>1, OverallMatch
    <3>3. job' = [j EXCEPT !.pc = "done", !.verdict = v]
      BY <1>12, <2>2, <2>6, <3>2 DEF NextTable, Step, Ends
    <3>4. "done" \in ReconcilePcs /\ v \in {"none", "error"} \cup TableVerdicts
      BY <1>p
    <3>5. job' \in ReconcileJob
      BY <3>3, <3>4, Zenon DEF ReconcileJob
    <3>6. /\ job'.pc = "done" /\ job'.verdicts = job.verdicts /\ job'.verdict = v
          /\ job'.scope = job.scope
      BY <2>2, <3>3 DEF ReconcileJob
    <3>7. Len(job.verdicts) = Len(EtlTables)
      BY <1>c, <2>3, <2>4, <2>6
    <3>8. VerdictsCover'
      BY <3>2, <3>6, <3>7 DEF VerdictsCover
    <3>9. LimitedTracks' /\ FullScope'
      BY <3>6 DEF LimitedTracks, FullScope
    <3> QED
      BY <1>a, <2>1, <3>5, <3>8, <3>9 DEF ReconcileInv, ReconcileTypes
  <2> QED
    BY <2>5, <2>6
<1> QED
  BY <1>1, <1>2, <1>3, <1>4, <1>5, <1>6, <1>7, <1>8, <1>9, <1>10, <1>11, <1>12 DEF ReconcileNext

\* The invariant gives what a match means.
LEMMA ReconcileSafe == ReconcileInv => MatchMeansSameRows
  BY DEF ReconcileInv, VerdictsCover, LimitedTracks, SameRows, MatchMeansSameRows

-----------------------------------------------------------------------------
(* TransitBootstrap: the transit bootstrap. *)

Disturbable == TransitKeys \cup {"role", "acl", "policy"}
TransitEnv ==
  [cluster : {"test", "other"}, active : BOOLEAN, mount : {"none", "transit", "kv"},
   keys : [TransitKeys -> Nat], unsafe : SUBSET TransitKeys, role : BOOLEAN, acl : BOOLEAN,
   policy : Nat, disturbed : SUBSET Disturbable, others : Nat, faults : Nat]
TransitJob ==
  [pc : {"health", "mount", "delrole", "delacl", "norole", "noacl", "keys", "readback", "write",
         "failed", "done"},
   runs : Nat, rev : Nat, todo : Seq(TransitKeys), versions : [TransitKeys -> Nat],
   verdict : {"none", "refused", "receipt"}]
TransitTypes == env \in TransitEnv /\ job \in TransitJob

Unread(s, k) == \E i \in 1..Len(s) : s[i] = k
KeyHolds(k) ==
  /\ k \notin env.unsafe /\ 1 <= job.versions[k] /\ job.versions[k] <= env.keys[k]
  /\ k \notin env.disturbed => job.versions[k] = env.keys[k]

(* What this run has seen so far holds unless someone changed it since. *)
Prepared ==
  /\ job.pc \notin {"health", "failed", "done"} => env.cluster = "test"
  /\ job.pc \notin {"health", "mount", "failed", "done"} => env.mount = "transit"
  /\ job.pc \in {"noacl", "keys", "readback", "write"} /\ "role" \notin env.disturbed => ~ env.role
  /\ job.pc \in {"keys", "readback", "write"} /\ "acl" \notin env.disturbed => ~ env.acl
  /\ job.pc = "write" /\ "policy" \notin env.disturbed => env.policy = job.rev
KeysRead ==
  /\ job.pc \in {"keys", "readback", "write"} =>
       \A k \in TransitKeys : Unread(job.todo, k) \/ KeyHolds(k)
  /\ job.pc \in {"readback", "write"} => job.todo = <<>>
  /\ job.pc \in {"health", "mount", "delrole", "delacl", "norole", "noacl", "failed"} =>
       job.todo = KeyOrder
Receipted ==
  /\ job.pc # "done" => job.verdict = "none"
  /\ job.verdict = "receipt" =>
       /\ env.cluster = "test" /\ env.mount = "transit"
       /\ "role" \notin env.disturbed => ~ env.role
       /\ "acl" \notin env.disturbed => ~ env.acl
       /\ "policy" \notin env.disturbed => env.policy = job.rev
       /\ \A k \in TransitKeys : KeyHolds(k)

TransitInv == TransitTypes /\ Prepared /\ KeysRead /\ Receipted

\* The keys of the run, none of which is a name of something else it reads.
LEMMA KeyNames ==
  /\ TransitKeys = {"anthropic", "coordinator"}
  /\ KeyOrder \in Seq(TransitKeys)
  /\ \A k \in TransitKeys : k \notin {"role", "acl", "policy"} /\ Unread(KeyOrder, k)
<1>1. Len(KeyOrder) = 2 /\ DOMAIN KeyOrder = 1..2 /\ KeyOrder[1] = "anthropic" /\ KeyOrder[2] = "coordinator"
  BY DEF KeyOrder
<1>2. TransitKeys = {"anthropic", "coordinator"}
  BY <1>1 DEF TransitKeys, ToSet
<1>3. KeyOrder \in Seq(TransitKeys)
  BY <1>2 DEF KeyOrder
<1> QED
  BY <1>1, <1>2, <1>3 DEF Unread

\* Nothing has been read and everything is still to do.
LEMMA TransitStart == TransitInit => TransitInv
<1> SUFFICES ASSUME TransitInit PROVE TransitInv
  OBVIOUS
<1>1. PICK cluster \in {"test", "other"}, mount \in {"none", "transit", "kv"}, active, unsafe \in BOOLEAN :
        env = [cluster |-> cluster, active |-> active, mount |-> mount,
               keys |-> [k \in TransitKeys |-> IF mount = "transit" /\ k = "anthropic" THEN 1 ELSE 0],
               unsafe |-> IF unsafe THEN {"anthropic"} ELSE {},
               role |-> TRUE, acl |-> TRUE, policy |-> 0, disturbed |-> {}, others |-> 0, faults |-> 0]
  BY DEF TransitInit
<1>2. PICK rev \in {1, 2} :
        job = [pc |-> "health", runs |-> 1, rev |-> rev, todo |-> KeyOrder,
               versions |-> [k \in TransitKeys |-> 0], verdict |-> "none"]
  BY DEF TransitInit
<1>3. [k \in TransitKeys |-> IF mount = "transit" /\ k = "anthropic" THEN 1 ELSE 0] \in [TransitKeys -> Nat]
  OBVIOUS
<1>4. [k \in TransitKeys |-> 0] \in [TransitKeys -> Nat]
  OBVIOUS
<1>5. (IF unsafe THEN {"anthropic"} ELSE {}) \in SUBSET TransitKeys
  BY KeyNames
<1>6. env \in TransitEnv
  BY <1>1, <1>3, <1>5 DEF TransitEnv
<1>7. job \in TransitJob
  BY <1>2, <1>4, KeyNames DEF TransitJob
<1> QED
  BY <1>1, <1>2, <1>6, <1>7 DEF TransitInv, TransitTypes, Prepared, KeysRead, Receipted

\* A run that fails forgets what it read; its next run reads everything again.
LEMMA UnreceiptedKeeps ==
  ASSUME TransitInv, env' \in TransitEnv, job' = Unreceipted, job.pc # "done"
  PROVE  TransitInv'
<1>1. job \in TransitJob /\ job.verdict = "none"
  BY DEF TransitInv, TransitTypes, Receipted
<1>2. [k \in TransitKeys |-> 0] \in [TransitKeys -> Nat]
  OBVIOUS
<1>3. job' \in TransitJob
  BY <1>1, <1>2, KeyNames DEF Unreceipted, TransitJob
<1>4. job'.pc = "failed" /\ job'.todo = KeyOrder /\ job'.verdict = "none"
  BY <1>1 DEF Unreceipted, TransitJob
<1> QED
  BY <1>3, <1>4 DEF TransitInv, TransitTypes, Prepared, KeysRead, Receipted

\* A run that is refused gives no receipt.
LEMMA RefusedKeeps ==
  ASSUME TransitInv, env' = env, job' = Ends(job, "refused"), job.pc # "done"
  PROVE  TransitInv'
<1>1. job \in TransitJob /\ env \in TransitEnv
  BY DEF TransitInv, TransitTypes
<1>2. job' \in TransitJob /\ job'.pc = "done" /\ job'.verdict = "refused"
  BY <1>1 DEF Ends, TransitJob
<1> QED
  BY <1>1, <1>2 DEF TransitInv, TransitTypes, Prepared, KeysRead, Receipted

\* A request answers with its effect, or the run fails.
LEMMA RequestKeeps ==
  ASSUME TransitInv, NEW e \in TransitEnv, NEW j, Request(e, j), job.pc # "done"
  PROVE  (env' = e /\ job' = j) \/ TransitInv'
<1>1. env \in TransitEnv /\ env.faults + 1 \in Nat
  BY DEF TransitInv, TransitTypes, TransitEnv
<1>2. [env EXCEPT !.faults = @ + 1] \in TransitEnv /\ [e EXCEPT !.faults = env.faults + 1] \in TransitEnv
  BY <1>1 DEF TransitEnv
<1> QED
  BY <1>2, UnreceiptedKeeps DEF Request, Step

\* The tail of a sequence still has what the head is not.
LEMMA TailRemembers ==
  ASSUME NEW S, NEW s \in Seq(S), s # <<>>, NEW i \in 1..Len(s), s[i] # Head(s)
  PROVE  i - 1 \in 1..Len(Tail(s)) /\ Tail(s)[i - 1] = s[i]
<1>1. Len(s) \in Nat /\ Len(s) >= 1 /\ Len(Tail(s)) = Len(s) - 1 /\ i # 1
  OBVIOUS
<1>2. i - 1 \in 1..Len(Tail(s))
  BY <1>1
<1> QED
  BY <1>1, <1>2

\* Reading the head leaves the other keys where they were.
LEMMA UnreadTail ==
  ASSUME NEW S, NEW s \in Seq(S), s # <<>>, NEW x, x # Head(s), Unread(s, x)
  PROVE  Unread(Tail(s), x)
<1>1. PICK i \in 1..Len(s) : s[i] = x
  BY DEF Unread
<1>2. i - 1 \in 1..Len(Tail(s)) /\ Tail(s)[i - 1] = x
  BY <1>1, TailRemembers
<1> QED
  BY <1>2 DEF Unread

\* The invariant is kept by every step of the run and of the other root holder.
LEMMA TransitStep == TransitInv /\ TransitNext => TransitInv'
<1> SUFFICES ASSUME TransitInv, TransitNext PROVE TransitInv'
  OBVIOUS
<1>a. TransitInv /\ env \in TransitEnv /\ job \in TransitJob
  BY DEF TransitInv, TransitTypes
<1> USE DEF TransitInv, TransitTypes, Prepared, KeysRead, KeyHolds, Receipted
<1>b. /\ env.keys \in [TransitKeys -> Nat] /\ env.unsafe \in SUBSET TransitKeys
      /\ env.policy \in Nat /\ env.disturbed \in SUBSET Disturbable
      /\ env.others \in Nat /\ env.faults \in Nat
      /\ job.runs \in Nat /\ job.rev \in Nat /\ job.todo \in Seq(TransitKeys)
      /\ job.versions \in [TransitKeys -> Nat]
  BY <1>a DEF TransitEnv, TransitJob
<1>c. /\ KeyOrder \in Seq(TransitKeys)
      /\ \A k \in TransitKeys : k \notin {"role", "acl", "policy"} /\ Unread(KeyOrder, k)
  BY KeyNames
<1>1. CASE RoleRecreated
  <2>1. /\ job.pc # "done"
        /\ env' = [[env EXCEPT !.role = TRUE] EXCEPT !.others = @ + 1, !.disturbed = @ \cup {"role"}]
        /\ job' = job
    BY <1>1 DEF RoleRecreated, MayDisturb, Disturbs, Step, At, Live, Ends
  <2>2. /\ job.pc # "done" /\ job' = job
    BY <2>1
  <2>3. env.others + 1 \in Nat /\ env.disturbed \cup {"role"} \in SUBSET Disturbable
    BY <2>1, <1>b, <1>c DEF Disturbable
  <2>4. env' \in TransitEnv
    BY <2>1, <2>3, <1>a, <1>b, <1>c, Zenon DEF TransitEnv
  <2>5. /\ env'.role = TRUE /\ env'.others = env.others + 1
        /\ env'.disturbed = env.disturbed \cup {"role"} /\ env'.cluster = env.cluster
        /\ env'.active = env.active /\ env'.mount = env.mount /\ env'.keys = env.keys
        /\ env'.unsafe = env.unsafe /\ env'.acl = env.acl /\ env'.policy = env.policy
        /\ env'.faults = env.faults
    BY <2>1, <1>a DEF TransitEnv
  <2>6. TransitTypes'
    BY <2>2, <2>3, <2>4, <2>5, <1>a, <1>b, <1>c
  <2>7. Prepared'
    BY <2>2, <2>3, <2>4, <2>5, <1>a, <1>b, <1>c
  <2>8. KeysRead'
    BY <2>2, <2>3, <2>4, <2>5, <1>a, <1>b, <1>c
  <2>9. Receipted'
    BY <2>2, <2>3, <2>4, <2>5, <1>a, <1>b, <1>c
  <2> QED
    BY <2>6, <2>7, <2>8, <2>9
<1>2. CASE PolicyReplaced
  <2>1. PICK p \in {1, 2} :
          /\ job.pc # "done"
          /\ env' = [[env EXCEPT !.policy = p] EXCEPT !.others = @ + 1, !.disturbed = @ \cup {"policy"}]
          /\ job' = job
    BY <1>2 DEF PolicyReplaced, MayDisturb, Disturbs, Step, At, Live, Ends
  <2>2. /\ job.pc # "done" /\ job' = job
    BY <2>1
  <2>3. env.others + 1 \in Nat /\ env.disturbed \cup {"policy"} \in SUBSET Disturbable
    BY <2>1, <1>b, <1>c DEF Disturbable
  <2>4. p \in Nat
    OBVIOUS
  <2>5. env' \in TransitEnv
    BY <2>1, <2>3, <2>4, <1>a, <1>b, <1>c, Zenon DEF TransitEnv
  <2>6. /\ env'.policy = p /\ env'.others = env.others + 1
        /\ env'.disturbed = env.disturbed \cup {"policy"} /\ env'.cluster = env.cluster
        /\ env'.active = env.active /\ env'.mount = env.mount /\ env'.keys = env.keys
        /\ env'.unsafe = env.unsafe /\ env'.role = env.role /\ env'.acl = env.acl
        /\ env'.faults = env.faults
    BY <2>1, <1>a DEF TransitEnv
  <2>7. TransitTypes'
    BY <2>2, <2>3, <2>4, <2>5, <2>6, <1>a, <1>b, <1>c
  <2>8. Prepared'
    BY <2>2, <2>3, <2>4, <2>5, <2>6, <1>a, <1>b, <1>c
  <2>9. KeysRead'
    BY <2>2, <2>3, <2>4, <2>5, <2>6, <1>a, <1>b, <1>c
  <2>10. Receipted'
    BY <2>2, <2>3, <2>4, <2>5, <2>6, <1>a, <1>b, <1>c
  <2> QED
    BY <2>7, <2>8, <2>9, <2>10
<1>3. CASE KeyRotated
  <2>1. PICK k \in TransitKeys :
          /\ job.pc # "done"
          /\ env' = [[env EXCEPT !.keys[k] = @ + 1] EXCEPT !.others = @ + 1, !.disturbed = @ \cup {k}]
          /\ job' = job
    BY <1>3 DEF KeyRotated, MayDisturb, Disturbs, Step, At, Live, Ends
  <2>2. /\ job.pc # "done" /\ job' = job
    BY <2>1
  <2>3. env.others + 1 \in Nat /\ env.disturbed \cup {k} \in SUBSET Disturbable
    BY <2>1, <1>b, <1>c, SMTT(30) DEF Disturbable
  <2>4. [env.keys EXCEPT ![k] = env.keys[k] + 1] \in [TransitKeys -> Nat]
    BY <1>b
  <2>5. env' \in TransitEnv
    BY <2>1, <2>3, <2>4, <1>a, <1>b, <1>c, Zenon DEF TransitEnv
  <2>6. /\ env'.keys = [env.keys EXCEPT ![k] = env.keys[k] + 1]
        /\ env'.others = env.others + 1 /\ env'.disturbed = env.disturbed \cup {k}
        /\ env'.cluster = env.cluster /\ env'.active = env.active
        /\ env'.mount = env.mount /\ env'.unsafe = env.unsafe /\ env'.role = env.role
        /\ env'.acl = env.acl /\ env'.policy = env.policy /\ env'.faults = env.faults
    BY <2>1, <1>a DEF TransitEnv
  <2>7. TransitTypes'
    BY <2>2, <2>3, <2>4, <2>5, <2>6, <1>a, <1>b, <1>c
  <2>8. Prepared'
    BY <2>2, <2>3, <2>4, <2>5, <2>6, <1>a, <1>b, <1>c
  <2>9. KeysRead'
    BY <2>2, <2>3, <2>4, <2>5, <2>6, <1>a, <1>b, <1>c
  <2>10. Receipted'
    BY <2>2, <2>3, <2>4, <2>5, <2>6, <1>a, <1>b, <1>c
  <2> QED
    BY <2>7, <2>8, <2>9, <2>10
<1>4. CASE RunAgain
  <2>1. /\ job.pc = "failed" /\ env' = env
        /\ job' = [job EXCEPT !.pc = "health", !.runs = @ + 1]
    BY <1>4 DEF RunAgain, Step, At, Live, Ends
  <2>2. /\ job.pc = "failed" /\ env' = env
    BY <2>1
  <2>3. job.runs + 1 \in Nat
    BY <1>b
  <2>4. job' \in TransitJob
    BY <2>1, <2>3, <1>a, <1>b, <1>c, Zenon DEF TransitJob
  <2>5. /\ job'.pc = "health" /\ job'.runs = job.runs + 1 /\ job'.rev = job.rev
        /\ job'.todo = job.todo /\ job'.versions = job.versions
        /\ job'.verdict = job.verdict
    BY <2>1, <1>a DEF TransitJob
  <2> QED
    BY <2>2, <2>3, <2>4, <2>5, <1>a, <1>b, <1>c
<1>5. CASE CheckHealth
  <2>1. job.pc = "health" /\ ((env.cluster = "test" /\ Request(env, [job EXCEPT !.pc = "mount"]))
                             \/ (env' = env /\ job' = Ends(job, "refused")))
    BY <1>5 DEF CheckHealth, Step, At, Ends
  <2>3. CASE env.cluster = "test" /\ Request(env, [job EXCEPT !.pc = "mount"])
    <3>1. (env' = env /\ job' = [job EXCEPT !.pc = "mount"]) \/ TransitInv'
      BY <1>a, <2>1, <2>3, RequestKeeps
    <3>2. CASE env' = env /\ job' = [job EXCEPT !.pc = "mount"]
      <4>1. job.pc = "health" /\ env.cluster = "test" /\ env' = env
        BY <2>1, <2>3, <3>2
      <4>2. job' \in TransitJob
        BY <3>2, <4>1, <1>a, <1>b, <1>c DEF TransitJob
      <4>3. /\ job'.pc = "mount" /\ job'.runs = job.runs /\ job'.rev = job.rev
            /\ job'.todo = job.todo /\ job'.versions = job.versions
            /\ job'.verdict = job.verdict
        BY <3>2, <1>a DEF TransitJob
      <4>4. TransitTypes'
        BY <4>1, <4>2, <4>3, <1>a, <1>b, <1>c
      <4>5. Prepared'
        BY <4>1, <4>2, <4>3, <1>a, <1>b, <1>c
      <4>6. KeysRead'
        BY <4>1, <4>2, <4>3, <1>a, <1>b, <1>c
      <4>7. Receipted'
        BY <4>1, <4>2, <4>3, <1>a, <1>b, <1>c
      <4> QED
        BY <4>4, <4>5, <4>6, <4>7
    <3> QED
      BY <3>1, <3>2
  <2>4. CASE env' = env /\ job' = Ends(job, "refused")
    BY <1>a, <2>1, <2>4, RefusedKeeps
  <2> QED
    BY <2>1, <2>3, <2>4
<1>6. CASE EnsureMount
  <2>1. job.pc = "mount" /\ ((Request([env EXCEPT !.mount = "transit"], [job EXCEPT !.pc = "delrole"]))
                             \/ (env' = env /\ job' = Ends(job, "refused")))
    BY <1>6 DEF EnsureMount, Step, At, Ends
  <2>2. [env EXCEPT !.mount = "transit"] \in TransitEnv
    BY <1>a, <1>b, <1>c DEF TransitEnv
  <2>3. CASE Request([env EXCEPT !.mount = "transit"], [job EXCEPT !.pc = "delrole"])
    <3>1. (env' = [env EXCEPT !.mount = "transit"] /\ job' = [job EXCEPT !.pc = "delrole"]) \/ TransitInv'
      BY <1>a, <2>1, <2>2, <2>3, RequestKeeps
    <3>2. CASE env' = [env EXCEPT !.mount = "transit"] /\ job' = [job EXCEPT !.pc = "delrole"]
      <4>1. job.pc = "mount"
        BY <2>1, <2>3, <3>2
      <4>2. env' \in TransitEnv
        BY <2>2, <3>2
      <4>3. /\ env'.mount = "transit" /\ env'.cluster = env.cluster
            /\ env'.active = env.active /\ env'.keys = env.keys
            /\ env'.unsafe = env.unsafe /\ env'.role = env.role /\ env'.acl = env.acl
            /\ env'.policy = env.policy /\ env'.disturbed = env.disturbed
            /\ env'.others = env.others /\ env'.faults = env.faults
        BY <3>2, <1>a DEF TransitEnv
      <4>4. job' \in TransitJob
        BY <3>2, <4>1, <4>2, <4>3, <1>a, <1>b, <1>c DEF TransitJob
      <4>5. /\ job'.pc = "delrole" /\ job'.runs = job.runs /\ job'.rev = job.rev
            /\ job'.todo = job.todo /\ job'.versions = job.versions
            /\ job'.verdict = job.verdict
        BY <3>2, <1>a DEF TransitJob
      <4>6. TransitTypes'
        BY <4>1, <4>2, <4>3, <4>4, <4>5, <1>a, <1>b, <1>c
      <4>7. Prepared'
        BY <4>1, <4>2, <4>3, <4>4, <4>5, <1>a, <1>b, <1>c
      <4>8. KeysRead'
        BY <4>1, <4>2, <4>3, <4>4, <4>5, <1>a, <1>b, <1>c
      <4>9. Receipted'
        BY <4>1, <4>2, <4>3, <4>4, <4>5, <1>a, <1>b, <1>c
      <4> QED
        BY <4>6, <4>7, <4>8, <4>9
    <3> QED
      BY <3>1, <3>2
  <2>4. CASE env' = env /\ job' = Ends(job, "refused")
    BY <1>a, <2>1, <2>4, RefusedKeeps
  <2> QED
    BY <2>1, <2>3, <2>4
<1>7. CASE DeleteRole
  <2>1. job.pc = "delrole" /\ Request([env EXCEPT !.role = FALSE], [job EXCEPT !.pc = "delacl"])
    BY <1>7 DEF DeleteRole, Step, At, Ends
  <2>2. [env EXCEPT !.role = FALSE] \in TransitEnv
    BY <1>a, <1>b, <1>c DEF TransitEnv
  <2>3. CASE Request([env EXCEPT !.role = FALSE], [job EXCEPT !.pc = "delacl"])
    <3>1. (env' = [env EXCEPT !.role = FALSE] /\ job' = [job EXCEPT !.pc = "delacl"]) \/ TransitInv'
      BY <1>a, <2>1, <2>2, <2>3, RequestKeeps
    <3>2. CASE env' = [env EXCEPT !.role = FALSE] /\ job' = [job EXCEPT !.pc = "delacl"]
      <4>1. job.pc = "delrole"
        BY <2>1, <2>3, <3>2
      <4>2. env' \in TransitEnv
        BY <2>2, <3>2
      <4>3. /\ env'.role = FALSE /\ env'.cluster = env.cluster /\ env'.active = env.active
            /\ env'.mount = env.mount /\ env'.keys = env.keys /\ env'.unsafe = env.unsafe
            /\ env'.acl = env.acl /\ env'.policy = env.policy
            /\ env'.disturbed = env.disturbed /\ env'.others = env.others
            /\ env'.faults = env.faults
        BY <3>2, <1>a DEF TransitEnv
      <4>4. job' \in TransitJob
        BY <3>2, <4>1, <4>2, <4>3, <1>a, <1>b, <1>c DEF TransitJob
      <4>5. /\ job'.pc = "delacl" /\ job'.runs = job.runs /\ job'.rev = job.rev
            /\ job'.todo = job.todo /\ job'.versions = job.versions
            /\ job'.verdict = job.verdict
        BY <3>2, <1>a DEF TransitJob
      <4>6. TransitTypes'
        BY <4>1, <4>2, <4>3, <4>4, <4>5, <1>a, <1>b, <1>c
      <4>7. Prepared'
        BY <4>1, <4>2, <4>3, <4>4, <4>5, <1>a, <1>b, <1>c
      <4>8. KeysRead'
        BY <4>1, <4>2, <4>3, <4>4, <4>5, <1>a, <1>b, <1>c
      <4>9. Receipted'
        BY <4>1, <4>2, <4>3, <4>4, <4>5, <1>a, <1>b, <1>c
      <4> QED
        BY <4>6, <4>7, <4>8, <4>9
    <3> QED
      BY <3>1, <3>2
  <2> QED
    BY <2>1, <2>3
<1>8. CASE DeleteAcl
  <2>1. job.pc = "delacl" /\ Request([env EXCEPT !.acl = FALSE], [job EXCEPT !.pc = "norole"])
    BY <1>8 DEF DeleteAcl, Step, At, Ends
  <2>2. [env EXCEPT !.acl = FALSE] \in TransitEnv
    BY <1>a, <1>b, <1>c DEF TransitEnv
  <2>3. CASE Request([env EXCEPT !.acl = FALSE], [job EXCEPT !.pc = "norole"])
    <3>1. (env' = [env EXCEPT !.acl = FALSE] /\ job' = [job EXCEPT !.pc = "norole"]) \/ TransitInv'
      BY <1>a, <2>1, <2>2, <2>3, RequestKeeps
    <3>2. CASE env' = [env EXCEPT !.acl = FALSE] /\ job' = [job EXCEPT !.pc = "norole"]
      <4>1. job.pc = "delacl"
        BY <2>1, <2>3, <3>2
      <4>2. env' \in TransitEnv
        BY <2>2, <3>2
      <4>3. /\ env'.acl = FALSE /\ env'.cluster = env.cluster /\ env'.active = env.active
            /\ env'.mount = env.mount /\ env'.keys = env.keys /\ env'.unsafe = env.unsafe
            /\ env'.role = env.role /\ env'.policy = env.policy
            /\ env'.disturbed = env.disturbed /\ env'.others = env.others
            /\ env'.faults = env.faults
        BY <3>2, <1>a DEF TransitEnv
      <4>4. job' \in TransitJob
        BY <3>2, <4>1, <4>2, <4>3, <1>a, <1>b, <1>c DEF TransitJob
      <4>5. /\ job'.pc = "norole" /\ job'.runs = job.runs /\ job'.rev = job.rev
            /\ job'.todo = job.todo /\ job'.versions = job.versions
            /\ job'.verdict = job.verdict
        BY <3>2, <1>a DEF TransitJob
      <4>6. TransitTypes'
        BY <4>1, <4>2, <4>3, <4>4, <4>5, <1>a, <1>b, <1>c
      <4>7. Prepared'
        BY <4>1, <4>2, <4>3, <4>4, <4>5, <1>a, <1>b, <1>c
      <4>8. KeysRead'
        BY <4>1, <4>2, <4>3, <4>4, <4>5, <1>a, <1>b, <1>c
      <4>9. Receipted'
        BY <4>1, <4>2, <4>3, <4>4, <4>5, <1>a, <1>b, <1>c
      <4> QED
        BY <4>6, <4>7, <4>8, <4>9
    <3> QED
      BY <3>1, <3>2
  <2> QED
    BY <2>1, <2>3
<1>9. CASE VerifyRoleAbsent
  <2>1. job.pc = "norole" /\ ((~ env.role /\ Request([env EXCEPT !.disturbed = @ \ {"role"}], [job EXCEPT !.pc = "noacl"]))
                             \/ (env' = env /\ job' = Unreceipted))
    BY <1>9 DEF VerifyRoleAbsent, Step, At, Ends, Read
  <2>2. [env EXCEPT !.disturbed = @ \ {"role"}] \in TransitEnv
    BY <1>a, <1>b, <1>c DEF TransitEnv
  <2>3. CASE ~ env.role /\ Request([env EXCEPT !.disturbed = @ \ {"role"}], [job EXCEPT !.pc = "noacl"])
    <3>1. (env' = [env EXCEPT !.disturbed = @ \ {"role"}] /\ job' = [job EXCEPT !.pc = "noacl"]) \/ TransitInv'
      BY <1>a, <2>1, <2>2, <2>3, RequestKeeps
    <3>2. CASE env' = [env EXCEPT !.disturbed = @ \ {"role"}] /\ job' = [job EXCEPT !.pc = "noacl"]
      <4>1. job.pc = "norole" /\ ~ env.role
        BY <2>1, <2>3, <3>2
      <4>2. env' \in TransitEnv
        BY <2>2, <3>2
      <4>3. /\ env'.disturbed = env.disturbed \ {"role"} /\ env'.cluster = env.cluster
            /\ env'.active = env.active /\ env'.mount = env.mount /\ env'.keys = env.keys
            /\ env'.unsafe = env.unsafe /\ env'.role = env.role /\ env'.acl = env.acl
            /\ env'.policy = env.policy /\ env'.others = env.others
            /\ env'.faults = env.faults
        BY <3>2, <1>a DEF TransitEnv
      <4>4. job' \in TransitJob
        BY <3>2, <4>1, <4>2, <4>3, <1>a, <1>b, <1>c DEF TransitJob
      <4>5. /\ job'.pc = "noacl" /\ job'.runs = job.runs /\ job'.rev = job.rev
            /\ job'.todo = job.todo /\ job'.versions = job.versions
            /\ job'.verdict = job.verdict
        BY <3>2, <1>a DEF TransitJob
      <4>6. TransitTypes'
        BY <4>1, <4>2, <4>3, <4>4, <4>5, <1>a, <1>b, <1>c
      <4>7. Prepared'
        BY <4>1, <4>2, <4>3, <4>4, <4>5, <1>a, <1>b, <1>c
      <4>8. KeysRead'
        BY <4>1, <4>2, <4>3, <4>4, <4>5, <1>a, <1>b, <1>c
      <4>9. Receipted'
        BY <4>1, <4>2, <4>3, <4>4, <4>5, <1>a, <1>b, <1>c
      <4> QED
        BY <4>6, <4>7, <4>8, <4>9
    <3> QED
      BY <3>1, <3>2
  <2>4. CASE env' = env /\ job' = Unreceipted
    BY <1>a, <2>1, <2>4, UnreceiptedKeeps
  <2> QED
    BY <2>1, <2>3, <2>4
<1>10. CASE VerifyAclAbsent
  <2>1. job.pc = "noacl" /\ ((~ env.acl /\ Request([env EXCEPT !.disturbed = @ \ {"acl"}], [job EXCEPT !.pc = "keys"]))
                             \/ (env' = env /\ job' = Unreceipted))
    BY <1>10 DEF VerifyAclAbsent, Step, At, Ends, Read
  <2>2. [env EXCEPT !.disturbed = @ \ {"acl"}] \in TransitEnv
    BY <1>a, <1>b, <1>c DEF TransitEnv
  <2>3. CASE ~ env.acl /\ Request([env EXCEPT !.disturbed = @ \ {"acl"}], [job EXCEPT !.pc = "keys"])
    <3>1. (env' = [env EXCEPT !.disturbed = @ \ {"acl"}] /\ job' = [job EXCEPT !.pc = "keys"]) \/ TransitInv'
      BY <1>a, <2>1, <2>2, <2>3, RequestKeeps
    <3>2. CASE env' = [env EXCEPT !.disturbed = @ \ {"acl"}] /\ job' = [job EXCEPT !.pc = "keys"]
      <4>1. job.pc = "noacl" /\ ~ env.acl
        BY <2>1, <2>3, <3>2
      <4>2. env' \in TransitEnv
        BY <2>2, <3>2
      <4>3. /\ env'.disturbed = env.disturbed \ {"acl"} /\ env'.cluster = env.cluster
            /\ env'.active = env.active /\ env'.mount = env.mount /\ env'.keys = env.keys
            /\ env'.unsafe = env.unsafe /\ env'.role = env.role /\ env'.acl = env.acl
            /\ env'.policy = env.policy /\ env'.others = env.others
            /\ env'.faults = env.faults
        BY <3>2, <1>a DEF TransitEnv
      <4>4. job' \in TransitJob
        BY <3>2, <4>1, <4>2, <4>3, <1>a, <1>b, <1>c DEF TransitJob
      <4>5. /\ job'.pc = "keys" /\ job'.runs = job.runs /\ job'.rev = job.rev
            /\ job'.todo = job.todo /\ job'.versions = job.versions
            /\ job'.verdict = job.verdict
        BY <3>2, <1>a DEF TransitJob
      <4>6. TransitTypes'
        BY <4>1, <4>2, <4>3, <4>4, <4>5, <1>a, <1>b, <1>c
      <4>7. Prepared'
        BY <4>1, <4>2, <4>3, <4>4, <4>5, <1>a, <1>b, <1>c
      <4>8. KeysRead'
        BY <4>1, <4>2, <4>3, <4>4, <4>5, <1>a, <1>b, <1>c
      <4>9. Receipted'
        BY <4>1, <4>2, <4>3, <4>4, <4>5, <1>a, <1>b, <1>c
      <4> QED
        BY <4>6, <4>7, <4>8, <4>9
    <3> QED
      BY <3>1, <3>2
  <2>4. CASE env' = env /\ job' = Unreceipted
    BY <1>a, <2>1, <2>4, UnreceiptedKeeps
  <2> QED
    BY <2>1, <2>3, <2>4
<1>11. CASE EnsureKey
  <2>a. job.todo # <<>> /\ Len(job.todo) \in Nat \ {0} /\ Head(job.todo) \in TransitKeys
    BY <1>11, <1>b DEF EnsureKey
  <2>b. PICK k \in TransitKeys : k = Head(job.todo)
    BY <2>a
  <2>1. job.pc = "keys" /\ env.keys[k] = 0 /\ Request([env EXCEPT !.keys[k] = 1, !.unsafe = @ \ {k}], job)
    BY <1>11, <2>a, <2>b DEF EnsureKey, Step, At, Ends
  <2>2. [env EXCEPT !.keys[k] = 1, !.unsafe = @ \ {k}] \in TransitEnv
    BY <1>a, <1>b, <1>c, <2>a, <2>b DEF TransitEnv
  <2>3. CASE env.keys[k] = 0 /\ Request([env EXCEPT !.keys[k] = 1, !.unsafe = @ \ {k}], job)
    <3>1. (env' = [env EXCEPT !.keys[k] = 1, !.unsafe = @ \ {k}] /\ job' = job) \/ TransitInv'
      BY <1>a, <2>1, <2>2, <2>3, RequestKeeps
    <3>2. CASE env' = [env EXCEPT !.keys[k] = 1, !.unsafe = @ \ {k}] /\ job' = job
      <4>1. job.pc = "keys" /\ env.keys[k] = 0 /\ job' = job
        BY <2>1, <2>3, <3>2
      <4>2. job.todo[1] = k /\ 1 \in 1..Len(job.todo)
        BY <2>a, <2>b, <1>b
      <4>3. env' \in TransitEnv
        BY <2>2, <3>2
      <4>4. /\ env'.keys = [env.keys EXCEPT ![k] = 1] /\ env'.unsafe = env.unsafe \ {k}
            /\ env'.cluster = env.cluster /\ env'.active = env.active
            /\ env'.mount = env.mount /\ env'.role = env.role /\ env'.acl = env.acl
            /\ env'.policy = env.policy /\ env'.disturbed = env.disturbed
            /\ env'.others = env.others /\ env'.faults = env.faults
        BY <3>2, <1>a DEF TransitEnv
      <4>5. TransitTypes'
        BY <4>1, <4>2, <4>3, <4>4, <1>a, <1>b, <1>c, <2>a, <2>b
      <4>6. Prepared'
        BY <4>1, <4>2, <4>3, <4>4, <1>a, <1>b, <1>c, <2>a, <2>b
      <4>7. KeysRead'
        BY <4>1, <4>2, <4>3, <4>4, <1>a, <1>b, <1>c, <2>a, <2>b, SMTT(30)
      <4>8. Receipted'
        BY <4>1, <4>2, <4>3, <4>4, <1>a, <1>b, <1>c, <2>a, <2>b
      <4> QED
        BY <4>5, <4>6, <4>7, <4>8
    <3> QED
      BY <3>1, <3>2
  <2> QED
    BY <2>1, <2>3
<1>12. CASE ReadKey
  <2>0. job.todo # <<>> /\ job.todo \in Seq(TransitKeys)
    BY <1>12, <1>b DEF ReadKey
  <2>a. job.todo # <<>> /\ Len(job.todo) \in Nat \ {0} /\ Head(job.todo) \in TransitKeys
    BY <2>0
  <2>b. PICK k \in TransitKeys : k = Head(job.todo)
    BY <2>a
  <2>1. job.pc = "keys" /\ ((env.keys[k] # 0 /\ k \notin env.unsafe /\ Request([env EXCEPT !.disturbed = @ \ {k}], [job EXCEPT !.todo = Tail(@), !.versions[k] = env.keys[k]]))
                             \/ (env' = env /\ job' = Ends(job, "refused")))
    BY <1>12, <2>a, <2>b DEF ReadKey, Step, At, Ends, Read, PublicKeySafe
  <2>2. [env EXCEPT !.disturbed = @ \ {k}] \in TransitEnv
    BY <1>a, <1>b, <1>c, <2>a, <2>b DEF TransitEnv
  <2>3. CASE env.keys[k] # 0 /\ k \notin env.unsafe /\ Request([env EXCEPT !.disturbed = @ \ {k}], [job EXCEPT !.todo = Tail(@), !.versions[k] = env.keys[k]])
    <3>1. (env' = [env EXCEPT !.disturbed = @ \ {k}] /\ job' = [job EXCEPT !.todo = Tail(@), !.versions[k] = env.keys[k]]) \/ TransitInv'
      BY <1>a, <2>1, <2>2, <2>3, RequestKeeps
    <3>2. CASE env' = [env EXCEPT !.disturbed = @ \ {k}] /\ job' = [job EXCEPT !.todo = Tail(@), !.versions[k] = env.keys[k]]
      <4>1. job.pc = "keys" /\ env.keys[k] # 0 /\ k \notin env.unsafe
        BY <2>1, <2>3, <3>2
      <4>2. Tail(job.todo) \in Seq(TransitKeys) /\ [job.versions EXCEPT ![k] = env.keys[k]] \in [TransitKeys -> Nat]
        BY <2>a, <1>b
      <4>3. \A x \in TransitKeys : x # k /\ Unread(job.todo, x) => Unread(Tail(job.todo), x)
        BY <2>a, <2>b, <1>b, UnreadTail
      <4>4. env' \in TransitEnv
        BY <2>2, <3>2
      <4>5. /\ env'.disturbed = env.disturbed \ {k} /\ env'.cluster = env.cluster
            /\ env'.active = env.active /\ env'.mount = env.mount /\ env'.keys = env.keys
            /\ env'.unsafe = env.unsafe /\ env'.role = env.role /\ env'.acl = env.acl
            /\ env'.policy = env.policy /\ env'.others = env.others
            /\ env'.faults = env.faults
        BY <3>2, <1>a DEF TransitEnv
      <4>6. job' \in TransitJob
        BY <3>2, <4>1, <4>2, <4>3, <4>4, <4>5, <1>a, <1>b, <1>c, <2>a, <2>b DEF TransitJob
      <4>7. /\ job'.todo = Tail(job.todo)
            /\ job'.versions = [job.versions EXCEPT ![k] = env.keys[k]]
            /\ job'.pc = job.pc /\ job'.runs = job.runs /\ job'.rev = job.rev
            /\ job'.verdict = job.verdict
        BY <3>2, <1>a DEF TransitJob
      <4>8. TransitTypes'
        BY <4>1, <4>2, <4>3, <4>4, <4>5, <4>6, <4>7, <1>a, <1>b, <1>c, <2>a, <2>b
      <4>9. Prepared'
        BY <4>1, <4>2, <4>3, <4>4, <4>5, <4>6, <4>7, <1>a, <1>b, <1>c, <2>a, <2>b
      <4>10. KeysRead'
        BY <4>1, <4>2, <4>3, <4>4, <4>5, <4>6, <4>7, <1>a, <1>b, <1>c, <2>a, <2>b, SMTT(30)
      <4>11. Receipted'
        BY <4>1, <4>2, <4>3, <4>4, <4>5, <4>6, <4>7, <1>a, <1>b, <1>c, <2>a, <2>b
      <4> QED
        BY <4>8, <4>9, <4>10, <4>11
    <3> QED
      BY <3>1, <3>2
  <2>4. CASE env' = env /\ job' = Ends(job, "refused")
    BY <1>a, <2>1, <2>4, RefusedKeeps
  <2> QED
    BY <2>1, <2>3, <2>4
<1>13. CASE InstallPolicy
  <2>1. job.pc = "keys" /\ job.todo = <<>> /\ Request([env EXCEPT !.policy = job.rev], [job EXCEPT !.pc = "readback"])
    BY <1>13 DEF InstallPolicy, Step, At, Ends
  <2>2. [env EXCEPT !.policy = job.rev] \in TransitEnv
    BY <1>a, <1>b, <1>c DEF TransitEnv
  <2>3. CASE job.todo = <<>> /\ Request([env EXCEPT !.policy = job.rev], [job EXCEPT !.pc = "readback"])
    <3>1. (env' = [env EXCEPT !.policy = job.rev] /\ job' = [job EXCEPT !.pc = "readback"]) \/ TransitInv'
      BY <1>a, <2>1, <2>2, <2>3, RequestKeeps
    <3>2. CASE env' = [env EXCEPT !.policy = job.rev] /\ job' = [job EXCEPT !.pc = "readback"]
      <4>1. job.pc = "keys" /\ job.todo = <<>>
        BY <2>1, <2>3, <3>2
      <4>2. env' \in TransitEnv
        BY <2>2, <3>2
      <4>3. /\ env'.policy = job.rev /\ env'.cluster = env.cluster
            /\ env'.active = env.active /\ env'.mount = env.mount /\ env'.keys = env.keys
            /\ env'.unsafe = env.unsafe /\ env'.role = env.role /\ env'.acl = env.acl
            /\ env'.disturbed = env.disturbed /\ env'.others = env.others
            /\ env'.faults = env.faults
        BY <3>2, <1>a DEF TransitEnv
      <4>4. job' \in TransitJob
        BY <3>2, <4>1, <4>2, <4>3, <1>a, <1>b, <1>c DEF TransitJob
      <4>5. /\ job'.pc = "readback" /\ job'.runs = job.runs /\ job'.rev = job.rev
            /\ job'.todo = job.todo /\ job'.versions = job.versions
            /\ job'.verdict = job.verdict
        BY <3>2, <1>a DEF TransitJob
      <4>6. TransitTypes'
        BY <4>1, <4>2, <4>3, <4>4, <4>5, <1>a, <1>b, <1>c
      <4>7. Prepared'
        BY <4>1, <4>2, <4>3, <4>4, <4>5, <1>a, <1>b, <1>c
      <4>8. KeysRead'
        BY <4>1, <4>2, <4>3, <4>4, <4>5, <1>a, <1>b, <1>c
      <4>9. Receipted'
        BY <4>1, <4>2, <4>3, <4>4, <4>5, <1>a, <1>b, <1>c
      <4> QED
        BY <4>6, <4>7, <4>8, <4>9
    <3> QED
      BY <3>1, <3>2
  <2> QED
    BY <2>1, <2>3
<1>14. CASE VerifyPolicy
  <2>1. job.pc = "readback" /\ ((env.policy = job.rev /\ Request([env EXCEPT !.disturbed = @ \ {"policy"}], [job EXCEPT !.pc = "write"]))
                             \/ (env' = env /\ job' = Unreceipted))
    BY <1>14 DEF VerifyPolicy, Step, At, Ends, Read, ReadbackMatches
  <2>2. [env EXCEPT !.disturbed = @ \ {"policy"}] \in TransitEnv
    BY <1>a, <1>b, <1>c DEF TransitEnv
  <2>3. CASE env.policy = job.rev /\ Request([env EXCEPT !.disturbed = @ \ {"policy"}], [job EXCEPT !.pc = "write"])
    <3>1. (env' = [env EXCEPT !.disturbed = @ \ {"policy"}] /\ job' = [job EXCEPT !.pc = "write"]) \/ TransitInv'
      BY <1>a, <2>1, <2>2, <2>3, RequestKeeps
    <3>2. CASE env' = [env EXCEPT !.disturbed = @ \ {"policy"}] /\ job' = [job EXCEPT !.pc = "write"]
      <4>1. job.pc = "readback" /\ env.policy = job.rev
        BY <2>1, <2>3, <3>2
      <4>2. env' \in TransitEnv
        BY <2>2, <3>2
      <4>3. /\ env'.disturbed = env.disturbed \ {"policy"} /\ env'.cluster = env.cluster
            /\ env'.active = env.active /\ env'.mount = env.mount /\ env'.keys = env.keys
            /\ env'.unsafe = env.unsafe /\ env'.role = env.role /\ env'.acl = env.acl
            /\ env'.policy = env.policy /\ env'.others = env.others
            /\ env'.faults = env.faults
        BY <3>2, <1>a DEF TransitEnv
      <4>4. job' \in TransitJob
        BY <3>2, <4>1, <4>2, <4>3, <1>a, <1>b, <1>c DEF TransitJob
      <4>5. /\ job'.pc = "write" /\ job'.runs = job.runs /\ job'.rev = job.rev
            /\ job'.todo = job.todo /\ job'.versions = job.versions
            /\ job'.verdict = job.verdict
        BY <3>2, <1>a DEF TransitJob
      <4>6. TransitTypes'
        BY <4>1, <4>2, <4>3, <4>4, <4>5, <1>a, <1>b, <1>c
      <4>7. Prepared'
        BY <4>1, <4>2, <4>3, <4>4, <4>5, <1>a, <1>b, <1>c
      <4>8. KeysRead'
        BY <4>1, <4>2, <4>3, <4>4, <4>5, <1>a, <1>b, <1>c
      <4>9. Receipted'
        BY <4>1, <4>2, <4>3, <4>4, <4>5, <1>a, <1>b, <1>c
      <4> QED
        BY <4>6, <4>7, <4>8, <4>9
    <3> QED
      BY <3>1, <3>2
  <2>4. CASE env' = env /\ job' = Unreceipted
    BY <1>a, <2>1, <2>4, UnreceiptedKeeps
  <2> QED
    BY <2>1, <2>3, <2>4
<1>15. CASE WriteReceipt
  <2>0. \/ /\ job.pc = "write" /\ env' = env
           /\ job' = [job EXCEPT !.pc = "done", !.verdict = "receipt"]
        \/ /\ job.pc = "write" /\ env' = env /\ job' = Unreceipted
    BY <1>15 DEF WriteReceipt, Step, At, Live, Ends
  <2>1. CASE /\ job.pc = "write" /\ env' = env
             /\ job' = [job EXCEPT !.pc = "done", !.verdict = "receipt"]
    <3>1. /\ job.pc = "write" /\ env' = env
      BY <2>1
    <3>2. job' \in TransitJob
      BY <2>1, <1>a, <1>b, <1>c DEF TransitJob
    <3>3. /\ job'.pc = "done" /\ job'.verdict = "receipt" /\ job'.runs = job.runs
          /\ job'.rev = job.rev /\ job'.todo = job.todo /\ job'.versions = job.versions
      BY <2>1, <1>a DEF TransitJob
    <3>4. \A k \in TransitKeys : ~ Unread(job.todo, k)
      BY <3>1 DEF Unread
    <3>5. TransitTypes'
      BY <3>1, <3>2, <3>3, <3>4, <1>a, <1>b, <1>c
    <3>6. Prepared'
      BY <3>1, <3>2, <3>3, <3>4, <1>a, <1>b, <1>c
    <3>7. KeysRead'
      BY <3>1, <3>2, <3>3, <3>4, <1>a, <1>b, <1>c
    <3>8. Receipted'
      BY <3>1, <3>2, <3>3, <3>4, <1>a, <1>b, <1>c
    <3> QED
      BY <3>5, <3>6, <3>7, <3>8
  <2>2. CASE /\ job.pc = "write" /\ env' = env /\ job' = Unreceipted
    <3>1. /\ job.pc = "write" /\ env' = env
      BY <2>2
    <3> QED
      BY <3>1, <1>a, <1>b, <1>c, <2>2, UnreceiptedKeeps
  <2> QED
    BY <2>0, <2>1, <2>2
<1> QED
  BY <1>1, <1>2, <1>3, <1>4, <1>5, <1>6, <1>7, <1>8, <1>9, <1>10, <1>11, <1>12, <1>13, <1>14, <1>15 DEF TransitNext

\* The invariant gives what the receipt says.
LEMMA TransitSafe == TransitInv => ReceiptIsWhatWasRead
  BY DEF TransitInv, Receipted, KeyHolds, ReceiptIsWhatWasRead

-----------------------------------------------------------------------------
(* PromotionLedger: the promotion ledger and its gate. *)

VerifiedEntries ==
  [state : {"verified"}, day : Nat, zanzibar : {"GREEN", "AMBER"}, exact : BOOLEAN]
LedgerEntries == {NoEntry, BareEntry} \cup VerifiedEntries
PromotionEnv ==
  [test : [Services -> Digests], run : [Services -> Digests], prod : [Services -> Digests],
   broken : SUBSET Digests, day : Nat, moves : Nat,
   ledger : [Services -> [NewDigests -> LedgerEntries]], bases : SUBSET (SUBSET Digests),
   gated : SUBSET (Services \X Digests), prs : Nat]
PromotionJob ==
  [pc : {"idle", "probe", "done"}, co : {<<>>} \cup [Services -> Digests], todo : Seq(Services),
   insync : SUBSET Services, red : BOOLEAN, day : Nat, smokes : Nat,
   verdict : {"none", "lag", "clean"}]
PromotionTypes == env \in PromotionEnv /\ job \in PromotionJob

IsVerified(e, d) == env.ledger[e][d].state = "verified"

(* Evidence in the ledger passes its service's policy, and exact evidence is
   of an image that works. *)
EvidenceHolds ==
  \A e \in Services, d \in NewDigests :
    IsVerified(e, d) =>
      CheckTiers(e, env.ledger[e][d].zanzibar) /\ (env.ledger[e][d].exact => d \notin env.broken)

(* A service whose pods ran the checked out digest was probed with it. *)
ProbeTracks ==
  /\ job.pc = "idle" => job.insync = {}
  /\ job.pc = "probe" =>
       /\ job.co \in [Services -> Digests]
       /\ ~ job.red => \A s \in job.insync : job.co[s] \notin env.broken

(* Prod, every base a pull request may have been opened on, and every pull
   request that passed its gate hold digests with evidence only. *)
Backed(d) == d \in NewDigests => \E e \in Services : IsVerified(e, d)
ProdBacked ==
  /\ \A s \in Services : Backed(env.prod[s])
  /\ \A base \in env.bases : \A d \in base : Backed(d)
  /\ \A pr \in env.gated : Backed(pr[2])

LagJudged ==
  job.verdict = "clean" =>
    /\ job.pc = "done"
    /\ \A s \in Services : \A d \in VerifiedDigests(s) :
         Lags(s, d) => \E n \in VerifiedDigests(s) :
           env.ledger[s][n].day >= env.ledger[s][d].day /\ ~ Lags(s, n)

PromotionInv == PromotionTypes /\ EvidenceHolds /\ ProbeTracks /\ ProdBacked /\ LagJudged

\* Both overlays start with the digest that needs no entry.
LEMMA PromotionStart == PromotionInit => PromotionInv
<1> SUFFICES ASSUME PromotionInit PROVE PromotionInv
  OBVIOUS
<1>0. Digests = 0..2 /\ NewDigests = 1..2 /\ 0 \in Digests /\ 0 \notin NewDigests
  BY DEF Digests, NewDigests
<1>1. PICK broken \in SUBSET {1} :
        env = [test |-> [s \in Services |-> 0], run |-> [s \in Services |-> 0],
               prod |-> [s \in Services |-> 0], broken |-> broken, day |-> 0, moves |-> 0,
               ledger |-> [s \in Services |-> [d \in NewDigests |-> NoEntry]],
               bases |-> {{0}}, gated |-> {}, prs |-> 0]
  BY DEF PromotionInit
<1>2. job = [pc |-> "idle", co |-> <<>>, todo |-> <<>>, insync |-> {}, red |-> FALSE,
             day |-> 0, smokes |-> 0, verdict |-> "none"]
  BY DEF PromotionInit
<1>3. /\ [s \in Services |-> 0] \in [Services -> Digests]
      /\ {{0}} \in SUBSET (SUBSET Digests) /\ broken \in SUBSET Digests
  BY <1>0
<1>4. [s \in Services |-> [d \in NewDigests |-> NoEntry]] \in [Services -> [NewDigests -> LedgerEntries]]
  BY DEF LedgerEntries
<1>5. env \in PromotionEnv
  BY <1>1, <1>3, <1>4 DEF PromotionEnv
<1>6. job \in PromotionJob
  BY <1>2 DEF PromotionJob
<1>7. EvidenceHolds
  BY <1>1 DEF EvidenceHolds, IsVerified, NoEntry
<1>8. ProdBacked
  BY <1>0, <1>1 DEF ProdBacked, Backed
<1> QED
  BY <1>2, <1>5, <1>6, <1>7, <1>8 DEF PromotionInv, PromotionTypes, ProbeTracks, LagJudged

\* Steps that leave the ledger and prod alone keep the invariant.
LEMMA OthersKeep ==
  ASSUME PromotionInv, job.pc # "done", env' \in PromotionEnv, job' = job,
         env'.ledger = env.ledger, env'.prod = env.prod, env'.bases = env.bases,
         env'.gated = env.gated, env'.broken = env.broken
  PROVE  PromotionInv'
  BY DEF PromotionInv, PromotionTypes, EvidenceHolds, ProbeTracks, ProdBacked, Backed, LagJudged,
     IsVerified, CheckTiers

\* New evidence that holds takes nothing back.
LEMMA LedgerKeeps ==
  ASSUME PromotionInv, env' \in PromotionEnv, job' \in PromotionJob, ProbeTracks',
         job'.verdict # "clean", env'.prod = env.prod, env'.bases = env.bases,
         env'.gated = env.gated, env'.broken = env.broken,
         \A e \in Services, d \in NewDigests :
           IsVerified(e, d) => env'.ledger[e][d] = env.ledger[e][d],
         \A e \in Services, d \in NewDigests :
           ~ IsVerified(e, d) /\ env'.ledger[e][d].state = "verified" =>
             /\ CheckTiers(e, env'.ledger[e][d].zanzibar)
             /\ env'.ledger[e][d].exact => d \notin env.broken
  PROVE  PromotionInv'
<1>1. EvidenceHolds'
  BY DEF PromotionInv, EvidenceHolds, IsVerified, CheckTiers
<1>2. \A d : Backed(d) => Backed(d)'
  BY DEF Backed, IsVerified
<1>3. ProdBacked'
  BY <1>2 DEF PromotionInv, ProdBacked
<1> QED
  BY <1>1, <1>3 DEF PromotionInv, PromotionTypes, LagJudged

\* One entry of the ledger is set.
LEMMA EntrySet ==
  ASSUME NEW l \in [Services -> [NewDigests -> LedgerEntries]], NEW s \in Services,
         NEW d \in NewDigests, NEW entry \in LedgerEntries
  PROVE  /\ [l EXCEPT ![s][d] = entry] \in [Services -> [NewDigests -> LedgerEntries]]
         /\ [l EXCEPT ![s][d] = entry][s][d] = entry
         /\ \A e \in Services, x \in NewDigests :
              (e # s \/ x # d) => [l EXCEPT ![s][d] = entry][e][x] = l[e][x]
  OBVIOUS

\* A verified entry has a day.
LEMMA VerifiedDay ==
  ASSUME PromotionInv, NEW s \in Services, NEW d \in VerifiedDigests(s)
  PROVE  env.ledger[s][d].day \in Nat
<1>1. d \in NewDigests /\ env.ledger[s][d].state = "verified"
  BY DEF VerifiedDigests, CheckEvidence
<1>2. env.ledger[s][d] \in LedgerEntries
  BY <1>1 DEF PromotionInv, PromotionTypes, PromotionEnv
<1>3. env.ledger[s][d] \in VerifiedEntries
  BY <1>1, <1>2 DEF LedgerEntries, NoEntry, BareEntry
<1> QED
  BY <1>3 DEF VerifiedEntries

\* The invariant is kept by every step of the overlays, of the smoke unit, of
\* the gate and of the lag check.
LEMMA PromotionStep == PromotionInv /\ PromotionNext => PromotionInv'
<1> SUFFICES ASSUME PromotionInv, PromotionNext PROVE PromotionInv'
  OBVIOUS
<1>0. PromotionInv /\ NewDigests \subseteq Digests
  BY DEF NewDigests
<1>a. env \in PromotionEnv /\ job \in PromotionJob
  BY DEF PromotionInv, PromotionTypes
<1>b. /\ env.test \in [Services -> Digests] /\ env.run \in [Services -> Digests]
      /\ env.prod \in [Services -> Digests] /\ env.broken \in SUBSET Digests /\ env.day \in Nat
      /\ env.moves \in Nat /\ env.ledger \in [Services -> [NewDigests -> LedgerEntries]]
      /\ env.bases \in SUBSET (SUBSET Digests) /\ env.gated \in SUBSET (Services \X Digests)
      /\ env.prs \in Nat
  BY <1>a DEF PromotionEnv
<1>c. /\ job.co \in {<<>>} \cup [Services -> Digests] /\ job.todo \in Seq(Services)
      /\ job.insync \in SUBSET Services /\ job.red \in BOOLEAN /\ job.day \in Nat /\ job.smokes \in Nat
      /\ job.verdict \in {"none", "lag", "clean"}
  BY <1>a DEF PromotionJob
<1>d. job.pc # "done" => job.verdict # "clean"
  BY <1>0 DEF PromotionInv, LagJudged
<1>1. CASE TestBump
  <2>1. PICK s \in Services, d \in NewDigests :
          /\ job.pc # "done" /\ job' = job
          /\ env' = [env EXCEPT !.test[s] = d, !.moves = @ + 1]
    BY <1>1 DEF TestBump, MayMove, Live, Step
  <2>2. PICK test \in [Services -> Digests] : test = [env.test EXCEPT ![s] = d]
    BY <1>0, <1>b
  <2>3. PICK moves \in Nat : moves = env.moves + 1
    BY <1>b
  <2>4. env' = [env EXCEPT !.test = test, !.moves = moves]
    BY <2>1, <2>2, <2>3, <1>a DEF PromotionEnv
  <2>5. /\ env' \in PromotionEnv /\ env'.ledger = env.ledger /\ env'.prod = env.prod
        /\ env'.bases = env.bases /\ env'.gated = env.gated /\ env'.broken = env.broken
    BY <2>4, <1>a DEF PromotionEnv
  <2> QED
    BY <1>0, <2>1, <2>5, OthersKeep
<1>2. CASE ArgoSync
  <2>1. PICK s \in Services :
          job.pc # "done" /\ job' = job /\ env' = [env EXCEPT !.run[s] = env.test[s]]
    BY <1>2 DEF ArgoSync, Live, Step
  <2>2. PICK run \in [Services -> Digests] : run = [env.run EXCEPT ![s] = env.test[s]]
    BY <1>b
  <2>3. env' = [env EXCEPT !.run = run]
    BY <2>1, <2>2, <1>a DEF PromotionEnv
  <2>4. /\ env' \in PromotionEnv /\ env'.ledger = env.ledger /\ env'.prod = env.prod
        /\ env'.bases = env.bases /\ env'.gated = env.gated /\ env'.broken = env.broken
    BY <2>3, <1>a DEF PromotionEnv
  <2> QED
    BY <1>0, <2>1, <2>4, OthersKeep
<1>3. CASE NextDay
  <2>1. job.pc # "done" /\ job' = job /\ env' = [env EXCEPT !.day = 1, !.moves = @ + 1]
    BY <1>3 DEF NextDay, MayMove, Live, Step
  <2>2. PICK moves \in Nat : moves = env.moves + 1
    BY <1>b
  <2>3. env' = [env EXCEPT !.day = 1, !.moves = moves]
    BY <2>1, <2>2
  <2>4. /\ env' \in PromotionEnv /\ env'.ledger = env.ledger /\ env'.prod = env.prod
        /\ env'.bases = env.bases /\ env'.gated = env.gated /\ env'.broken = env.broken
    BY <2>3, <1>a DEF PromotionEnv
  <2> QED
    BY <1>0, <2>1, <2>4, OthersKeep
<1>4. CASE EntryAdded
  <2>1. PICK s \in Services, d \in NewDigests :
          /\ job.pc # "done" /\ job' = job /\ env.ledger[s][d] = NoEntry
          /\ env' = [env EXCEPT !.ledger[s][d] = BareEntry, !.moves = @ + 1]
    BY <1>4 DEF EntryAdded, MayMove, Live, Step
  <2>2. BareEntry \in LedgerEntries
    BY DEF LedgerEntries
  <2>3. PICK ledger \in [Services -> [NewDigests -> LedgerEntries]] :
          /\ ledger = [env.ledger EXCEPT ![s][d] = BareEntry]
          /\ ledger[s][d] = BareEntry
          /\ \A e \in Services, x \in NewDigests : (e # s \/ x # d) => ledger[e][x] = env.ledger[e][x]
    <3>1. env.ledger \in [Services -> [NewDigests -> LedgerEntries]]
      BY <1>b
    <3>2. /\ [env.ledger EXCEPT ![s][d] = BareEntry] \in [Services -> [NewDigests -> LedgerEntries]]
          /\ [env.ledger EXCEPT ![s][d] = BareEntry][s][d] = BareEntry
          /\ \A e \in Services, x \in NewDigests :
               (e # s \/ x # d) => [env.ledger EXCEPT ![s][d] = BareEntry][e][x] = env.ledger[e][x]
      BY <2>2, <3>1, EntrySet
    <3> QED
      BY <3>2
  <2>4. PICK moves \in Nat : moves = env.moves + 1
    BY <1>b
  <2>5. env' = [env EXCEPT !.ledger = ledger, !.moves = moves]
    BY <2>1, <2>3, <2>4, <1>a DEF PromotionEnv
  <2>6. /\ env' \in PromotionEnv /\ env'.ledger = ledger /\ env'.prod = env.prod
        /\ env'.bases = env.bases /\ env'.gated = env.gated /\ env'.broken = env.broken
    BY <2>5, <1>a DEF PromotionEnv
  <2>7. env.ledger[s][d].state # "verified" /\ ledger[s][d].state # "verified"
    BY <2>1, <2>3 DEF NoEntry, BareEntry
  <2>8. ProbeTracks'
    BY <1>0, <2>1, <2>6 DEF PromotionInv, ProbeTracks
  <2>9. /\ \A e \in Services, x \in NewDigests :
             IsVerified(e, x) => env'.ledger[e][x] = env.ledger[e][x]
        /\ \A e \in Services, x \in NewDigests :
             ~ (~ IsVerified(e, x) /\ env'.ledger[e][x].state = "verified")
    BY <2>3, <2>6, <2>7 DEF IsVerified
  <2> QED
    BY <1>0, <1>a, <1>d, <2>1, <2>6, <2>8, <2>9, LedgerKeeps
<1>5. CASE Checkout
  <2>1. /\ env' = env /\ job.pc = "idle"
        /\ job' = [job EXCEPT !.pc = "probe", !.co = env.test, !.todo = ProbeOrder, !.day = env.day,
                              !.smokes = @ + 1]
    BY <1>5 DEF Checkout, Step, At
  <2>2. ProbeOrder \in Seq(Services)
    BY DEF ProbeOrder, Services
  <2>3. job.smokes + 1 \in Nat /\ env.test \in {<<>>} \cup [Services -> Digests]
    BY <1>b, <1>c
  <2>4. job' \in PromotionJob
    BY <2>1, <2>2, <2>3, <1>a, <1>b DEF PromotionJob
  <2>5. /\ job'.pc = "probe" /\ job'.co = env.test /\ job'.insync = job.insync
        /\ job'.verdict = job.verdict
    BY <2>1, <1>a DEF PromotionJob
  <2>6. job.insync = {}
    BY <1>0, <2>1 DEF PromotionInv, ProbeTracks
  <2>7. ProbeTracks'
    BY <2>5, <2>6, <1>b DEF ProbeTracks
  <2> QED
    BY <1>0, <1>a, <1>d, <2>1, <2>4, <2>5, <2>7, LedgerKeeps DEF IsVerified
<1>6. CASE ProbeService
  <2>1. PICK s \in Services : s = Head(job.todo) /\ job.pc = "probe" /\ job.todo # <<>> /\ env' = env
    BY <1>6, <1>c DEF ProbeService, Step, At
  <2>2. PICK red \in BOOLEAN : red = (job.red \/ env.run[s] \in env.broken)
    OBVIOUS
  <2>3. PICK insync \in SUBSET Services :
          insync = IF env.run[s] = job.co[s] THEN job.insync \cup {s} ELSE job.insync
    BY <1>c
  <2>4. job' = [job EXCEPT !.todo = Tail(@), !.red = red, !.insync = insync]
    BY <1>6, <2>1, <2>2, <2>3 DEF ProbeService, Step
  <2>5. Tail(job.todo) \in Seq(Services)
    BY <2>1, <1>c
  <2>6. job' \in PromotionJob
    BY <2>4, <2>5, <1>a, Zenon DEF PromotionJob
  <2>7. /\ job'.pc = "probe" /\ job'.co = job.co /\ job'.insync = insync /\ job'.red = red
        /\ job'.verdict = job.verdict
    BY <2>1, <2>4, <1>a DEF PromotionJob
  <2>8. ProbeTracks'
    BY <1>0, <2>1, <2>2, <2>3, <2>7 DEF PromotionInv, ProbeTracks
  <2> QED
    BY <1>0, <1>a, <1>d, <2>1, <2>6, <2>7, <2>8, LedgerKeeps DEF IsVerified
<1>7. CASE MarkVerified
  <2>1. PICK zanzibar \in {"GREEN", "AMBER"}, autogenerate \in BOOLEAN :
          LET marked == {s \in Services :
                /\ SmokePassed(zanzibar) /\ Markable(s, job.co[s]) /\ CheckTiers(s, zanzibar)
                /\ autogenerate \/ env.ledger[s][job.co[s]] # NoEntry}
              now == [s \in Services |-> [d \in NewDigests |->
                IF s \in marked /\ d = job.co[s]
                THEN Evidence(zanzibar, s \in job.insync) ELSE env.ledger[s][d]]]
          IN  env' = [env EXCEPT !.ledger = now] /\ job' = Idle(job)
    BY <1>7 DEF MarkVerified, Step
  <2>2. PICK marked \in SUBSET Services :
          marked = {s \in Services :
                /\ SmokePassed(zanzibar) /\ Markable(s, job.co[s]) /\ CheckTiers(s, zanzibar)
                /\ autogenerate \/ env.ledger[s][job.co[s]] # NoEntry}
    OBVIOUS
  <2>3. \A s \in marked : /\ ~ job.red /\ CheckTiers(s, zanzibar)
                          /\ ~ IsVerified(s, job.co[s])
    BY <2>2 DEF SmokePassed, Markable, IsVerified
  <2>4. PICK ledger : ledger = [s \in Services |-> [d \in NewDigests |->
                        IF s \in marked /\ d = job.co[s]
                        THEN Evidence(zanzibar, s \in job.insync) ELSE env.ledger[s][d]]]
    OBVIOUS
  <2>6. \A s \in Services, d \in NewDigests :
          /\ ledger[s][d] \in LedgerEntries
          /\ IF s \in marked /\ d = job.co[s]
             THEN /\ ledger[s][d].zanzibar = zanzibar
                  /\ ledger[s][d].exact <=> s \in job.insync
             ELSE ledger[s][d] = env.ledger[s][d]
    <3> TAKE s \in Services, d \in NewDigests
    <3>1. CASE s \in marked /\ d = job.co[s]
      <4>1. ledger[s][d] = [state |-> "verified", day |-> job.day, zanzibar |-> zanzibar,
                            exact |-> s \in job.insync]
        BY <2>4, <3>1 DEF Evidence
      <4>2. /\ ledger[s][d] \in VerifiedEntries /\ ledger[s][d].zanzibar = zanzibar
            /\ ledger[s][d].exact <=> s \in job.insync
        <5>1. CASE s \in job.insync
          <6>1. ledger[s][d] = [state |-> "verified", day |-> job.day, zanzibar |-> zanzibar, exact |-> TRUE]
            BY <4>1, <5>1, Zenon
          <6> QED
            BY <5>1, <6>1, <1>c DEF VerifiedEntries
        <5>2. CASE s \notin job.insync
          <6>1. ledger[s][d] = [state |-> "verified", day |-> job.day, zanzibar |-> zanzibar, exact |-> FALSE]
            <7>1. (s \in job.insync) = FALSE
              BY <5>2
            <7> QED
              BY <4>1, <7>1, Zenon
          <6> QED
            BY <5>2, <6>1, <1>c DEF VerifiedEntries
        <5> QED
          BY <5>1, <5>2
      <4> QED
        BY <3>1, <4>2 DEF LedgerEntries
    <3>2. CASE ~ (s \in marked /\ d = job.co[s])
      <4>1. ledger[s][d] = env.ledger[s][d]
        BY <2>4, <3>2
      <4> QED
        BY <3>2, <4>1, <1>b
    <3> QED
      BY <3>1, <3>2
  <2>7. ledger \in [Services -> [NewDigests -> LedgerEntries]]
    BY <2>4, <2>6
  <2>8. job.pc = "probe" /\ env' = [env EXCEPT !.ledger = ledger] /\ job' = Idle(job)
    BY <1>7, <2>1, <2>2, <2>4 DEF MarkVerified, At
  <2>9. /\ env' \in PromotionEnv /\ env'.ledger = ledger /\ env'.prod = env.prod
        /\ env'.bases = env.bases /\ env'.gated = env.gated /\ env'.broken = env.broken
    BY <2>7, <2>8, <1>a DEF PromotionEnv
  <2>10. job' \in PromotionJob /\ job'.pc = "idle" /\ job'.insync = {} /\ job'.verdict = job.verdict
    <3>1. job' = [job EXCEPT !.pc = "idle", !.co = <<>>, !.todo = <<>>, !.insync = {}, !.red = FALSE,
                             !.day = 0]
      BY <2>8 DEF Idle
    <3>2. /\ <<>> \in Seq(Services) /\ <<>> \in {<<>>} \cup [Services -> Digests]
          /\ "idle" \in {"idle", "probe", "done"} /\ {} \in SUBSET Services /\ FALSE \in BOOLEAN
          /\ 0 \in Nat
      OBVIOUS
    <3>3. job' \in PromotionJob
      BY <3>1, <3>2, <1>a, Zenon DEF PromotionJob
    <3>4. job'.pc = "idle" /\ job'.insync = {} /\ job'.verdict = job.verdict
      BY <3>1, <1>a, Zenon DEF PromotionJob
    <3> QED
      BY <3>3, <3>4
  <2>11. ProbeTracks'
    BY <2>10 DEF ProbeTracks
  <2>12. \A e \in Services, d \in NewDigests :
           IsVerified(e, d) => env'.ledger[e][d] = env.ledger[e][d]
    BY <2>3, <2>6, <2>9
  <2>13. \A e \in Services, d \in NewDigests :
           ~ IsVerified(e, d) /\ env'.ledger[e][d].state = "verified" =>
             /\ CheckTiers(e, env'.ledger[e][d].zanzibar)
             /\ env'.ledger[e][d].exact => d \notin env.broken
    <3> SUFFICES ASSUME NEW e \in Services, NEW d \in NewDigests, ~ IsVerified(e, d),
                        env'.ledger[e][d].state = "verified"
                 PROVE  /\ CheckTiers(e, env'.ledger[e][d].zanzibar)
                        /\ env'.ledger[e][d].exact => d \notin env.broken
      OBVIOUS
    <3>1. e \in marked /\ d = job.co[e]
      BY <2>6, <2>9 DEF IsVerified
    <3>2. ledger[e][d].zanzibar = zanzibar /\ (ledger[e][d].exact => e \in job.insync)
      BY <2>6, <3>1
    <3>3. e \in job.insync => d \notin env.broken
      BY <1>0, <2>3, <2>8, <3>1 DEF PromotionInv, ProbeTracks
    <3> QED
      BY <2>3, <2>9, <3>1, <3>2, <3>3
  <2> QED
    BY <1>0, <1>d, <2>8, <2>9, <2>10, <2>11, <2>12, <2>13, LedgerKeeps
<1>8. CASE VariantSmoke
  <2>1. PICK d \in NewDigests \ env.broken :
          /\ job.pc = "idle" /\ Markable("web", d) /\ CheckTiers("web", "AMBER")
          /\ env' = [env EXCEPT !.ledger["web"][d] = [Evidence("AMBER", TRUE) EXCEPT !.day = env.day]]
          /\ job' = [job EXCEPT !.smokes = @ + 1]
    BY <1>8 DEF VariantSmoke, Step, At
  <2>2. PICK entry \in VerifiedEntries :
          entry = [Evidence("AMBER", TRUE) EXCEPT !.day = env.day] /\ entry.zanzibar = "AMBER"
    <3>1. [Evidence("AMBER", TRUE) EXCEPT !.day = env.day] =
            [state |-> "verified", day |-> env.day, zanzibar |-> "AMBER", exact |-> TRUE]
      BY DEF Evidence
    <3>2. /\ [state |-> "verified", day |-> env.day, zanzibar |-> "AMBER", exact |-> TRUE] \in VerifiedEntries
          /\ [state |-> "verified", day |-> env.day, zanzibar |-> "AMBER", exact |-> TRUE].zanzibar = "AMBER"
      BY <1>b DEF VerifiedEntries
    <3> QED
      BY <3>1, <3>2
  <2>3. entry \in LedgerEntries /\ "web" \in Services
    BY DEF LedgerEntries, Services
  <2>4. PICK ledger \in [Services -> [NewDigests -> LedgerEntries]] :
          /\ ledger = [env.ledger EXCEPT !["web"][d] = entry]
          /\ ledger["web"][d] = entry
          /\ \A e \in Services, x \in NewDigests : (e # "web" \/ x # d) => ledger[e][x] = env.ledger[e][x]
    <3>1. env.ledger \in [Services -> [NewDigests -> LedgerEntries]] /\ d \in NewDigests
      BY <1>b
    <3>2. /\ [env.ledger EXCEPT !["web"][d] = entry] \in [Services -> [NewDigests -> LedgerEntries]]
          /\ [env.ledger EXCEPT !["web"][d] = entry]["web"][d] = entry
          /\ \A e \in Services, x \in NewDigests :
               (e # "web" \/ x # d) => [env.ledger EXCEPT !["web"][d] = entry][e][x] = env.ledger[e][x]
      BY <2>3, <3>1, EntrySet
    <3> QED
      BY <3>2
  <2>5. env' = [env EXCEPT !.ledger = ledger]
    BY <2>1, <2>2, <2>4, <1>a DEF PromotionEnv
  <2>6. /\ env' \in PromotionEnv /\ env'.ledger = ledger /\ env'.prod = env.prod
        /\ env'.bases = env.bases /\ env'.gated = env.gated /\ env'.broken = env.broken
    BY <2>5, <1>a DEF PromotionEnv
  <2>7. job.smokes + 1 \in Nat
    BY <1>c
  <2>8. /\ job' \in PromotionJob /\ job'.pc = "idle" /\ job'.insync = job.insync
        /\ job'.verdict = job.verdict
    BY <2>1, <2>7, <1>a DEF PromotionJob
  <2>9. ~ IsVerified("web", d)
    BY <2>1 DEF Markable, IsVerified
  <2>10. ProbeTracks'
    BY <1>0, <2>1, <2>8 DEF PromotionInv, ProbeTracks
  <2>11. \A e \in Services, x \in NewDigests :
           IsVerified(e, x) => env'.ledger[e][x] = env.ledger[e][x]
    BY <2>4, <2>6, <2>9
  <2>12. \A e \in Services, x \in NewDigests :
           ~ IsVerified(e, x) /\ env'.ledger[e][x].state = "verified" =>
             /\ CheckTiers(e, env'.ledger[e][x].zanzibar)
             /\ env'.ledger[e][x].exact => x \notin env.broken
    <3> SUFFICES ASSUME NEW e \in Services, NEW x \in NewDigests, ~ IsVerified(e, x),
                        env'.ledger[e][x].state = "verified"
                 PROVE  /\ CheckTiers(e, env'.ledger[e][x].zanzibar)
                        /\ env'.ledger[e][x].exact => x \notin env.broken
      OBVIOUS
    <3>1. e = "web" /\ x = d
      BY <2>4, <2>6 DEF IsVerified
    <3>2. env'.ledger[e][x] = entry /\ CheckTiers(e, "AMBER") /\ x \notin env.broken
      BY <2>1, <2>4, <2>6, <3>1
    <3> QED
      BY <2>2, <3>2
  <2> QED
    BY <1>0, <1>d, <2>1, <2>6, <2>8, <2>10, <2>11, <2>12, LedgerKeeps
<1>9. CASE GatePasses
  <2>1. PICK s \in Services, d \in Digests, base \in env.bases :
          /\ job.pc # "done" /\ job' = job
          /\ \A new \in AddedDigests(s, d, base) :
               \E first \in EntriesOf(new) : CheckEvidence(first, new)
          /\ env' = [env EXCEPT !.gated = @ \cup {<<s, d>>}, !.prs = @ + 1]
    BY <1>9 DEF GatePasses, Live, Step
  <2>2. d \in HeadDigests(s, d)
    BY <1>b DEF HeadDigests, Range
  <2>3. Backed(d)
    <3>1. CASE d \in base
      BY <1>0, <3>1 DEF PromotionInv, ProdBacked
    <3>2. CASE d \notin base
      <4>1. \E first \in EntriesOf(d) : CheckEvidence(first, d)
        BY <2>1, <2>2, <3>2 DEF AddedDigests
      <4> QED
        BY <4>1 DEF EntriesOf, CheckEvidence, Backed, IsVerified
    <3> QED
      BY <3>1, <3>2
  <2>4. PICK gated \in SUBSET (Services \X Digests) : gated = env.gated \cup {<<s, d>>}
    <3>1. <<s, d>> \in Services \X Digests
      OBVIOUS
    <3>2. env.gated \cup {<<s, d>>} \in SUBSET (Services \X Digests)
      BY <3>1, <1>b
    <3> QED
      BY <3>2
  <2>5. PICK prs \in Nat : prs = env.prs + 1
    BY <1>b
  <2>6. env' = [env EXCEPT !.gated = gated, !.prs = prs]
    BY <2>1, <2>4, <2>5
  <2>7. /\ env' \in PromotionEnv /\ env'.ledger = env.ledger /\ env'.prod = env.prod
        /\ env'.bases = env.bases /\ env'.gated = gated /\ env'.broken = env.broken
    BY <2>6, <1>a DEF PromotionEnv
  <2>8. \A x : Backed(x) => Backed(x)'
    BY <2>7 DEF Backed, IsVerified
  <2>9. \A pr \in gated : pr \in env.gated \/ pr[2] = d
    BY <2>4
  <2>10. ProdBacked'
    BY <1>0, <2>3, <2>7, <2>8, <2>9 DEF PromotionInv, ProdBacked
  <2>11. EvidenceHolds' /\ ProbeTracks'
    BY <1>0, <2>1, <2>7 DEF PromotionInv, EvidenceHolds, ProbeTracks, IsVerified, CheckTiers
  <2> QED
    BY <1>a, <1>d, <2>1, <2>7, <2>10, <2>11 DEF PromotionInv, PromotionTypes, LagJudged
<1>10. CASE MergePr
  <2>1. PICK pr \in env.gated :
          /\ job.pc # "done" /\ job' = job
          /\ env' = [env EXCEPT !.prod = [env.prod EXCEPT ![pr[1]] = pr[2]],
                                !.gated = @ \ {pr},
                                !.bases = @ \cup {Range([env.prod EXCEPT ![pr[1]] = pr[2]])}]
    BY <1>10 DEF MergePr, Live, Step
  <2>2. pr[1] \in Services /\ pr[2] \in Digests /\ Backed(pr[2])
    BY <1>0, <1>b DEF PromotionInv, ProdBacked
  <2>3. PICK prod \in [Services -> Digests] : /\ prod = [env.prod EXCEPT ![pr[1]] = pr[2]]
                                            /\ \A s \in Services : prod[s] = env.prod[s] \/ prod[s] = pr[2]
    <3>1. /\ [env.prod EXCEPT ![pr[1]] = pr[2]] \in [Services -> Digests]
          /\ \A s \in Services : \/ [env.prod EXCEPT ![pr[1]] = pr[2]][s] = env.prod[s]
                                \/ [env.prod EXCEPT ![pr[1]] = pr[2]][s] = pr[2]
      BY <2>2, <1>b
    <3> QED
      BY <3>1
  <2>4. \A s \in Services : Backed(prod[s])
    BY <1>0, <2>2, <2>3 DEF PromotionInv, ProdBacked
  <2>5. Range(prod) \in SUBSET Digests /\ \A d \in Range(prod) : Backed(d)
    BY <2>3, <2>4 DEF Range
  <2>6. PICK bases \in SUBSET (SUBSET Digests) : bases = env.bases \cup {Range(prod)}
    BY <2>5, <1>b
  <2>7. PICK gated \in SUBSET (Services \X Digests) : gated = env.gated \ {pr}
    BY <1>b
  <2>8. env' = [env EXCEPT !.prod = prod, !.gated = gated, !.bases = bases]
    BY <2>1, <2>3, <2>6, <2>7
  <2>9. /\ env' \in PromotionEnv /\ env'.ledger = env.ledger /\ env'.prod = prod
        /\ env'.bases = bases /\ env'.gated = gated /\ env'.broken = env.broken
    BY <2>8, <1>a DEF PromotionEnv
  <2>10. \A x : Backed(x) => Backed(x)'
    BY <2>9 DEF Backed, IsVerified
  <2>11. /\ \A base \in bases : \A d \in base : Backed(d)
         /\ \A other \in gated : Backed(other[2])
    BY <1>0, <2>5, <2>6, <2>7 DEF PromotionInv, ProdBacked
  <2>12. ProdBacked'
    BY <2>4, <2>9, <2>10, <2>11 DEF ProdBacked
  <2>13. EvidenceHolds' /\ ProbeTracks'
    BY <1>0, <2>1, <2>9 DEF PromotionInv, EvidenceHolds, ProbeTracks, IsVerified, CheckTiers
  <2> QED
    BY <1>a, <1>d, <2>1, <2>9, <2>12, <2>13 DEF PromotionInv, PromotionTypes, LagJudged
<1>11. CASE LagCheck
  <2>1. PICK latest \in [{s \in Services : VerifiedDigests(s) # {}} -> NewDigests] :
          /\ \A s \in DOMAIN latest : latest[s] \in Latest(s)
          /\ env' = env /\ job.pc = "idle"
          /\ job' = Ends(job, IF \E s \in DOMAIN latest : Lags(s, latest[s]) THEN "lag" ELSE "clean")
    BY <1>11 DEF LagCheck, Step, At
  <2>2. PICK v \in {"lag", "clean"} :
          v = IF \E s \in DOMAIN latest : Lags(s, latest[s]) THEN "lag" ELSE "clean"
    OBVIOUS
  <2>3. job' = [job EXCEPT !.pc = "done", !.verdict = v]
    BY <2>1, <2>2 DEF Ends
  <2>4. job' \in PromotionJob /\ job'.pc = "done" /\ job'.verdict = v
    BY <2>3, <1>a DEF PromotionJob
  <2>5. ASSUME v = "clean", NEW s \in Services, NEW d \in VerifiedDigests(s)
        PROVE  \E n \in VerifiedDigests(s) :
                 env.ledger[s][n].day >= env.ledger[s][d].day /\ ~ Lags(s, n)
    <3>1. s \in DOMAIN latest
      BY <2>1, <2>5
    <3>2. latest[s] \in Latest(s) /\ ~ Lags(s, latest[s])
      BY <2>1, <2>2, <2>5, <3>1
    <3>3. latest[s] \in VerifiedDigests(s) /\ env.ledger[s][d].day <= env.ledger[s][latest[s]].day
      BY <2>5, <3>2 DEF Latest
    <3>4. env.ledger[s][d].day \in Nat /\ env.ledger[s][latest[s]].day \in Nat
      BY <2>5, <3>3, VerifiedDay
    <3> QED
      BY <3>2, <3>3, <3>4
  <2>6. LagJudged'
    <3>1. \A s : VerifiedDigests(s)' = VerifiedDigests(s)
      BY <2>1 DEF VerifiedDigests, CheckEvidence, CheckTiers
    <3>2. \A s, d : Lags(s, d)' <=> Lags(s, d)
      BY <2>1 DEF Lags
    <3> SUFFICES ASSUME v = "clean", NEW s \in Services, NEW d \in VerifiedDigests(s)
                 PROVE  \E n \in VerifiedDigests(s) :
                          env.ledger[s][n].day >= env.ledger[s][d].day /\ ~ Lags(s, n)
      BY <2>1, <2>4, <3>1, <3>2 DEF LagJudged
    <3> QED
      BY <2>5
  <2>7. EvidenceHolds' /\ ProdBacked' /\ ProbeTracks'
    BY <1>0, <2>1, <2>4 DEF PromotionInv, EvidenceHolds, ProdBacked, Backed, ProbeTracks, IsVerified,
       CheckTiers
  <2> QED
    BY <1>a, <2>1, <2>4, <2>6, <2>7 DEF PromotionInv, PromotionTypes
<1> QED
  BY <1>1, <1>2, <1>3, <1>4, <1>5, <1>6, <1>7, <1>8, <1>9, <1>10, <1>11 DEF PromotionNext

\* The invariant gives what holds of prod and of a clean lag check.
LEMMA PromotionSafe == PromotionInv => PromotedHasEvidence
<1> SUFFICES ASSUME PromotionInv PROVE PromotedHasEvidence
  OBVIOUS
<1>1. ASSUME NEW s \in Services, env.prod[s] \in NewDigests
      PROVE  \E e \in Services :
               LET entry == env.ledger[e][env.prod[s]]
               IN  /\ entry.state = "verified" /\ CheckTiers(e, entry.zanzibar)
                   /\ entry.exact => env.prod[s] \notin env.broken
  <2>1. PICK e \in Services : IsVerified(e, env.prod[s])
    BY <1>1 DEF PromotionInv, ProdBacked, Backed
  <2> QED
    BY <1>1, <2>1 DEF PromotionInv, EvidenceHolds, IsVerified
<1> QED
  BY <1>1 DEF PromotionInv, LagJudged, PromotedHasEvidence

-----------------------------------------------------------------------------
(* The lanes together.  The invariant of a lane is about its own job and the
   system it calls; a step of another lane never begins in this one. *)

(* BridgeInv is about env and job only. *)
LEMMA BridgeStutter == BridgeInv /\ UNCHANGED jobVars => BridgeInv'
BY DEF BridgeTypes, HookInHand, IssuesFollow, AckedOnRecord, CounterIsTail, SmsSpaced,
       BridgeInv, jobVars

(* PollerInv is about env and job only. *)
LEMMA PollerStutter == PollerInv /\ UNCHANGED jobVars => PollerInv'
BY DEF Oldest, PollerTypes, Logged, BehindHighWater, CycleCovers, CaughtDecided, PollerInv,
       jobVars

(* SlaInv is about env and job only. *)
LEMMA SlaStutter == SlaInv /\ UNCHANGED jobVars => SlaInv'
BY DEF Age, ReachedProd, SlaTypes, RunsSound, ScanTracks, Settled, ScanComplete, JudgedSees,
       SlaInv, jobVars

(* CeremonyInv is about env and job only. *)
LEMMA CeremonyStutter == CeremonyInv /\ UNCHANGED jobVars => CeremonyInv'
<1> SUFFICES ASSUME CeremonyInv, UNCHANGED jobVars PROVE CeremonyInv'
  OBVIOUS
<1>a. env' = env /\ job' = job
  BY DEF jobVars
<1>b. ScriptOf(job.pc)' = ScriptOf(job.pc)
  BY <1>a DEF ScriptOf, PREFLIGHT, Promoting
<1>1. CeremonyTypes' /\ CeremonyTracks'
  BY <1>a DEF CeremonyInv, CeremonyTypes, CeremonyTracks
<1>2. CASE ~ env.calm
  BY <1>a, <1>1, <1>2 DEF CeremonyInv, CalmTracks
<1>3. CASE env.calm
  <2>1. env.stray = NoScript /\ ScriptTracks /\ HostTracks
    BY <1>3 DEF CeremonyInv, CalmTracks
  <2>2. ScriptTracks'
    BY <2>1, <1>a, <1>b DEF ScriptTracks
  <2>3. Untouched' /\ StaysFenced' /\ Activates'
    BY <2>1, <1>a DEF HostTracks, Untouched, StaysFenced, Activates, Taken
  <2>4. Permits' /\ Readies' /\ Fences'
    BY <2>1, <1>a DEF HostTracks, Permits, Readies, Fences, Taken
  <2>5. Reports'
    BY <2>1, <1>a DEF HostTracks, Reports, RunsSource
  <2> QED
    BY <2>1, <2>2, <2>3, <2>4, <2>5, <1>a, <1>1 DEF CeremonyInv, CalmTracks, HostTracks
<1> QED
  BY <1>2, <1>3

(* ReconcileInv is about env and job only. *)
LEMMA ReconcileStutter == ReconcileInv /\ UNCHANGED jobVars => ReconcileInv'
BY DEF Table, ReconcileTypes, VerdictsCover, SameRows, Counted, LookedUp, Summed,
       LimitedTracks, FullScope, ReconcileInv, jobVars

(* TransitInv is about env and job only. *)
LEMMA TransitStutter == TransitInv /\ UNCHANGED jobVars => TransitInv'
BY DEF TransitTypes, KeyHolds, Prepared, KeysRead, Receipted, TransitInv, jobVars

(* PromotionInv is about env and job only. *)
LEMMA PromotionStutter == PromotionInv /\ UNCHANGED jobVars => PromotionInv'
BY DEF CheckEvidence, VerifiedDigests, Lags, PromotionTypes, IsVerified, EvidenceHolds,
       ProbeTracks, Backed, ProdBacked, LagJudged, PromotionInv, jobVars

OperationsInv ==
  /\ lane = "bridge" => BridgeInv
  /\ lane = "poller" => PollerInv
  /\ lane = "sla" => SlaInv
  /\ lane = "ceremony" => CeremonyInv
  /\ lane = "reconcile" => ReconcileInv
  /\ lane = "transit" => TransitInv
  /\ lane = "promotion" => PromotionInv

(* What each service and gate remembers is so in every state. *)
THEOREM OperationsInvariant == JobsSpec => []OperationsInv
<1>1. JobsInit => OperationsInv
  BY BridgeStart, PollerStart, SlaStart, CeremonyStart, ReconcileStart, TransitStart,
     PromotionStart
     DEF JobsInit, OperationsInv, E2eInit, ExpiryInit, RealtimeInit, IngestInit,
         RolloutInit, MasqInit, ControlsInit, MtlsInit, BridgeInit, PollerInit, SlaInit,
         CeremonyInit, ReconcileInit, TransitInit, PromotionInit
<1>2. OperationsInv /\ [JobsNext]_jobVars => OperationsInv'
  <2> SUFFICES ASSUME OperationsInv, [JobsNext]_jobVars PROVE OperationsInv'
    OBVIOUS
  <2>1. lane' = lane
    BY LaneStays
  <2>2. (lane = "bridge" => BridgeInv)'
    <3> SUFFICES ASSUME lane = "bridge" PROVE BridgeInv'
      BY <2>1
    <3>1. BridgeInv
      BY DEF OperationsInv
    <3>2. BridgeNext \/ UNCHANGED jobVars
      BY DEF JobsNext
    <3> QED
      BY <3>1, <3>2, BridgeStep, BridgeStutter
  <2>3. (lane = "poller" => PollerInv)'
    <3> SUFFICES ASSUME lane = "poller" PROVE PollerInv'
      BY <2>1
    <3>1. PollerInv
      BY DEF OperationsInv
    <3>2. PollerNext \/ UNCHANGED jobVars
      BY DEF JobsNext
    <3> QED
      BY <3>1, <3>2, PollerStep, PollerStutter
  <2>4. (lane = "sla" => SlaInv)'
    <3> SUFFICES ASSUME lane = "sla" PROVE SlaInv'
      BY <2>1
    <3>1. SlaInv
      BY DEF OperationsInv
    <3>2. SlaNext \/ UNCHANGED jobVars
      BY DEF JobsNext
    <3> QED
      BY <3>1, <3>2, SlaStep, SlaStutter
  <2>5. (lane = "ceremony" => CeremonyInv)'
    <3> SUFFICES ASSUME lane = "ceremony" PROVE CeremonyInv'
      BY <2>1
    <3>1. CeremonyInv
      BY DEF OperationsInv
    <3>2. CeremonyNext \/ UNCHANGED jobVars
      BY DEF JobsNext
    <3> QED
      BY <3>1, <3>2, CeremonyStep, CeremonyStutter
  <2>6. (lane = "reconcile" => ReconcileInv)'
    <3> SUFFICES ASSUME lane = "reconcile" PROVE ReconcileInv'
      BY <2>1
    <3>1. ReconcileInv
      BY DEF OperationsInv
    <3>2. ReconcileNext \/ UNCHANGED jobVars
      BY DEF JobsNext
    <3> QED
      BY <3>1, <3>2, ReconcileStep, ReconcileStutter
  <2>7. (lane = "transit" => TransitInv)'
    <3> SUFFICES ASSUME lane = "transit" PROVE TransitInv'
      BY <2>1
    <3>1. TransitInv
      BY DEF OperationsInv
    <3>2. TransitNext \/ UNCHANGED jobVars
      BY DEF JobsNext
    <3> QED
      BY <3>1, <3>2, TransitStep, TransitStutter
  <2>8. (lane = "promotion" => PromotionInv)'
    <3> SUFFICES ASSUME lane = "promotion" PROVE PromotionInv'
      BY <2>1
    <3>1. PromotionInv
      BY DEF OperationsInv
    <3>2. PromotionNext \/ UNCHANGED jobVars
      BY DEF JobsNext
    <3> QED
      BY <3>1, <3>2, PromotionStep, PromotionStutter
  <2> QED
    BY <2>2, <2>3, <2>4, <2>5, <2>6, <2>7, <2>8 DEF OperationsInv
<1> QED
  BY <1>1, <1>2, PTL DEF JobsSpec

(* An alert that was answered is on an issue or in the undelivered log, and the
   title has one open issue while every call is answered truthfully, for any
   number of webhooks, restarts and failures. *)
THEOREM AlertsAreOnRecord == JobsSpec => []AlertOnRecord
<1>1. OperationsInv => AlertOnRecord
  BY BridgeSafe DEF OperationsInv, AlertOnRecord
<1> QED
  BY <1>1, OperationsInvariant, PTL

(* No more than SmsCap groups are paged by SMS within an hour of one another,
   whatever the cap and the length of the hour. *)
THEOREM SmsCapAlwaysHolds == JobsSpec => []SmsCapHolds
<1>1. OperationsInv => SmsCapHolds
  BY BridgeSafe DEF OperationsInv, SmsCapHolds
<1> QED
  BY <1>1, OperationsInvariant, PTL

(* While the poller is ready every failed request its last good cycle could see
   is decided, for any overlap, page cap, delivery age and staleness limit. *)
THEOREM ReadyPollerIsCaughtUp == JobsSpec => []ReadyMeansCaughtUp
<1>1. OperationsInv => ReadyMeansCaughtUp
  BY PollerSafe DEF OperationsInv, ReadyMeansCaughtUp
<1> QED
  BY <1>1, OperationsInvariant, PTL

(* A scan that exits 0 left no overdue fix unseen, for any set of fixes and any
   warning, critical and window hours. *)
THEOREM CleanScansSeeOverdue == JobsSpec => []CleanScanSeesOverdue
<1>1. OperationsInv => CleanScanSeesOverdue
  BY SlaSafe DEF OperationsInv, CleanScanSeesOverdue
<1> QED
  BY <1>1, OperationsInvariant, PTL

(* The report of a ceremony says what became of the host, wherever and however
   often a call failed, unless a script outlived its call. *)
THEOREM CeremonyReportsAreTrue == JobsSpec => []CeremonyReportIsTrue
<1>1. OperationsInv => CeremonyReportIsTrue
  BY CeremonySafe DEF OperationsInv, CeremonyReportIsTrue
<1> QED
  BY <1>1, OperationsInvariant, PTL

(* A table that matches in limited scope had the content read from the source in
   every expected row, and a matching report covers the manifest, for any
   tables, keys, sample size and row limit. *)
THEOREM MatchesMeanSameRows == JobsSpec => []MatchMeansSameRows
<1>1. OperationsInv => MatchMeansSameRows
  BY ReconcileSafe DEF OperationsInv, MatchMeansSameRows
<1> QED
  BY <1>1, OperationsInvariant, PTL

(* What a receipt of the transit bootstrap says was so when it was read, for any
   number of runs, lost answers and changes by another root holder. *)
THEOREM ReceiptsAreWhatWasRead == JobsSpec => []ReceiptIsWhatWasRead
<1>1. OperationsInv => ReceiptIsWhatWasRead
  BY TransitSafe DEF OperationsInv, ReceiptIsWhatWasRead
<1> QED
  BY <1>1, OperationsInvariant, PTL

(* A digest that reached prod has evidence that passes the policy, for any lag
   window and any number of moves of main, smoke runs and pull requests. *)
THEOREM PromotionsHaveEvidence == JobsSpec => []PromotedHasEvidence
<1>1. OperationsInv => PromotedHasEvidence
  BY PromotionSafe DEF OperationsInv, PromotedHasEvidence
<1> QED
  BY <1>1, OperationsInvariant, PTL

=============================================================================
