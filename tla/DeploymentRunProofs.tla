------------------------- MODULE DeploymentRunProofs -------------------------
(***************************************************************************)
(* How the run of a stage comes to be, for every value of the constants:   *)
(* the dispatch that starts it once, then the reviews under which it       *)
(* passes the gate.  The two specifications are proved one after the       *)
(* other; they share no variable.                                          *)
(***************************************************************************)
EXTENDS EvidenceGate, DispatchOutbox, FiniteSetTheorems, TLAPS

(***************************************************************************)
(* OnePostAboveWatermark for any number of jobs and CLI processes and any  *)
(* windows.                                                                *)
(*                                                                         *)
(* The claim is what makes the rest inductive: only a Pending row can be   *)
(* claimed, no row becomes Pending again, so at most one process is ever   *)
(* past the claim of a job, and until it sends its POST nothing of that    *)
(* job is on its way.  The watermark it records is a run that existed      *)
(* before, or 0; GitHub only adds runs after those.                        *)
(***************************************************************************)
Labels == {"idle", "queued", "claimed", "snapshotted", "ready", "posted",
           "reconciling", "fetched"}
Dispatching == {"claimed", "snapshotted", "ready", "posted"}
BeforePost == {"claimed", "snapshotted", "ready"}
Unclaimed == {"Absent", "Pending"}

OutboxTypes ==
  /\ dstate \in [Jobs -> {"Absent", "Pending", "Sending", "Uncertain",
                          "Rejected", "Accepted"}]
  /\ watermark \in [Jobs -> Nat \cup {NoValue}]
  /\ runs \in Seq([job : Jobs, created : Int, own : BOOLEAN])
  /\ inflight \subseteq Jobs
  /\ pc \in [Workers -> Labels]
  /\ job \in [Workers -> Jobs \cup {NoValue}]
  /\ result \in [Workers -> PostResults \cup {NoValue}]
  /\ found \in [Workers -> SUBSET Nat]
  /\ posts \in [Jobs -> Nat]
  /\ now \in Int

\* One claim per job: a process past it works on a claimed row, alone.
OneClaim ==
  /\ \A w \in Workers : pc[w] # "idle" => job[w] \in Jobs
  /\ \A w \in Workers : pc[w] \in Dispatching => dstate[job[w]] \notin Unclaimed
  /\ \A v, w \in Workers :
       pc[v] \in Dispatching /\ pc[w] \in Dispatching /\ job[v] = job[w] => v = w

\* Nothing was posted for a job that is unclaimed, or whose process is still
\* on its way to the POST.
NotYetPosted ==
  /\ \A j \in Jobs : dstate[j] \in Unclaimed => posts[j] = 0
  /\ \A w \in Workers : pc[w] \in BeforePost => posts[job[w]] = 0
  /\ \A j \in Jobs : j \in inflight => posts[j] > 0

\* The watermark stands before the POST, and never above the runs there are.
WatermarkStands ==
  /\ \A w \in Workers : pc[w] = "ready" => watermark[job[w]] # NoValue
  /\ \A w \in Workers : pc[w] = "snapshotted" => found[w] \subseteq 1..Len(runs)
  /\ \A j \in Jobs : watermark[j] # NoValue => watermark[j] <= Len(runs)

OutboxInv ==
  /\ OutboxTypes /\ OneClaim /\ NotYetPosted /\ WatermarkStands
  /\ OnePostAboveWatermark

-----------------------------------------------------------------------------
\* A nonempty set of naturals has a least element.
LEMMA NatLeast ==
  ASSUME NEW S, S \subseteq Nat, S # {}
  PROVE  \E x \in S : \A y \in S : x <= y
<1>1. PICK x \in S : \A y \in S : ~(<<y, x>> \in OpToRel(<, Nat))
  BY NatLessThanWellFounded, WFMin
<1>2. \A y \in S : ~(y < x)
  BY <1>1 DEF OpToRel
<1> QED
  BY <1>2

\* HighestOf, the max() of the snapshot, is one of the runs there were, or 0.
LEMMA HighestBounded ==
  ASSUME NEW n \in Nat, NEW ids, ids \subseteq 1..n
  PROVE  HighestOf(ids) \in 0..n
<1>1. CASE ids = {}
  BY <1>1 DEF HighestOf
<1>2. CASE ids # {}
  <2> DEFINE gaps == {n - i : i \in ids}
  <2>0. \A i \in ids : i \in Int /\ 1 <= i /\ i <= n
    OBVIOUS
  <2>1. gaps \subseteq Nat /\ gaps # {}
    <3>1. \A i \in ids : n - i \in Nat
      BY <2>0
    <3> QED
      BY <3>1, <1>2
  <2> HIDE DEF gaps
  <2>2. PICK x \in gaps : \A y \in gaps : x <= y
    BY <2>1, NatLeast
  <2>3. PICK i \in ids : x = n - i
    BY <2>2 DEF gaps
  <2>4. \A k \in ids : k <= i
    <3> TAKE k \in ids
    <3>1. n - k \in gaps
      BY DEF gaps
    <3>2. n - i <= n - k
      BY <3>1, <2>2, <2>3
    <3> QED
      BY <3>2, <2>0
  <2>5. HighestOf(ids) \in ids
    BY <1>2, <2>4 DEF HighestOf
  <2>6. \A k \in ids : k \in 0..n
    BY <2>0
  <2> QED
    BY <2>5, <2>6
<1> QED
  BY <1>1, <1>2

-----------------------------------------------------------------------------
LEMMA OutboxInitInv == OutboxInit => OutboxInv
  BY DEF OutboxInit, OutboxInv, OutboxTypes, OneClaim, NotYetPosted, WatermarkStands,
         OnePostAboveWatermark, Labels, Dispatching, BeforePost, Unclaimed

\* A process that ends its work.
Frees(w) ==
  /\ pc' = [pc EXCEPT ![w] = "idle"]
  /\ found' = [found EXCEPT ![w] = {}]
  /\ UNCHANGED <<watermark, runs, inflight, job, result, posts, now>>

\* Rows change from claimed to claimed only.
ClaimsStay ==
  /\ dstate' \in [Jobs -> {"Absent", "Pending", "Sending", "Uncertain",
                           "Rejected", "Accepted"}]
  /\ \A j \in Jobs : \/ dstate'[j] = dstate[j]
                     \/ dstate[j] \notin Unclaimed /\ dstate'[j] \notin Unclaimed

\* A process at its end breaks nothing, whatever it does to its row, as long as
\* the row stays claimed.
LEMMA FreesKeepsInv ==
  ASSUME OutboxInv, NEW w \in Workers, Frees(w), ClaimsStay
  PROVE  OutboxInv'
<1> USE DEF OutboxInv, ClaimsStay
<1>1. OutboxTypes'
  BY DEF OutboxTypes, Frees, Labels
<1>2. OneClaim'
  BY DEF OutboxTypes, OneClaim, Frees, Labels, Dispatching
<1>3. NotYetPosted'
  BY DEF OutboxTypes, OneClaim, NotYetPosted, Frees, Labels, BeforePost, Dispatching
<1>4. WatermarkStands'
  BY DEF OutboxTypes, WatermarkStands, Frees, Labels
<1>5. OnePostAboveWatermark'
  BY DEF OnePostAboveWatermark, Frees
<1> QED
  BY <1>1, <1>2, <1>3, <1>4, <1>5

-----------------------------------------------------------------------------
\* The actions that leave the rows, the runs and the POSTs as they are and only
\* take a process from idle to queued or reconciling, or from there on.
LEMMA QueueKeepsInv ==
  ASSUME OutboxInv, NEW w \in Workers, NEW j \in Jobs, Queue(w, j)
  PROVE  OutboxInv'
<1> USE DEF OutboxInv
<1>1. CASE dstate'[j] = "Pending"
  <2>0. /\ pc' = [pc EXCEPT ![w] = "queued"] /\ job' = [job EXCEPT ![w] = j]
        /\ result' = [result EXCEPT ![w] = NoValue]
        /\ UNCHANGED <<now, watermark, runs, inflight, posts, found>>
        /\ pc[w] = "idle"
    BY <1>1 DEF Queue, githubVars
  <2>1. /\ dstate' \in [Jobs -> {"Absent", "Pending", "Sending", "Uncertain",
                                 "Rejected", "Accepted"}]
        /\ \A k \in Jobs : dstate'[k] = dstate[k] \/ k = j
        /\ dstate[j] \in Unclaimed
    BY <1>1 DEF Queue, OutboxTypes, Unclaimed
  <2>2. OutboxTypes'
    BY <2>0, <2>1 DEF OutboxTypes, Labels
  <2>3. OneClaim'
    BY <2>0, <2>1, <1>1 DEF OneClaim, OutboxTypes, Labels, Dispatching, Unclaimed
  <2>4. NotYetPosted'
    BY <2>0, <2>1, <1>1 DEF OneClaim, NotYetPosted, OutboxTypes, Labels, BeforePost
  <2>5. WatermarkStands'
    BY <2>0, <2>1 DEF WatermarkStands, OutboxTypes, Labels
  <2>6. OnePostAboveWatermark'
    BY <2>0 DEF OnePostAboveWatermark
  <2> QED
    BY <2>2, <2>3, <2>4, <2>5, <2>6
<1>2. CASE dstate'[j] # "Pending"
  <2>1. /\ pc' = [pc EXCEPT ![w] = "idle"] /\ found' = [found EXCEPT ![w] = {}]
        /\ job' = [job EXCEPT ![w] = j] /\ result' = [result EXCEPT ![w] = NoValue]
        /\ UNCHANGED <<now, watermark, runs, inflight, posts>>
        /\ pc[w] = "idle"
    BY <1>2 DEF Queue, Ends, githubVars
  <2>2. dstate' = dstate
    BY <1>2 DEF Queue, OutboxTypes
  <2>3. OutboxTypes'
    BY <2>1, <2>2 DEF OutboxTypes, Labels
  <2>4. OneClaim'
    BY <2>1, <2>2 DEF OneClaim, OutboxTypes, Labels, Dispatching
  <2>5. NotYetPosted'
    BY <2>1, <2>2 DEF OneClaim, NotYetPosted, OutboxTypes, Labels, BeforePost
  <2>6. WatermarkStands'
    BY <2>1, <2>2 DEF WatermarkStands, OutboxTypes, Labels
  <2>7. OnePostAboveWatermark'
    BY <2>1 DEF OnePostAboveWatermark
  <2> QED
    BY <2>3, <2>4, <2>5, <2>6, <2>7
<1> QED
  BY <1>1, <1>2

LEMMA ClaimKeepsInv ==
  ASSUME OutboxInv, NEW w \in Workers, Claim(w)
  PROVE  OutboxInv'
<1> USE DEF OutboxInv
<1>1. CASE dstate[job[w]] = "Pending"
  <2>0. /\ pc' = [pc EXCEPT ![w] = "claimed"] /\ pc[w] = "queued"
        /\ dstate' = [dstate EXCEPT ![job[w]] = "Sending"]
        /\ UNCHANGED <<now, watermark, runs, inflight, posts, found, job, result>>
    BY <1>1 DEF Claim, GoesTo, githubVars
  <2>1. job[w] \in Jobs
    BY <2>0 DEF OneClaim
  <2>2. OutboxTypes'
    BY <2>0, <2>1 DEF OutboxTypes, Labels
  <2>3. OneClaim'
    BY <2>0, <2>1, <1>1 DEF OneClaim, OutboxTypes, Labels, Dispatching, Unclaimed
  <2>4. NotYetPosted'
    BY <2>0, <2>1, <1>1 DEF OneClaim, NotYetPosted, OutboxTypes, Labels, BeforePost,
                            Unclaimed
  <2>5. WatermarkStands'
    BY <2>0 DEF WatermarkStands, OutboxTypes, Labels
  <2>6. OnePostAboveWatermark'
    BY <2>0 DEF OnePostAboveWatermark
  <2> QED
    BY <2>2, <2>3, <2>4, <2>5, <2>6
<1>2. CASE dstate[job[w]] # "Pending"
  <2>1. Frees(w) /\ ClaimsStay
    BY <1>2 DEF Claim, Ends, Frees, githubVars, ClaimsStay, OutboxTypes
  <2> QED
    BY <2>1, FreesKeepsInv
<1> QED
  BY <1>1, <1>2

LEMMA SnapshotKeepsInv ==
  ASSUME OutboxInv, NEW w \in Workers, Snapshot(w)
  PROVE  OutboxInv'
<1> USE DEF OutboxInv
<1>0. /\ pc' = [pc EXCEPT ![w] = "snapshotted"] /\ pc[w] = "claimed"
      /\ UNCHANGED <<now, dstate, watermark, runs, inflight, posts, job, result>>
  BY DEF Snapshot, githubVars, rowVars
<1>1. DOMAIN runs = 1..Len(runs) /\ Len(runs) \in Nat
  BY DEF OutboxTypes
<1>2. /\ found' \in [Workers -> SUBSET Nat]
      /\ found'[w] \subseteq 1..Len(runs)
      /\ \A v \in Workers : v # w => found'[v] = found[v]
  BY <1>1 DEF Snapshot, OutboxTypes
<1>3. OutboxTypes'
  BY <1>0, <1>2 DEF OutboxTypes, Labels
<1>4. OneClaim'
  BY <1>0 DEF OneClaim, OutboxTypes, Labels, Dispatching
<1>5. NotYetPosted'
  BY <1>0 DEF NotYetPosted, OutboxTypes, Labels, BeforePost
<1>6. WatermarkStands'
  BY <1>0, <1>2 DEF WatermarkStands, OutboxTypes, Labels
<1>7. OnePostAboveWatermark'
  BY <1>0 DEF OnePostAboveWatermark
<1> QED
  BY <1>3, <1>4, <1>5, <1>6, <1>7

\* The watermark moves only while nothing of the job is posted, so no run of its
\* own is there to fall below it.
LEMMA RecordWatermarkKeepsInv ==
  ASSUME OutboxInv, NEW w \in Workers, RecordWatermark(w)
  PROVE  OutboxInv'
<1> USE DEF OutboxInv
<1> DEFINE high == HighestOf(found[w])
           open == dstate[job[w]] = "Sending" /\ watermark[job[w]] \in {NoValue, high}
<1>1. pc[w] = "snapshotted" /\ job[w] \in Jobs
  BY DEF RecordWatermark, OneClaim
<1>2. high \in 0..Len(runs) /\ Len(runs) \in Nat
  <2>1. Len(runs) \in Nat /\ found[w] \subseteq 1..Len(runs)
    BY <1>1 DEF WatermarkStands, OutboxTypes
  <2> QED
    BY <2>1, HighestBounded
<1>3. CASE open
  <2> HIDE DEF high
  <2>0. /\ pc' = [pc EXCEPT ![w] = "ready"]
        /\ watermark' = [watermark EXCEPT ![job[w]] = high]
        /\ UNCHANGED <<now, dstate, runs, inflight, posts, found, job, result>>
    BY <1>3 DEF RecordWatermark, GoesTo, githubVars, high
  <2>1. high \in Nat /\ high # NoValue /\ high <= Len(runs)
    BY <1>2, OutboxAssumption DEF OutboxAssumption
  <2>2. OutboxTypes'
    BY <2>0, <2>1, <1>1 DEF OutboxTypes, Labels
  <2>3. OneClaim'
    BY <2>0, <1>1 DEF OneClaim, OutboxTypes, Labels, Dispatching
  <2>4. NotYetPosted'
    BY <2>0, <1>1 DEF NotYetPosted, OutboxTypes, Labels, BeforePost
  <2>5. WatermarkStands'
    BY <2>0, <2>1, <1>1 DEF WatermarkStands, OutboxTypes, Labels
  <2>6. posts[job[w]] = 0
    BY <1>1 DEF NotYetPosted, BeforePost
  <2>7. OnePostAboveWatermark'
    BY <2>0, <2>1, <2>6, <1>1 DEF OnePostAboveWatermark, OutboxTypes
  <2> QED
    BY <2>2, <2>3, <2>4, <2>5, <2>7
<1>4. CASE ~open
  <2>1. Frees(w) /\ ClaimsStay
    BY <1>4 DEF RecordWatermark, Ends, Frees, githubVars, ClaimsStay, OutboxTypes
  <2> QED
    BY <2>1, FreesKeepsInv
<1> QED
  BY <1>3, <1>4

\* The one process past the claim spends it: from now on posts is 1 and the
\* process is no longer on its way to a POST.
LEMMA PostKeepsInv ==
  ASSUME OutboxInv, NEW w \in Workers, Post(w)
  PROVE  OutboxInv'
<1> USE DEF OutboxInv
<1>1. pc[w] = "ready" /\ job[w] \in Jobs /\ posts[job[w]] = 0
  BY DEF Post, OneClaim, NotYetPosted, BeforePost
<1>2. /\ pc' = [pc EXCEPT ![w] = "posted"]
      /\ posts' = [posts EXCEPT ![job[w]] = 1]
      /\ UNCHANGED <<now, dstate, watermark, runs, found, job>>
      /\ inflight' = inflight \/ inflight' = inflight \cup {job[w]}
      /\ result' \in [Workers -> PostResults \cup {NoValue}]
  BY <1>1 DEF Post, GoesTo, rowVars, OutboxTypes, PostResults
<1>3. OutboxTypes'
  BY <1>1, <1>2 DEF OutboxTypes, Labels
<1>4. OneClaim'
  BY <1>1, <1>2 DEF OneClaim, OutboxTypes, Labels, Dispatching
<1>5. NotYetPosted'
  BY <1>1, <1>2 DEF OneClaim, NotYetPosted, OutboxTypes, Labels, BeforePost,
                    Dispatching, Unclaimed
<1>6. WatermarkStands'
  BY <1>1, <1>2 DEF WatermarkStands, OutboxTypes, Labels
<1>7. watermark[job[w]] # NoValue
  BY <1>1 DEF WatermarkStands
<1>8. OnePostAboveWatermark'
  BY <1>1, <1>2, <1>7 DEF OnePostAboveWatermark, OutboxTypes
<1> QED
  BY <1>3, <1>4, <1>5, <1>6, <1>8

\* A process that only reads: it leaves rows, runs and POSTs alone and is not
\* past a claim before or after.
LEMMA ReadsKeepsInv ==
  ASSUME OutboxInv, NEW w \in Workers, NEW l \in {"reconciling", "fetched"}, NEW j \in Jobs,
         pc[w] \notin Dispatching,
         pc' = [pc EXCEPT ![w] = l], job' = [job EXCEPT ![w] = j],
         result' \in [Workers -> PostResults \cup {NoValue}],
         found' \in [Workers -> SUBSET Nat],
         \A v \in Workers : v # w => found'[v] = found[v],
         UNCHANGED <<now, dstate, watermark, runs, inflight, posts>>
  PROVE  OutboxInv'
<1> USE DEF OutboxInv
<1>1. OutboxTypes'
  BY DEF OutboxTypes, Labels
<1>2. OneClaim'
  BY DEF OneClaim, OutboxTypes, Labels, Dispatching
<1>3. NotYetPosted'
  BY DEF NotYetPosted, OutboxTypes, Labels, BeforePost
<1>4. WatermarkStands'
  BY DEF WatermarkStands, OutboxTypes, Labels
<1>5. OnePostAboveWatermark'
  BY DEF OnePostAboveWatermark
<1> QED
  BY <1>1, <1>2, <1>3, <1>4, <1>5

\* GitHub adds a run: its ID lies above every watermark recorded so far.
LEMMA CreateKeepsInv ==
  ASSUME OutboxInv, NEW j \in Jobs, NEW o \in BOOLEAN, o => posts[j] > 0,
         runs' = Append(runs, [job |-> j, created |-> now, own |-> o]),
         inflight' \subseteq inflight,
         UNCHANGED <<now, dstate, watermark, posts, pc, job, result, found>>
  PROVE  OutboxInv'
<1> USE DEF OutboxInv
<1>1. /\ Len(runs) \in Nat /\ Len(runs') = Len(runs) + 1
      /\ DOMAIN runs' = 1..(Len(runs) + 1) /\ DOMAIN runs = 1..Len(runs)
      /\ \A i \in DOMAIN runs : runs'[i] = runs[i]
      /\ runs'[Len(runs) + 1] = [job |-> j, created |-> now, own |-> o]
  BY DEF OutboxTypes
<1>2. OutboxTypes'
  <2>1. runs' \in Seq([job : Jobs, created : Int, own : BOOLEAN])
    BY DEF OutboxTypes
  <2> QED
    BY <2>1 DEF OutboxTypes
<1>3. OneClaim'
  BY DEF OneClaim
<1>4. NotYetPosted'
  BY DEF NotYetPosted, OutboxTypes
<1>5. WatermarkStands'
  BY <1>1 DEF WatermarkStands, OutboxTypes
<1>6. ASSUME NEW k \in Jobs
      PROVE  /\ posts[k] <= 1
             /\ posts[k] > 0 => watermark[k] # NoValue
             /\ \A i \in DOMAIN runs' : runs'[i].job = k /\ runs'[i].own =>
                  posts[k] > 0 /\ watermark[k] < i
  <2>1. ASSUME NEW i \in DOMAIN runs', runs'[i].job = k, runs'[i].own
        PROVE  posts[k] > 0 /\ watermark[k] < i
    <3>1. CASE i \in DOMAIN runs
      BY <2>1, <3>1, <1>1 DEF OnePostAboveWatermark
    <3>2. CASE i = Len(runs) + 1
      <4>1. k = j /\ posts[k] > 0
        BY <2>1, <3>2, <1>1
      <4>2. watermark[k] \in Nat /\ watermark[k] <= Len(runs)
        BY <4>1 DEF OnePostAboveWatermark, WatermarkStands, OutboxTypes
      <4> QED
        BY <4>1, <4>2, <3>2, <1>1
    <3> QED
      BY <3>1, <3>2, <1>1
  <2> QED
    BY <2>1 DEF OnePostAboveWatermark
<1>7. OnePostAboveWatermark'
  BY <1>6 DEF OnePostAboveWatermark
<1> QED
  BY <1>2, <1>3, <1>4, <1>5, <1>7

-----------------------------------------------------------------------------
\* Every step of a process, of GitHub and of the clock keeps the invariant.
LEMMA OutboxStep == OutboxInv /\ [OutboxNext]_outboxVars => OutboxInv'
<1> SUFFICES ASSUME OutboxInv, [OutboxNext]_outboxVars PROVE OutboxInv'
  OBVIOUS
<1> DEFINE Rows == {"Absent", "Pending", "Sending", "Uncertain", "Rejected", "Accepted"}
<1>0. /\ dstate \in [Jobs -> Rows] /\ pc \in [Workers -> Labels]
      /\ \A w \in Workers : pc[w] # "idle" => job[w] \in Jobs
  BY DEF OutboxInv, OutboxTypes, OneClaim
<1>1. CASE OutboxTick
  BY <1>1 DEF OutboxTick, rowVars, githubVars, OutboxInv, OutboxTypes, OneClaim,
              NotYetPosted, WatermarkStands, OnePostAboveWatermark
<1>2. ASSUME NEW j \in Jobs, CreateRun(j) PROVE OutboxInv'
  <2>1. posts[j] > 0
    BY <1>2 DEF CreateRun, OutboxInv, NotYetPosted
  <2> QED
    BY <2>1, <1>2, CreateKeepsInv DEF CreateRun, rowVars
<1>3. ASSUME NEW j \in Jobs, CreateForeignRun(j) PROVE OutboxInv'
  BY <1>3, CreateKeepsInv DEF CreateForeignRun, rowVars
<1>4. ASSUME NEW w \in Workers, NEW j \in Jobs, Queue(w, j) PROVE OutboxInv'
  BY <1>4, QueueKeepsInv
<1>5. ASSUME NEW w \in Workers, NEW j \in Jobs, StartReconcile(w, j) PROVE OutboxInv'
  <2>1. /\ pc[w] \notin Dispatching
        /\ pc' = [pc EXCEPT ![w] = "reconciling"] /\ job' = [job EXCEPT ![w] = j]
        /\ result' \in [Workers -> PostResults \cup {NoValue}]
        /\ found' \in [Workers -> SUBSET Nat]
        /\ \A v \in Workers : v # w => found'[v] = found[v]
        /\ UNCHANGED <<now, dstate, watermark, runs, inflight, posts>>
    BY <1>5 DEF StartReconcile, Dispatching, rowVars, githubVars, OutboxInv, OutboxTypes
  <2> QED
    BY <2>1, ReadsKeepsInv
<1>6. ASSUME NEW w \in Workers, Claim(w) PROVE OutboxInv'
  BY <1>6, ClaimKeepsInv
<1>7. ASSUME NEW w \in Workers, Snapshot(w) PROVE OutboxInv'
  BY <1>7, SnapshotKeepsInv
<1>8. ASSUME NEW w \in Workers, RecordWatermark(w) PROVE OutboxInv'
  BY <1>8, RecordWatermarkKeepsInv
<1>9. ASSUME NEW w \in Workers, Post(w) PROVE OutboxInv'
  BY <1>9, PostKeepsInv
<1>10. ASSUME NEW w \in Workers, MarkPosted(w) PROVE OutboxInv'
  <2>1. Frees(w) /\ ClaimsStay
    BY <1>10, <1>0 DEF MarkPosted, Ends, Frees, ClaimsStay, githubVars
  <2> QED
    BY <2>1, FreesKeepsInv
<1>11. ASSUME NEW w \in Workers, ResolvePost(w) PROVE OutboxInv'
  <2>1. Frees(w)
    BY <1>11 DEF ResolvePost, Resolve, Ends, Frees, githubVars
  <2>2. \/ UNCHANGED dstate
        \/ /\ dstate[job[w]] = "Sending"
           /\ \E s \in {"Uncertain", "Rejected"} : dstate' = [dstate EXCEPT ![job[w]] = s]
    BY <1>11 DEF ResolvePost, Resolve, Unaccepted
  <2>3. ClaimsStay
    BY <2>2, <1>0 DEF ClaimsStay, Unclaimed
  <2> QED
    BY <2>1, <2>3, FreesKeepsInv
<1>12. ASSUME NEW w \in Workers, FetchRuns(w) PROVE OutboxInv'
  <2>1. /\ pc[w] \notin Dispatching /\ job[w] \in Jobs
        /\ pc' = [pc EXCEPT ![w] = "fetched"] /\ job' = [job EXCEPT ![w] = job[w]]
        /\ result' \in [Workers -> PostResults \cup {NoValue}]
        /\ \A v \in Workers : v # w => found'[v] = found[v]
        /\ UNCHANGED <<now, dstate, watermark, runs, inflight, posts>>
    BY <1>12, <1>0 DEF FetchRuns, Dispatching, rowVars, githubVars, OutboxInv, OutboxTypes
  <2>2. found' \in [Workers -> SUBSET Nat]
    <3>1. {i \in DOMAIN runs : Matching(job[w], i)} \in SUBSET Nat
      BY DEF OutboxInv, OutboxTypes
    <3> QED
      BY <3>1, <1>12 DEF FetchRuns, OutboxInv, OutboxTypes
  <2> QED
    BY <2>1, <2>2, ReadsKeepsInv
<1>13. ASSUME NEW w \in Workers, GiveUp(w) PROVE OutboxInv'
  <2>1. Frees(w)
    BY <1>13 DEF GiveUp, Ends, Frees, githubVars
  <2>2. \/ UNCHANGED dstate
        \/ /\ dstate[job[w]] = "Sending"
           /\ dstate' = [dstate EXCEPT ![job[w]] = "Uncertain"]
    BY <1>13 DEF GiveUp, Resolve
  <2>3. ClaimsStay
    BY <2>2, <1>0 DEF ClaimsStay, Unclaimed
  <2> QED
    BY <2>1, <2>3, FreesKeepsInv
<1>14. ASSUME NEW w \in Workers, AcceptRun(w) PROVE OutboxInv'
  <2>1. Frees(w)
    BY <1>14 DEF AcceptRun, Ends, Frees, githubVars
  <2>2. \/ UNCHANGED dstate
        \/ /\ dstate[job[w]] \in {"Sending", "Uncertain"}
           /\ dstate' = [dstate EXCEPT ![job[w]] = "Accepted"]
    BY <1>14 DEF AcceptRun, Reconcilable
  <2>3. ClaimsStay
    BY <2>2, <1>0 DEF ClaimsStay, Unclaimed
  <2> QED
    BY <2>1, <2>3, FreesKeepsInv
<1>15. ASSUME NEW w \in Workers, Abort(w) PROVE OutboxInv'
  <2>1. Frees(w) /\ ClaimsStay
    BY <1>15, <1>0 DEF Abort, Ends, Frees, ClaimsStay, rowVars, githubVars
  <2> QED
    BY <2>1, FreesKeepsInv
<1>16. CASE UNCHANGED outboxVars
  BY <1>16 DEF outboxVars, rowVars, githubVars, OutboxInv, OutboxTypes, OneClaim,
               NotYetPosted, WatermarkStands, OnePostAboveWatermark
<1> QED
  BY <1>1, <1>2, <1>3, <1>4, <1>5, <1>6, <1>7, <1>8, <1>9, <1>10, <1>11, <1>12, <1>13,
     <1>14, <1>15, <1>16 DEF OutboxNext

\* dispatcher.py: for any number of jobs and CLI processes, dying anywhere, with
\* any windows and foreign runs, the invariant of the outbox holds.
THEOREM OutboxInvariant == OutboxSpec => []OutboxInv
<1>1. OutboxInv /\ [OutboxNext]_outboxVars => OutboxInv'
  BY OutboxStep
<1> QED
  BY OutboxInitInv, <1>1, PTL DEF OutboxSpec

\* dispatch_stage and mark_dispatch_posted: at most one POST per job, after a
\* durable watermark that lies below every run the POST creates.
THEOREM OnePostPerJob == OutboxSpec => []OnePostAboveWatermark
<1>1. OutboxInv => OnePostAboveWatermark
  BY DEF OutboxInv
<1> QED
  BY <1>1, OutboxInvariant, PTL

-----------------------------------------------------------------------------
(***************************************************************************)
(* The gate for any families, findings, keys, reviews and lifetimes.       *)
(*                                                                         *)
(* A bundle is finalized once, from reviews whose digests grow with the    *)
(* order of issue.  A closure root names only reviews older than the one   *)
(* that carries it, and a chain grows only at its tip, so that its later   *)
(* rounds are its later reviews: with these two facts verify_bundle's      *)
(* checks give AgreedKnowingTheAnswers.  What a runner acts on is what     *)
(* authorize read, at the moment it verified the bundle with the service's *)
(* list.                                                                   *)
(***************************************************************************)
ClosureEntries == [finding : Findings, raisedBy : Nat, acknowledgedBy : Nat]
ReviewRows ==
  [digest : Nat, key : {x.family : x \in Executions}, family : {x.family : x \in Executions},
   route : {x.route : x \in Executions}, subject : {x.subject : x \in Executions},
   chain : Nat, round : Nat, previous : Nat, verdict : {x.verdict : x \in Executions},
   raised : SUBSET Findings, resolved : SUBSET Findings, acknowledged : SUBSET Findings,
   closureRoot : [subject : {Subject}, entries : SUBSET ClosureEntries],
   issuedAt : Nat, expiresAt : Nat]
\* The fields of a run.
RunShape ==
  run # Null =>
    run = [digest |-> 1, stage |-> run.stage, pc |-> run.pc, created |-> run.created,
           approved |-> run.approved, entries |-> run.entries, drift |-> run.drift]

\* The reviews so far: a digest is the position, a closure root names older
\* reviews only, and a chain's rounds follow the order of issue.
ReviewsInv ==
  /\ reviews \in Seq(ReviewRows)
  /\ \A i \in 1..Len(reviews) :
       /\ reviews[i].digest = i
       /\ reviews[i].chain <= i
       /\ \A e \in reviews[i].closureRoot.entries : e.acknowledgedBy < i
  /\ \A i, j \in 1..Len(reviews) :
       reviews[i].chain = reviews[j].chain /\ i < j => reviews[i].round < reviews[j].round

\* What AgreedKnowingTheAnswers says of the bundle.
FamiliesAgree(b) ==
  \A f \in Families :
    \E t \in b.reviews :
      /\ t.family = f /\ t.verdict = "AGREE" /\ t.subject = Subject
      /\ \A r \in b.reviews : r.family = f /\ r.chain = t.chain => r.digest <= t.digest
      /\ \A q \in b.reviews : q.acknowledged # {} => q.digest < t.digest

FindingsAnswered(b) ==
  \A r \in b.reviews, f \in Findings :
    f \in r.raised =>
      \E q \in b.reviews :
        f \in q.acknowledged /\ q.family = r.family /\ q.issuedAt > r.issuedAt

BundleInv == bundle # Null => FamiliesAgree(bundle) /\ FindingsAnswered(bundle)

\* Nothing runs, and nobody worked, without a bundle.
RunNeedsBundle ==
  /\ clock \in Nat
  /\ run # Null \/ worked # {} => bundle # Null

CleanFor(b, entries, changes) ==
  /\ \A e \in entries :
       <<e[1], e[2]>> \notin
         {<<"bundle", b.id>>, <<"subject", b.subject>>, <<"grant", b.grant.id>>,
          <<"runner-lease", b.lease.id>>, <<"key", b.key>>, <<"key", b.lease.key>>}
         \cup {<<"review", r.digest>> : r \in b.reviews}
         \cup {<<"key", r.key>> : r \in b.reviews}
  /\ changes \cap {"ref", "runners"} = {}

\* An answer on its way was clean when authorize gave it.
AnswersClean ==
  /\ run # Null /\ run.pc = "answered" => CleanFor(bundle, run.entries, run.drift)
  /\ \A w \in worked : CleanFor(bundle, w.entries, w.drift)

GateInv == RunShape /\ ReviewsInv /\ BundleInv /\ RunNeedsBundle /\ AnswersClean

-----------------------------------------------------------------------------
(* What verify_bundle says                                                  *)

\* A set of at most one element holds no two.
LEMMA AtMostOne ==
  ASSUME NEW S, IsFiniteSet(S), Cardinality(S) <= 1, NEW x \in S, NEW y \in S
  PROVE  x = y
<1>1. {x, y} \subseteq S /\ IsFiniteSet({x, y})
  BY FS_Subset
<1>2. Cardinality({x, y}) <= 1 /\ Cardinality({x, y}) \in Nat
  BY <1>1, FS_Subset, FS_CardinalityType
<1> SUFFICES ASSUME x # y PROVE FALSE
  OBVIOUS
<1>3. Cardinality({x}) = 1 /\ IsFiniteSet({x})
  BY FS_Singleton
<1>4. Cardinality({x} \cup {y}) = 2
  BY <1>3, FS_AddElement
<1>5. {x} \cup {y} = {x, y}
  OBVIOUS
<1> QED
  BY <1>2, <1>4, <1>5

LEMMA ReviewsFinite ==
  ASSUME ReviewsInv
  PROVE  IsFiniteSet(Reviews)
<1>1. Len(reviews) \in Nat /\ IsFiniteSet(1..Len(reviews))
  BY FS_Interval DEF ReviewsInv
<1>2. [i \in 1..Len(reviews) |-> reviews[i]] \in Surjection(1..Len(reviews), Reviews)
  BY DEF Surjection, Reviews
<1> QED
  BY <1>1, <1>2, FS_Surjection

\* Every finding of a verified bundle has one answer, and the reviews in it
\* carry their key's family.
LEMMA VerifiedAnswers ==
  ASSUME NEW b, NEW t, NEW l, VerifyBundle(b, t, l), IsFiniteSet(b.reviews),
         NEW x \in b.reviews, NEW f \in Findings, f \in x.raised
  PROVE  \E e \in b.closure, y \in b.reviews :
            /\ e.finding = f /\ y.digest = e.acknowledgedBy
            /\ f \in y.acknowledged /\ y.family = x.family /\ x.issuedAt < y.issuedAt
<1>1. x.verdict # "AGREE"
  BY DEF VerifyBundle, TransitionsOk
<1>2. \A r \in b.reviews : r.family = FamilyOf(r)
  BY DEF VerifyBundle, ReviewsOk
<1>3. PICK e \in b.closure : e.finding = f
  <2>1. f \in UNION {r.raised : r \in {z \in b.reviews : z.verdict # "AGREE"}}
    BY <1>1
  <2>2. {e.finding : e \in b.closure} = UNION {r.raised : r \in {z \in b.reviews : z.verdict # "AGREE"}}
    BY DEF VerifyBundle, ClosureOk
  <2> QED
    BY <2>1, <2>2
<1>4. PICK z \in b.reviews, y \in b.reviews :
        /\ y.digest = e.acknowledgedBy /\ f \in z.raised /\ f \in y.acknowledged
        /\ FamilyOf(z) = FamilyOf(y) /\ z.issuedAt < y.issuedAt
  BY <1>3 DEF VerifyBundle, ClosureOk
<1>5. z = x
  <2>1. Cardinality({r \in b.reviews : f \in r.raised}) <= 1
    BY DEF VerifyBundle, FindingsOk
  <2>2. IsFiniteSet({r \in b.reviews : f \in r.raised})
    BY FS_Subset
  <2> QED
    BY <1>4, <2>1, <2>2, AtMostOne
<1> QED
  BY <1>2, <1>3, <1>4, <1>5

LEMMA VerifiedFindings ==
  ASSUME NEW b, NEW t, NEW l, VerifyBundle(b, t, l), IsFiniteSet(b.reviews)
  PROVE  FindingsAnswered(b)
<1> SUFFICES ASSUME NEW r \in b.reviews, NEW f \in Findings, f \in r.raised
             PROVE  \E q \in b.reviews :
                      f \in q.acknowledged /\ q.family = r.family /\ q.issuedAt > r.issuedAt
  BY DEF FindingsAnswered
<1> QED
  BY VerifiedAnswers

\* The order of issue in what is composed from the reviews.
LEMMA IssueOrder ==
  ASSUME ReviewsInv, NEW r \in Reviews
  PROVE  /\ r \in ReviewRows
         /\ \A e \in r.closureRoot.entries : e.acknowledgedBy < r.digest
         /\ \A q \in Reviews : q.chain = r.chain /\ q.round <= r.round => q.digest <= r.digest
<1>1. PICK i \in 1..Len(reviews) : r = reviews[i]
  BY DEF Reviews
<1>2. r \in ReviewRows /\ r.digest = i /\ i \in Nat
  BY <1>1 DEF ReviewsInv
<1>3. ASSUME NEW q \in Reviews, q.chain = r.chain, q.round <= r.round
      PROVE  q.digest <= r.digest
  <2>1. PICK j \in 1..Len(reviews) : q = reviews[j]
    BY DEF Reviews
  <2>2. q \in ReviewRows /\ q.digest = j /\ j \in Nat
    BY <2>1 DEF ReviewsInv
  <2>3. i < j => r.round < q.round
    BY <1>1, <1>3, <2>1 DEF ReviewsInv
  <2> QED
    BY <1>2, <1>3, <2>2, <2>3 DEF ReviewRows
<1> QED
  BY <1>1, <1>2, <1>3 DEF ReviewsInv

LEMMA VerifiedAgreement ==
  ASSUME ReviewsInv, NEW b, NEW t, NEW l, VerifyBundle(b, t, l), b.reviews \subseteq Reviews,
         b.subject = Subject
  PROVE  FamiliesAgree(b)
<1> SUFFICES ASSUME NEW f \in Families
             PROVE  \E r \in b.reviews :
                      /\ r.family = f /\ r.verdict = "AGREE" /\ r.subject = Subject
                      /\ \A q \in b.reviews : q.family = f /\ q.chain = r.chain => q.digest <= r.digest
                      /\ \A q \in b.reviews : q.acknowledged # {} => q.digest < r.digest
  BY DEF FamiliesAgree
<1>1. IsFiniteSet(b.reviews)
  BY ReviewsFinite, FS_Subset
<1>2. PICK r \in b.final : FamilyOf(r) = f
  BY DEF VerifyBundle, ConsensusOk
<1>3. r \in Tips(b.reviews) /\ r.verdict = "AGREE" /\ r.subject = b.subject
      /\ r.closureRoot = ClosureRoot(b.subject, b.closure)
  BY DEF VerifyBundle, ConsensusOk
<1>4. r \in b.reviews /\ r \in Reviews
      /\ \A q \in b.reviews : q.chain = r.chain => q.round <= r.round
  BY <1>3 DEF Tips, Chain
<1>5. r.family = f
  BY <1>2, <1>4 DEF VerifyBundle, ReviewsOk
<1>6. \A q \in b.reviews : q.family = f /\ q.chain = r.chain => q.digest <= r.digest
  BY <1>4, IssueOrder
<1>7. ASSUME NEW q \in b.reviews, q.acknowledged # {}
      PROVE  q.digest < r.digest
  <2>1. PICK g \in Findings : g \in q.acknowledged
    <3>1. q \in ReviewRows
      BY IssueOrder
    <3> QED
      BY <1>7, <3>1 DEF ReviewRows
  <2>2. PICK x \in b.reviews : g \in x.raised
    BY <2>1 DEF VerifyBundle, FindingsOk
  <2>3. PICK e \in b.closure, y \in b.reviews :
          y.digest = e.acknowledgedBy /\ g \in y.acknowledged
    BY <1>1, <2>2, VerifiedAnswers
  <2>4. y = q
    <3>1. Cardinality({z \in b.reviews : g \in z.acknowledged}) <= 1
      BY DEF VerifyBundle, FindingsOk
    <3>2. IsFiniteSet({z \in b.reviews : g \in z.acknowledged})
      BY <1>1, FS_Subset
    <3> QED
      BY <2>1, <2>3, <3>1, <3>2, AtMostOne
  <2>5. e \in r.closureRoot.entries
    BY <1>3, <2>3 DEF ClosureRoot
  <2> QED
    BY <1>4, <2>3, <2>4, <2>5, IssueOrder
<1> QED
  BY <1>3, <1>4, <1>5, <1>6, <1>7

\* A list under which the bundle verifies names nothing that stands behind it.
LEMMA VerifiedUnrevoked ==
  ASSUME NEW b, NEW t, NEW l, VerifyBundle(b, t, l), NEW d, d \cap {"ref", "runners"} = {}
  PROVE  CleanFor(b, l.entries, d)
<1> SUFFICES ASSUME NEW e \in l.entries
             PROVE  <<e[1], e[2]>> \notin
                      {<<"bundle", b.id>>, <<"subject", b.subject>>, <<"grant", b.grant.id>>,
                       <<"runner-lease", b.lease.id>>, <<"key", b.key>>, <<"key", b.lease.key>>}
                      \cup {<<"review", r.digest>> : r \in b.reviews}
                      \cup {<<"key", r.key>> : r \in b.reviews}
  BY DEF CleanFor
<1>1. <<e[1], e[2]>> \notin {<<"bundle", b.id>>, <<"subject", b.subject>>, <<"grant", b.grant.id>>}
  BY DEF VerifyBundle, IsRevoked
<1>2. <<e[1], e[2]>> \notin {<<"runner-lease", b.lease.id>>, <<"key", b.key>>, <<"key", b.lease.key>>}
  BY DEF VerifyBundle, RunnerLeaseOk, KeyValidAt, IsRevoked
<1>3. \A r \in b.reviews : <<e[1], e[2]>> # <<"review", r.digest>> /\ <<e[1], e[2]>> # <<"key", r.key>>
  BY DEF VerifyBundle, ReviewsOk, KeyValidAt, IsRevoked
<1> QED
  BY <1>1, <1>2, <1>3


-----------------------------------------------------------------------------
(* The steps                                                                *)

LEMMA GateInit == Init => GateInv
  BY DEF Init, GateInv, RunShape, ReviewsInv, BundleInv, RunNeedsBundle, AnswersClean, Null

\* A new review is the last of its chain and names reviews that exist.
LEMMA IssueKeepsReviews ==
  ASSUME ReviewsInv, clock \in Nat, NEW x \in Executions,
         NEW previous \in {0} \cup {r.digest : r \in {t \in Tips(Reviews) : t.family = x.family}},
         NEW root \in RootsFor(x), Issue(x, previous, root)
  PROVE  ReviewsInv'
<1>1. PICK c, n, v :
        /\ c = IF previous = 0 THEN Len(reviews) + 1 ELSE reviews[previous].chain
        /\ n = IF previous = 0 THEN 1 ELSE reviews[previous].round + 1
        /\ reviews' = Append(reviews, v)
        /\ v = [digest |-> Len(reviews) + 1, key |-> x.family, family |-> x.family,
                route |-> x.route, subject |-> x.subject, chain |-> c, round |-> n,
                previous |-> previous, verdict |-> x.verdict, raised |-> x.raised,
                resolved |-> x.resolved, acknowledged |-> x.acknowledged,
                closureRoot |-> root, issuedAt |-> clock, expiresAt |-> clock + ReviewTtl]
  BY DEF Issue
<1>2. reviews \in Seq(ReviewRows) /\ Len(reviews) \in Nat
      /\ \A i \in 1..Len(reviews) : /\ reviews[i].chain \in Nat /\ reviews[i].round \in Nat
                                   /\ reviews[i].chain <= i
  <2>1. reviews \in Seq(ReviewRows)
    BY DEF ReviewsInv
  <2>2. \A i \in 1..Len(reviews) : reviews[i] \in ReviewRows
    BY <2>1
  <2>3. \A i \in 1..Len(reviews) : reviews[i].chain \in Nat /\ reviews[i].round \in Nat
    BY <2>2 DEF ReviewRows
  <2>4. \A i \in 1..Len(reviews) : reviews[i].chain <= i
    BY DEF ReviewsInv
  <2> QED
    BY <2>1, <2>3, <2>4
<1>3. \A r \in Reviews : r.digest \in 1..Len(reviews) /\ reviews[r.digest] = r
  BY DEF Reviews, ReviewsInv
<1>4. previous # 0 => /\ previous \in 1..Len(reviews)
                      /\ reviews[previous] \in Tips(Reviews)
  BY <1>3 DEF Tips
<1>5. root \in [subject : {Subject}, entries : SUBSET ClosureEntries]
      /\ \A e \in root.entries : e.acknowledgedBy \in 1..Len(reviews)
  <2>1. RelevantEntries(Reviews) \subseteq ClosureEntries
    BY <1>2, <1>3 DEF RelevantEntries, KnownEntries, ClosureEntries
  <2>2. \A e \in RelevantEntries(Reviews) : e.acknowledgedBy \in 1..Len(reviews)
    BY <1>3 DEF RelevantEntries
  <2>3. PICK es \in SUBSET RelevantEntries(Reviews) : root = ClosureRoot(Subject, es)
    BY DEF RootsFor
  <2> QED
    BY <2>1, <2>2, <2>3 DEF ClosureRoot
<1>6. v \in ReviewRows
  <2>1. x.raised \subseteq Findings /\ x.resolved \subseteq Findings /\ x.acknowledged \subseteq Findings
    BY DEF Issue, ReviewResultOk
  <2>2. previous \in Nat /\ c \in Nat /\ n \in Nat
    BY <1>1, <1>2, <1>4
  <2>3. clock + ReviewTtl \in Nat /\ Len(reviews) + 1 \in Nat
    BY <1>2, BoundsAssumption
  <2>4. /\ x.family \in {y.family : y \in Executions} /\ x.route \in {y.route : y \in Executions}
        /\ x.subject \in {y.subject : y \in Executions} /\ x.verdict \in {y.verdict : y \in Executions}
    OBVIOUS
  <2>5. v = [digest |-> Len(reviews) + 1, key |-> x.family, family |-> x.family,
             route |-> x.route, subject |-> x.subject, chain |-> c, round |-> n,
             previous |-> previous, verdict |-> x.verdict, raised |-> x.raised,
             resolved |-> x.resolved, acknowledged |-> x.acknowledged,
             closureRoot |-> root, issuedAt |-> clock, expiresAt |-> clock + ReviewTtl]
    BY <1>1
  <2> QED
    BY <1>5, <2>1, <2>2, <2>3, <2>4, <2>5 DEF ReviewRows
<1>7. reviews' \in Seq(ReviewRows) /\ Len(reviews') = Len(reviews) + 1
      /\ reviews'[Len(reviews) + 1] = v
      /\ \A i \in 1..Len(reviews) : reviews'[i] = reviews[i]
  BY <1>1, <1>2, <1>6
<1>8. ASSUME NEW i \in 1..Len(reviews')
      PROVE  /\ reviews'[i].digest = i
             /\ reviews'[i].chain <= i
             /\ \A e \in reviews'[i].closureRoot.entries : e.acknowledgedBy < i
  <2>1. CASE i \in 1..Len(reviews)
    BY <1>7, <2>1 DEF ReviewsInv
  <2>2. CASE i = Len(reviews) + 1
    <3>1. v.chain <= Len(reviews) + 1
      BY <1>1, <1>2, <1>4
    <3> QED
      BY <1>1, <1>2, <1>5, <1>7, <2>2, <3>1
  <2> QED
    BY <1>2, <1>7, <2>1, <2>2
<1>9. ASSUME NEW i \in 1..Len(reviews), v.chain = reviews[i].chain
      PROVE  reviews[i].round < v.round
  <2>1. previous # 0
    BY <1>1, <1>2, <1>9
  <2>2. reviews[i] \in Reviews /\ reviews[i].chain = reviews[previous].chain
    BY <1>1, <1>9, <2>1 DEF Reviews
  <2>3. reviews[i].round <= reviews[previous].round
    BY <1>4, <2>1, <2>2 DEF Tips, Chain
  <2> QED
    BY <1>1, <1>2, <1>4, <2>1, <2>3
<1>10. ASSUME NEW i \in 1..Len(reviews'), NEW j \in 1..Len(reviews'),
              reviews'[i].chain = reviews'[j].chain, i < j
       PROVE  reviews'[i].round < reviews'[j].round
  <2>1. i \in 1..Len(reviews)
    BY <1>2, <1>7, <1>10
  <2>2. CASE j \in 1..Len(reviews)
    BY <1>7, <1>10, <2>1, <2>2 DEF ReviewsInv
  <2>3. CASE j = Len(reviews) + 1
    BY <1>7, <1>9, <1>10, <2>1, <2>3
  <2> QED
    BY <1>2, <1>7, <2>2, <2>3
<1> QED
  BY <1>7, <1>8, <1>10 DEF ReviewsInv

LEMMA IssueKeepsInv ==
  ASSUME GateInv, IssueReview
  PROVE  GateInv'
<1>1. PICK x \in Executions :
        \E previous \in {0} \cup {r.digest : r \in {t \in Tips(Reviews) : t.family = x.family}},
           root \in RootsFor(x) : Issue(x, previous, root)
  BY DEF IssueReview
<1>2. ReviewsInv'
  BY <1>1, IssueKeepsReviews DEF GateInv, RunNeedsBundle
<1>3. UNCHANGED <<clock, bundle, run, worked>>
  BY <1>1 DEF Issue
<1> QED
  BY <1>2, <1>3 DEF GateInv, RunShape, BundleInv, RunNeedsBundle, AnswersClean

LEMMA CoordinateKeepsInv ==
  ASSUME GateInv, Coordinate
  PROVE  GateInv'
<1>1. PICK b : /\ bundle' = b /\ VerifyBundle(b, clock, list)
               /\ b.reviews \subseteq Reviews /\ b.subject = Subject
  BY DEF Coordinate, Composable, Compose
<1>2. IsFiniteSet(b.reviews)
  BY <1>1, ReviewsFinite, FS_Subset DEF GateInv
<1>3. BundleInv'
  BY <1>1, <1>2, VerifiedAgreement, VerifiedFindings DEF GateInv, BundleInv
<1>4. ReviewsInv'
  BY DEF Coordinate, ReviewsInv
<1>5. run' = Null /\ worked' = {} /\ clock' = clock
  BY DEF Coordinate, GateInv, RunNeedsBundle
<1> QED
  BY <1>3, <1>4, <1>5 DEF GateInv, RunShape, RunNeedsBundle, AnswersClean

\* Steps that leave the bundle, the run and what was worked alone.
LEMMA OutsideKeepsInv ==
  ASSUME GateInv, UNCHANGED <<reviews, bundle, run, worked>>, clock' \in Nat
  PROVE  GateInv'
  BY DEF GateInv, RunShape, ReviewsInv, BundleInv, RunNeedsBundle, AnswersClean

\* Steps of a run that answer nothing.
LEMMA RunKeepsInv ==
  ASSUME GateInv, UNCHANGED <<clock, reviews, bundle, worked>>,
         NEW r, run' = r,
         \/ r = Null
         \/ /\ bundle # Null
            /\ r = [digest |-> 1, stage |-> r.stage, pc |-> r.pc, created |-> r.created,
                    approved |-> r.approved, entries |-> r.entries, drift |-> r.drift]
            /\ r.pc = "answered" => CleanFor(bundle, r.entries, r.drift)
  PROVE  GateInv'
<1>1. RunShape' /\ RunNeedsBundle'
  BY DEF GateInv, RunShape, RunNeedsBundle
<1>2. ReviewsInv' /\ BundleInv'
  BY DEF GateInv, ReviewsInv, BundleInv
<1>3. AnswersClean'
  BY DEF GateInv, AnswersClean
<1> QED
  BY <1>1, <1>2, <1>3 DEF GateInv


LEMMA EvaluationKeepsInv ==
  ASSUME GateInv, EvaluateBegin \/ ReadEnvironment \/ ReadRef \/ ReadRunners
  PROVE  GateInv'
<1>1. run # Null /\ bundle # Null
  BY DEF GateInv, RunNeedsBundle, EvaluateBegin, ReadEnvironment, ReadRef, ReadRunners
<1>fields. PICK st, p, cr, ap, en, dr :
        run = [digest |-> 1, stage |-> st, pc |-> p, created |-> cr, approved |-> ap,
               entries |-> en, drift |-> dr]
  BY <1>1 DEF GateInv, RunShape
<1>2. PICK to, at : /\ run' = [digest |-> 1, stage |-> st, pc |-> to, created |-> cr,
                                approved |-> at, entries |-> en, drift |-> dr]
                    /\ to # "answered"
  <2>1. CASE EvaluateBegin
    <3>1. PICK to \in {"environment", "waiting"} : run' = [run EXCEPT !.pc = to]
      BY <2>1 DEF EvaluateBegin, Go
    <3> QED
      BY <1>fields, <3>1
  <2>2. CASE ReadEnvironment
    <3>1. PICK to \in {"ref", "waiting"} : run' = [run EXCEPT !.pc = to]
      BY <2>2 DEF ReadEnvironment, Go, Refuse
    <3> QED
      BY <1>fields, <3>1
  <2>3. CASE ReadRef
    <3>1. PICK to \in {"runners", "waiting"} : run' = [run EXCEPT !.pc = to]
      BY <2>3 DEF ReadRef, Go, Refuse
    <3> QED
      BY <1>fields, <3>1
  <2>4. CASE ReadRunners
    <3>1. \/ run' = [run EXCEPT !.pc = "released", !.approved = clock]
          \/ run' = [run EXCEPT !.pc = "waiting"]
      BY <2>4 DEF ReadRunners, Go, Refuse
    <3>2. \/ run' = [digest |-> 1, stage |-> st, pc |-> "released", created |-> cr,
                     approved |-> clock, entries |-> en, drift |-> dr]
          \/ run' = [digest |-> 1, stage |-> st, pc |-> "waiting", created |-> cr,
                     approved |-> ap, entries |-> en, drift |-> dr]
      BY <1>fields, <3>1
    <3> QED
      BY <3>2
  <2> QED
    BY <2>1, <2>2, <2>3, <2>4
<1>3. UNCHANGED <<clock, reviews, bundle, worked>>
  BY DEF EvaluateBegin, ReadEnvironment, ReadRef, ReadRunners, RunOnly
<1>4. PICK r : run' = r
  OBVIOUS
<1> QED
  BY <1>1, <1>2, <1>3, <1>4, RunKeepsInv

LEMMA AuthorizeKeepsInv ==
  ASSUME GateInv, Authorize
  PROVE  GateInv'
<1>1. run # Null /\ bundle # Null
  BY DEF GateInv, RunNeedsBundle, Authorize
<1>fields. PICK st, p, cr, ap, en, dr :
        run = [digest |-> 1, stage |-> st, pc |-> p, created |-> cr, approved |-> ap,
               entries |-> en, drift |-> dr]
  BY <1>1 DEF GateInv, RunShape
<1>2. PICK r : /\ run' = r
               /\ r = [digest |-> 1, stage |-> st, pc |-> "answered", created |-> cr,
                       approved |-> 0, entries |-> list.entries, drift |-> drift]
  BY <1>fields DEF Authorize
<1>3. CleanFor(bundle, list.entries, drift)
  BY VerifiedUnrevoked DEF Authorize, RefBinding, RunnerInventory
<1>4. UNCHANGED <<clock, reviews, bundle, worked>>
  BY DEF Authorize, RunOnly
<1> QED
  BY <1>1, <1>2, <1>3, <1>4, RunKeepsInv

LEMMA RunnerKeepsInv ==
  ASSUME GateInv, RunnerVerify
  PROVE  GateInv'
<1>1. run # Null /\ bundle # Null /\ run.pc = "answered"
  BY DEF GateInv, RunNeedsBundle, RunnerVerify
<1>fields. PICK st, p, cr, ap, en, dr :
        run = [digest |-> 1, stage |-> st, pc |-> p, created |-> cr, approved |-> ap,
               entries |-> en, drift |-> dr]
  BY <1>1 DEF GateInv, RunShape
<1>2. PICK r : /\ run' = r
               /\ r = [digest |-> 1, stage |-> st, pc |-> "working", created |-> cr,
                       approved |-> ap, entries |-> {}, drift |-> {}]
  BY <1>fields DEF RunnerVerify
<1>3. UNCHANGED <<clock, reviews, bundle>>
      /\ worked' = worked \cup {[stage |-> run.stage, entries |-> run.entries, drift |-> run.drift]}
  BY DEF RunnerVerify
<1>4. RunShape' /\ RunNeedsBundle'
  BY <1>1, <1>2, <1>3 DEF GateInv, RunShape, RunNeedsBundle
<1>5. ReviewsInv' /\ BundleInv'
  BY <1>3 DEF GateInv, ReviewsInv, BundleInv
<1>6. AnswersClean'
  <2>1. CleanFor(bundle, run.entries, run.drift)
    BY <1>1 DEF GateInv, AnswersClean
  <2>2. ASSUME NEW w \in worked' PROVE CleanFor(bundle, w.entries, w.drift)
    BY <1>3, <2>1 DEF GateInv, AnswersClean
  <2>3. run'.pc # "answered"
    BY <1>2
  <2> QED
    BY <1>3, <2>2, <2>3 DEF AnswersClean
<1> QED
  BY <1>4, <1>5, <1>6 DEF GateInv

LEMMA GateStep == GateInv /\ [Next]_vars => GateInv'
<1> SUFFICES ASSUME GateInv, [Next]_vars PROVE GateInv'
  OBVIOUS
<1>1. CASE IssueReview
  BY <1>1, IssueKeepsInv
<1>2. CASE Coordinate
  BY <1>2, CoordinateKeepsInv
<1>3. CASE Tick \/ Publish \/ (\E d \in Drifts : Drift(d)) \/ UNCHANGED vars
  <2>1. UNCHANGED <<reviews, bundle, run, worked>> /\ clock' \in Nat
    BY <1>3 DEF Tick, Publish, Drift, vars, GateInv, RunNeedsBundle
  <2> QED
    BY <2>1, OutsideKeepsInv
<1>4. CASE \E s \in Stages : Dispatch(s)
  <2>1. PICK s \in Stages : Dispatch(s)
    BY <1>4
  <2>2. PICK r : run' = r /\ r = [digest |-> 1, stage |-> s, pc |-> "waiting", created |-> clock,
                                  approved |-> 0, entries |-> {}, drift |-> {}]
    BY <2>1 DEF Dispatch
  <2>3. bundle # Null /\ UNCHANGED <<clock, reviews, bundle, worked>>
    BY <2>1 DEF Dispatch
  <2> QED
    BY <2>2, <2>3, RunKeepsInv
<1>5. CASE EvaluateBegin \/ ReadEnvironment \/ ReadRef \/ ReadRunners
  BY <1>5, EvaluationKeepsInv
<1>6. CASE Authorize
  BY <1>6, AuthorizeKeepsInv
<1>7. CASE RunnerVerify
  BY <1>7, RunnerKeepsInv
<1>8. CASE Conclude \/ EndUnproven
  <2>1. run' = Null /\ UNCHANGED <<clock, reviews, bundle, worked>>
    BY <1>8 DEF Conclude, EndUnproven
  <2> QED
    BY <2>1, RunKeepsInv
<1> QED
  BY <1>1, <1>2, <1>3, <1>4, <1>5, <1>6, <1>7, <1>8 DEF Next

\* The invariant of the gate, from the order in which reviews are issued to
\* what a runner acts on.
THEOREM GateInvariant == Spec => []GateInv
<1> QED
  BY GateInit, GateStep, PTL DEF Spec

\* Whatever the families, findings and lifetimes, no job works under a bundle
\* in which a family's AGREE is older than an answer it stands for, or in which
\* a finding was not acknowledged later by the family that raised it.
THEOREM AgreedKnowing == Spec => []AgreedKnowingTheAnswers
<1>1. GateInv => AgreedKnowingTheAnswers
  BY DEF GateInv, BundleInv, RunNeedsBundle, FamiliesAgree, FindingsAnswered, AgreedKnowingTheAnswers
<1> QED
  BY <1>1, GateInvariant, PTL

\* No job acts on an answer that the service gave after something behind the
\* bundle was revoked, or after the intent ref or the runners changed.
THEOREM RevocationStops == Spec => []RevokedBeforeAnswerNeverWorks
<1>1. GateInv => RevokedBeforeAnswerNeverWorks
  BY DEF GateInv, AnswersClean, CleanFor, RevokedBeforeAnswerNeverWorks, Backing
<1> QED
  BY <1>1, GateInvariant, PTL
=============================================================================
