-------------------------- MODULE EtlWorkerProofs --------------------------
(***************************************************************************)
(* Proofs about EtlWorker for any manifest, rows, reject limit and number  *)
(* of processes.                                                           *)
(***************************************************************************)
EXTENDS EtlWorker, FiniteSetTheorems, WellFoundedInduction, TLAPS

Loading == {"bulk", "row", "rejects", "success", "failure", "batchFailure"}
Working == Loading \cup
  {"extract", "refused", "refusedCount", "threshold", "validate"}

(* A process between pg_try_advisory_lock and its release holds the lock.  *)
HoldsLock(w) == proc[w].pc \notin {"idle", "done"} => lock = w

(* Where the rows of the batch are while its process works on it.          *)
BatchAccounted(w) ==
  LET p == proc[w]
      t == Table(w)
  IN
  /\ p.pc \in Working =>
       p.at <= Len(Manifest) /\ tab[t] \in {"EXTRACTING", "LOADING"}
  /\ p.pc \in Loading \cup {"refused", "refusedCount"} =>
       last[t].rows = p.refused \cup p.typed
  /\ p.pc \in Loading \cup {"refusedCount"} => p.refused \subseteq rejects[t]
  /\ p.pc = "row" => p.typed \subseteq p.left \cup canon[t] \cup p.stats
  /\ p.pc = "rejects" => p.typed \subseteq canon[t] \cup p.stats
  /\ p.pc \in {"success", "failure"} =>
       p.typed \subseteq canon[t] \cup rejects[t]
  /\ p.pc = "batchFailure" => p.typed \subseteq rejects[t]
  /\ p.pc \in {"threshold", "validate"} =>
       last[t].rows \subseteq canon[t] \cup rejects[t]

(* How far the table loop is: the VALIDATED tables are those it skips and  *)
(* some it has passed, and it has passed no table it had to validate.      *)
Passed(w) == {Manifest[i] : i \in 1..(proc[w].at - 1)}
LoopPlace(w) ==
  /\ proc[w].pc \in {"preflight", "attach"} =>
       proc[w].at = 1 /\ proc[w].skip = {}
  /\ Owned(w) =>
       /\ proc[w].skip \subseteq Validated
       /\ Validated \subseteq proc[w].skip \cup Passed(w)
       /\ Passed(w) \cap proc[w].tables \subseteq Validated

(* A process with the run to itself has a run; before, nothing is stored.  *)
RunExists(w) ==
  (\/ Owned(w)
   \/ proc[w].pc \in {"preflight", "attach"} /\ proc[w].resume)
  => run.status # "none"

Untouched == run.status = "none" => Validated = {}

Local(w) == HoldsLock(w) /\ BatchAccounted(w) /\ LoopPlace(w) /\ RunExists(w)

Inv ==
  /\ TypeOK
  /\ \A w \in Workers : Local(w)
  /\ Untouched
  /\ ValidatedAccounted
  /\ SuccessIsComplete

-----------------------------------------------------------------------------
(* What a step may do, as far as the invariant goes.                       *)
Final ==
  \A t \in Validated :
    tab'[t] = tab[t] /\ canon'[t] = canon[t] /\ last'[t] = last[t]

(* A step on the batch of the current table: nothing of another table.     *)
BatchStep(w) ==
  /\ proc[w].pc \in Working /\ proc'[w].pc \in Working
  /\ proc'[w].at = proc[w].at
  /\ proc'[w].tables = proc[w].tables
  /\ proc'[w].skip = proc[w].skip
  /\ proc'[w].outcome = proc[w].outcome
  /\ \A v \in Workers \ {w} : proc'[v] = proc[v]
  /\ lock' = lock /\ run' = run
  /\ \A t \in Tables \ {Table(w)} :
       /\ tab'[t] = tab[t] /\ last'[t] = last[t]
       /\ canon'[t] = canon[t] /\ rejects'[t] = rejects[t]
  /\ tab'[Table(w)] \in {"EXTRACTING", "LOADING"}

(* A step after which the process does no more, or only unlocks.           *)
StopStep(w) ==
  /\ proc'[w].pc \in {"unlock", "done"}
  /\ proc[w].pc = "idle" =>
       /\ proc'[w].pc = "done"
       /\ lock' = lock /\ run' = run /\ canon' = canon
  /\ proc'[w].pc = "unlock" => lock' = lock
  /\ proc[w].pc \notin {"done"}
  /\ \A v \in Workers \ {w} : proc'[v] = proc[v]
  /\ run'.status = "none" <=> run.status = "none"
  /\ tab' = tab /\ rejects' = rejects /\ last' = last
  /\ \A t \in Validated : canon'[t] = canon[t]
  /\ proc'[w].outcome = "SUCCESS" => proc'[w].tables \subseteq Validated

-----------------------------------------------------------------------------
(* An action of w that reads a started process has the others stopped.     *)
LEMMA OthersStopped ==
  ASSUME Inv, NEW w \in Workers, NEW v \in Workers, v # w,
         proc[w].pc \notin {"idle", "done"} \/ lock = NoOne
  PROVE  proc[v].pc \in {"idle", "done"}
BY EtlAssumption DEF Inv, Local, HoldsLock, TypeOK

(* Nothing is claimed of a process that is not started or has ended.       *)
LEMMA StoppedIsLocal ==
  ASSUME NEW v \in Workers, (proc[v].pc)' \in {"idle", "done"}
  PROVE  Local(v)'
BY DEF Local, HoldsLock, BatchAccounted, LoopPlace, RunExists, Owned,
       Working, Loading

(* What an action of w leaves true of the other processes.                 *)
LEMMA OthersLocal ==
  ASSUME Inv, NEW w \in Workers,
         proc[w].pc \notin {"idle", "done"} \/ lock = NoOne,
         \A v \in Workers \ {w} : proc'[v] = proc[v]
  PROVE  \A v \in Workers \ {w} : Local(v)'
<1> SUFFICES ASSUME NEW v \in Workers \ {w} PROVE Local(v)'
  OBVIOUS
<1>1. proc[v].pc \in {"idle", "done"}
  BY OthersStopped
<1> QED BY <1>1, StoppedIsLocal

(* The table of a working process, by its place in the manifest.           *)
LEMMA WorkingTable ==
  ASSUME Inv, NEW w \in Workers, proc[w].pc \in Working
  PROVE  /\ proc[w] \in Process
         /\ proc[w].at \in 1..Len(Manifest)
         /\ Table(w) \in Tables
         /\ tab[Table(w)] \in {"EXTRACTING", "LOADING"}
         /\ Table(w) \notin Validated
         /\ lock = w
<1>1. proc[w] \in Process /\ BatchAccounted(w) /\ HoldsLock(w)
  BY DEF Inv, TypeOK, Local
<1>2. /\ proc[w].at \in 1..Len(Manifest)
      /\ tab[Table(w)] \in {"EXTRACTING", "LOADING"}
  <2>1. proc[w].at \in 1..(Len(Manifest) + 1)
    BY <1>1 DEF Process
  <2>2. Len(Manifest) \in Nat
    BY EtlAssumption
  <2> QED BY <1>1, <2>1, <2>2 DEF BatchAccounted
<1>3. lock = w
  BY <1>1 DEF HoldsLock, Working, Loading
<1> QED BY <1>1, <1>2, <1>3 DEF Table, Tables, Validated

(* A step on the batch keeps the invariant if it accounts for the batch.   *)
LEMMA BatchStepInv ==
  ASSUME Inv, NEW w \in Workers, BatchStep(w), TypeOK', BatchAccounted(w)'
  PROVE  Inv' /\ Final
<1> DEFINE t == Table(w)
<1>1. /\ t \in Tables /\ t \notin Validated /\ lock = w
      /\ proc[w].pc \in Working /\ proc'[w].pc \in Working
  BY WorkingTable DEF BatchStep
<1>2. Validated' = Validated
  BY <1>1 DEF Validated, BatchStep
<1>3. \A v \in Workers \ {w} : Local(v)'
  BY <1>1, OthersLocal DEF BatchStep, Working, Loading
<1>4. HoldsLock(w)'
  BY <1>1 DEF HoldsLock, BatchStep
<1>5. LoopPlace(w)' /\ RunExists(w)'
  <2>1. Owned(w) /\ Owned(w)'
    BY <1>1 DEF Owned, Working, Loading
  <2>2. LoopPlace(w) /\ RunExists(w)
    BY DEF Inv, Local
  <2>3. Passed(w)' = Passed(w)
    BY DEF Passed, BatchStep
  <2>4. LoopPlace(w)'
    BY <1>1, <1>2, <2>1, <2>2, <2>3
    DEF LoopPlace, BatchStep, Working, Loading
  <2>5. RunExists(w)'
    BY <2>1, <2>2 DEF RunExists, BatchStep
  <2> QED BY <2>4, <2>5
<1>6. \A v \in Workers : Local(v)'
  BY <1>3, <1>4, <1>5 DEF Local
<1>7. Final /\ ValidatedAccounted'
  BY <1>1, <1>2 DEF Inv, Final, ValidatedAccounted, BatchStep, Validated
<1>8. Untouched'
  BY <1>2 DEF Inv, Untouched, BatchStep
<1>9. SuccessIsComplete'
  BY <1>2 DEF Inv, SuccessIsComplete, BatchStep
<1> QED BY <1>6, <1>7, <1>8, <1>9 DEF Inv

(* A step that ends a process keeps the invariant.                         *)
LEMMA StopStepInv ==
  ASSUME Inv, NEW w \in Workers, StopStep(w), TypeOK'
  PROVE  Inv' /\ Final
<1>1. Validated' = Validated
  BY DEF Validated, StopStep
<1>2. Local(w)'
  <2>1. CASE proc'[w].pc = "done"
    BY <2>1, StoppedIsLocal
  <2>2. CASE proc'[w].pc = "unlock"
    <3>1. lock' = w
      BY <2>2 DEF Inv, Local, HoldsLock, StopStep
    <3> QED BY <2>2, <3>1 DEF Local, HoldsLock, BatchAccounted, LoopPlace,
                              RunExists, Owned, Working, Loading
  <2> QED BY <2>1, <2>2 DEF StopStep
<1>3. \A v \in Workers \ {w} : Local(v)'
  <2>1. CASE proc[w].pc # "idle"
    BY <2>1, OthersLocal DEF StopStep
  <2>2. CASE proc[w].pc = "idle"
    <3> SUFFICES ASSUME NEW v \in Workers \ {w} PROVE Local(v)'
      OBVIOUS
    <3>1. /\ proc'[v] = proc[v] /\ lock' = lock /\ run' = run /\ tab' = tab
          /\ rejects' = rejects /\ canon' = canon /\ last' = last
      BY <2>2 DEF StopStep
    <3>2. Local(v)
      BY DEF Inv
    <3>3. HoldsLock(v)' /\ RunExists(v)'
      BY <3>1, <3>2 DEF Local, HoldsLock, RunExists, Owned
    <3>4. BatchAccounted(v)'
      BY <3>1, <3>2 DEF Local, BatchAccounted, Table
    <3>5. LoopPlace(v)'
      BY <1>1, <3>1, <3>2 DEF Local, LoopPlace, Owned, Passed
    <3> QED BY <3>3, <3>4, <3>5 DEF Local
  <2> QED BY <2>1, <2>2
<1>4. Final /\ ValidatedAccounted'
  BY <1>1 DEF Inv, Final, ValidatedAccounted, StopStep
<1>5. Untouched'
  BY <1>1 DEF Inv, Untouched, StopStep
<1>6. SuccessIsComplete'
  BY <1>1 DEF Inv, SuccessIsComplete, StopStep
<1> QED BY <1>2, <1>3, <1>4, <1>5, <1>6 DEF Inv

-----------------------------------------------------------------------------
(* What the updates of a process leave it with.                            *)
KeepsBatch(w, label) ==
  /\ proc'[w].pc = label
  /\ proc'[w].at = proc[w].at
  /\ proc'[w].tables = proc[w].tables
  /\ proc'[w].skip = proc[w].skip
  /\ proc'[w].outcome = proc[w].outcome
  /\ proc'[w].resume = proc[w].resume
  /\ proc'[w].refused = proc[w].refused
  /\ proc'[w].typed = proc[w].typed
  /\ proc'[w].stats = proc[w].stats
  /\ \A v \in Workers \ {w} : proc'[v] = proc[v]

(* An update of w with a process record changes w alone.                   *)
LEMMA UpdateType ==
  ASSUME TypeOK, NEW w \in Workers, NEW p \in Process, Update(w, p)
  PROVE  /\ proc' \in [Workers -> Process]
         /\ proc'[w] = p
         /\ \A v \in Workers \ {w} : proc'[v] = proc[v]
BY DEF TypeOK, Update

(* A process starts as a process record.                                   *)
LEMMA NewType == NewProcess \in Process
BY EtlAssumption DEF NewProcess, Process, Labels, Outcomes

(* The fields of a process that the actions read.                          *)
LEMMA ProcessTypes ==
  ASSUME TypeOK, NEW w \in Workers
  PROVE  /\ proc[w] \in Process
         /\ proc[w].refused \in SUBSET Keys /\ proc[w].typed \in SUBSET Keys
         /\ proc[w].unstorable \in SUBSET Keys
         /\ proc[w].left \in SUBSET Keys /\ proc[w].stats \in SUBSET Keys
         /\ proc[w].tables \in SUBSET Tables
         /\ Cardinality(proc[w].refused) \in Nat
         /\ Cardinality(proc[w].typed) \in Nat
         /\ Cardinality(proc[w].stats) \in Nat
<1>1. proc[w] \in Process
  BY DEF TypeOK
<1>2. /\ proc[w].refused \in SUBSET Keys /\ proc[w].typed \in SUBSET Keys
      /\ proc[w].unstorable \in SUBSET Keys
      /\ proc[w].left \in SUBSET Keys /\ proc[w].stats \in SUBSET Keys
      /\ proc[w].tables \in SUBSET Tables
  BY <1>1 DEF Process
<1>3. \A S \in SUBSET Keys : Cardinality(S) \in Nat
  BY EtlAssumption, FS_Subset, FS_CardinalityType
<1> QED BY <1>1, <1>2, <1>3

(* Moving on leaves the batch alone.                                       *)
LEMMA GotoKeeps ==
  ASSUME TypeOK, NEW w \in Workers, NEW l \in Labels, Goto(w, l)
  PROVE  proc' \in [Workers -> Process] /\ KeepsBatch(w, l)
<1>1. proc[w] \in Process
  BY ProcessTypes
<1> DEFINE p == [proc[w] EXCEPT !.pc = l]
<1>2. p \in Process
  BY <1>1 DEF Process
<1>3. /\ proc' \in [Workers -> Process] /\ proc'[w] = p
      /\ \A v \in Workers \ {w} : proc'[v] = proc[v]
  BY <1>2, UpdateType DEF Goto
<1>4. /\ p.pc = l /\ p.at = proc[w].at /\ p.tables = proc[w].tables
      /\ p.skip = proc[w].skip /\ p.outcome = proc[w].outcome
      /\ p.resume = proc[w].resume
      /\ p.refused = proc[w].refused /\ p.typed = proc[w].typed
      /\ p.stats = proc[w].stats
  BY <1>1 DEF Process
<1> QED BY <1>3, <1>4 DEF KeepsBatch

(* Counting leaves the batch and its rows alone.                           *)
LEMMA CountKeeps ==
  ASSUME TypeOK, NEW w \in Workers, NEW l \in Labels, NEW m \in Nat,
         NEW n \in Nat, Count(w, m, n, l), Table(w) \in Tables
  PROVE  /\ proc' \in [Workers -> Process] /\ KeepsBatch(w, l)
         /\ last' \in [Tables -> [rows : SUBSET Keys, rejected : Nat,
                                  processed : Nat]]
         /\ last'[Table(w)].rows = last[Table(w)].rows
         /\ \A t \in Tables \ {Table(w)} : last'[t] = last[t]
<1>1. proc[w] \in Process
  BY ProcessTypes
<1> DEFINE p == [proc[w] EXCEPT !.pc = l, !.rejected = @ + m,
                                !.processed = @ + n]
<1>2. p \in Process
  <2>1. /\ proc[w].rejected + m \in Nat /\ proc[w].processed + n \in Nat
    BY <1>1 DEF Process
  <2>2. \A q \in Process, i, j \in Nat :
          [q EXCEPT !.pc = l, !.rejected = i, !.processed = j] \in Process
    BY DEF Process
  <2> QED BY <1>1, <2>1, <2>2
<1>3. /\ proc' \in [Workers -> Process] /\ proc'[w] = p
      /\ \A v \in Workers \ {w} : proc'[v] = proc[v]
  BY <1>2, UpdateType DEF Count
<1>4. /\ p.pc = l /\ p.at = proc[w].at /\ p.tables = proc[w].tables
      /\ p.skip = proc[w].skip /\ p.outcome = proc[w].outcome
      /\ p.resume = proc[w].resume
      /\ p.refused = proc[w].refused /\ p.typed = proc[w].typed
      /\ p.stats = proc[w].stats
  BY <1>1 DEF Process
<1>5. KeepsBatch(w, l)
  BY <1>3, <1>4 DEF KeepsBatch
<1> DEFINE e == [last[Table(w)] EXCEPT !.rejected = @ + m, !.processed = @ + n]
<1>6. last' = [last EXCEPT ![Table(w)] = e]
  BY DEF Count, TypeOK
<1>7. last[Table(w)] \in [rows : SUBSET Keys, rejected : Nat, processed : Nat]
  BY DEF TypeOK
<1>8. /\ e \in [rows : SUBSET Keys, rejected : Nat, processed : Nat]
      /\ e.rows = last[Table(w)].rows
  <2> DEFINE R == [rows : SUBSET Keys, rejected : Nat, processed : Nat]
             x == last[Table(w)]
  <2>1. x.rejected + m \in Nat /\ x.processed + n \in Nat
    BY <1>7
  <2>2. \A q \in R, i, j \in Nat :
          /\ [q EXCEPT !.rejected = i, !.processed = j] \in R
          /\ [q EXCEPT !.rejected = i, !.processed = j].rows = q.rows
    OBVIOUS
  <2> QED BY <1>7, <2>1, <2>2
<1> HIDE DEF e
<1>9. /\ last' \in [Tables -> [rows : SUBSET Keys, rejected : Nat,
                               processed : Nat]]
      /\ last'[Table(w)] = e
      /\ \A t \in Tables \ {Table(w)} : last'[t] = last[t]
  BY <1>6, <1>8 DEF TypeOK
<1> QED BY <1>3, <1>5, <1>8, <1>9

(* A return stops the process at the release of its lock.                  *)
LEMMA ReturnStops ==
  ASSUME TypeOK, NEW w \in Workers, NEW o \in Outcomes, Return(w, o)
  PROVE  /\ proc' \in [Workers -> Process]
         /\ proc'[w].pc = "unlock" /\ proc'[w].outcome = o
         /\ proc'[w].tables = proc[w].tables
         /\ \A v \in Workers \ {w} : proc'[v] = proc[v]
<1>1. proc[w].tables \in SUBSET Tables
  BY ProcessTypes
<1> DEFINE p == [NewProcess EXCEPT !.pc = "unlock", !.outcome = o,
                                   !.tables = proc[w].tables]
<1>2. p \in Process
  BY <1>1, NewType DEF Process, Labels
<1>3. p.pc = "unlock" /\ p.outcome = o /\ p.tables = proc[w].tables
  BY DEF NewProcess
<1> HIDE DEF p
<1>4. /\ proc' \in [Workers -> Process] /\ proc'[w] = p
      /\ \A v \in Workers \ {w} : proc'[v] = proc[v]
  BY <1>2, UpdateType DEF Return, p
<1> QED BY <1>3, <1>4

(* An ended process.                                                       *)
LEMMA DoneStops ==
  ASSUME TypeOK, NEW w \in Workers, NEW o \in Outcomes,
         Update(w, [NewProcess EXCEPT !.pc = "done", !.outcome = o])
  PROVE  /\ proc' \in [Workers -> Process]
         /\ proc'[w].pc = "done" /\ proc'[w].outcome = o
         /\ \A v \in Workers \ {w} : proc'[v] = proc[v]
<1> DEFINE p == [NewProcess EXCEPT !.pc = "done", !.outcome = o]
<1>2. p \in Process
  BY NewType DEF Process, Labels
<1>3. p.pc = "done" /\ p.outcome = o
  BY DEF NewProcess
<1> HIDE DEF p
<1>4. /\ proc' \in [Workers -> Process] /\ proc'[w] = p
      /\ \A v \in Workers \ {w} : proc'[v] = proc[v]
  BY <1>2, UpdateType DEF p
<1> QED BY <1>3, <1>4

(* A return that may rewrite the status of an existing run.                *)
LEMMA ReturnInv ==
  ASSUME Inv, NEW w \in Workers,
         NEW o \in {"FAILED", "ABORTED", "RUN_EXISTS"}, Return(w, o),
         proc[w].pc \notin {"idle", "done", "unlock"},
         \/ run' = run
         \/ Owned(w) /\ o # "RUN_EXISTS" /\ run' = [run EXCEPT !.status = o],
         \A t \in Tables : \/ t = Table(w) /\ proc[w].pc \in Working
                           \/ canon'[t] = canon[t],
         canon' \in [Tables -> SUBSET Keys],
         UNCHANGED <<lock, tab, rejects, last>>
  PROVE  Inv' /\ Final
<1>t. TypeOK
  BY DEF Inv
<1>1. /\ proc' \in [Workers -> Process]
      /\ proc'[w].pc = "unlock" /\ proc'[w].outcome = o
      /\ \A v \in Workers \ {w} : proc'[v] = proc[v]
  BY <1>t, ReturnStops DEF Outcomes
<1>2. /\ run' \in [status : Statuses, mode : Modes \cup {"none"}]
      /\ run'.status = "none" <=> run.status = "none"
  <2>1. CASE run' = run
    BY <1>t, <2>1 DEF TypeOK
  <2>2. CASE run' # run
    <3>1. /\ run' = [run EXCEPT !.status = o] /\ o \in {"FAILED", "ABORTED"}
          /\ Owned(w)
      BY <2>2
    <3>2. run.status # "none"
      BY <3>1 DEF Inv, Local, RunExists
    <3> QED BY <1>t, <3>1, <3>2 DEF TypeOK, Statuses
  <2> QED BY <2>1, <2>2
<1>3. TypeOK'
  BY <1>t, <1>1, <1>2 DEF TypeOK
<1>4. \A t \in Validated : canon'[t] = canon[t]
  BY WorkingTable DEF Validated
<1>5. StopStep(w)
  BY <1>1, <1>2, <1>4 DEF StopStep
<1> QED BY <1>3, <1>5, StopStepInv

-----------------------------------------------------------------------------
(* A table state is written for one table.                                 *)
LEMMA UpsertType ==
  ASSUME TypeOK, NEW t \in Tables, NEW st \in TableStatuses, Upsert(t, st)
  PROVE  /\ tab' \in [Tables -> TableStatuses] /\ tab'[t] = st
         /\ \A u \in Tables \ {t} : tab'[u] = tab[u]
BY DEF TypeOK, Upsert

(* The steps on a batch, one by one.                                       *)
LEMMA BatchActions ==
  ASSUME Inv, NEW w \in Workers, proc[w].pc \in Working,
         \/ \E A, B, C \in SUBSET Keys : Extract(w, A, B, C)
         \/ InsertTransformRejects(w) \/ RecordTransformFailure(w)
         \/ BulkLoads(w) \/ BulkFails(w)
         \/ \E r \in proc[w].left : RowDone(w, r)
         \/ InsertLoadRejects(w) \/ RecordBatchSuccess(w)
         \/ RecordBatchFailure(w) \/ CriticalError(w) \/ TransientError(w)
         \/ InsertBatchReject(w) \/ RecordWholeBatchFailure(w)
         \/ CheckThreshold(w)
  PROVE  Inv' /\ Final
<1> DEFINE t == Table(w)
           p == proc[w]
<1>t. TypeOK /\ BatchAccounted(w)
  BY DEF Inv, Local
<1>w. /\ p \in Process /\ t \in Tables /\ tab[t] \in {"EXTRACTING", "LOADING"}
      /\ proc[w].at \in 1..Len(Manifest)
  BY WorkingTable
<1>c. /\ p.refused \in SUBSET Keys /\ p.typed \in SUBSET Keys
      /\ p.left \in SUBSET Keys /\ p.stats \in SUBSET Keys
      /\ p.unstorable \in SUBSET Keys
      /\ Cardinality(p.refused) \in Nat /\ Cardinality(p.typed) \in Nat
      /\ Cardinality(p.stats) \in Nat
  BY <1>t, ProcessTypes
<1>1. ASSUME NEW A \in SUBSET Keys, NEW B \in SUBSET Keys,
             NEW C \in SUBSET Keys, Extract(w, A, B, C)
      PROVE  Inv' /\ Final
  <2> DEFINE rows == A \cup (B \cup C)
             l == IF rows = {} THEN "validate"
                  ELSE IF A = {} THEN "bulk" ELSE "refused"
             q == [p EXCEPT !.pc = l, !.refused = A, !.typed = B \cup C,
                            !.unstorable = B, !.stats = {}, !.attempt = 0]
             e == [NoExtraction EXCEPT !.rows = rows]
  <2>0. l \in Labels /\ l \in Working
    BY DEF Labels, Working, Loading
  <2>1. q \in Process
    <3>1. 0 \in 0..MaxAttempts /\ B \cup C \in SUBSET Keys
      BY EtlAssumption
    <3>2. \A d \in Process, k \in Labels, D \in SUBSET Keys :
            [d EXCEPT !.pc = k, !.refused = A, !.typed = D, !.unstorable = B,
                      !.stats = {}, !.attempt = 0] \in Process
      BY <3>1 DEF Process
    <3> HIDE DEF l
    <3> QED BY <1>w, <2>0, <3>1, <3>2
  <2>2. /\ q.pc = l /\ q.at = p.at /\ q.tables = p.tables /\ q.skip = p.skip
        /\ q.outcome = p.outcome /\ q.refused = A /\ q.typed = B \cup C
    BY <1>w DEF Process
  <2>3. /\ e \in [rows : SUBSET Keys, rejected : Nat, processed : Nat]
        /\ e.rows = rows
    BY DEF NoExtraction
  <2>a. Update(w, q) /\ last' = [last EXCEPT ![t] = e]
    BY <1>1 DEF Extract
  <2>b. At(w, "extract") /\ UNCHANGED <<lock, auditVars, canon>>
    BY <1>1 DEF Extract
  <2>c. l = "validate" => rows = {}
    OBVIOUS
  <2>d. l = "bulk" => A = {}
    OBVIOUS
  <2>e. l \in {"validate", "bulk", "refused"}
    OBVIOUS
  <2> HIDE DEF q, e, l
  <2>4. /\ proc' \in [Workers -> Process] /\ proc'[w] = q
        /\ \A v \in Workers \ {w} : proc'[v] = proc[v]
    BY <1>t, <2>1, <2>a, UpdateType
  <2>5. /\ last' \in [Tables -> [rows : SUBSET Keys, rejected : Nat,
                                 processed : Nat]]
        /\ last'[t] = e
        /\ \A u \in Tables \ {t} : last'[u] = last[u]
    BY <1>t, <1>w, <2>3, <2>a DEF TypeOK
  <2>6. TypeOK'
    BY <1>t, <2>b, <2>4, <2>5 DEF TypeOK, auditVars
  <2>7. BatchStep(w)
    BY <1>w, <2>0, <2>2, <2>b, <2>4, <2>5 DEF BatchStep, auditVars
  <2>8. BatchAccounted(w)'
    BY <1>w, <2>2, <2>3, <2>b, <2>c, <2>d, <2>e, <2>4, <2>5
    DEF BatchAccounted, auditVars, Table, Working, Loading
  <2> QED BY <2>6, <2>7, <2>8, BatchStepInv
<1>2. CASE InsertTransformRejects(w)
  <2>1. proc' \in [Workers -> Process] /\ KeepsBatch(w, "refusedCount")
    BY <1>2, <1>t, GotoKeeps DEF InsertTransformRejects, Labels
  <2>2. /\ rejects' \in [Tables -> SUBSET Keys]
        /\ rejects'[t] = rejects[t] \cup p.refused
        /\ \A u \in Tables \ {t} : rejects'[u] = rejects[u]
    BY <1>2, <1>t, <1>w, <1>c DEF InsertTransformRejects, TypeOK
  <2>3. TypeOK'
    BY <1>2, <1>t, <2>1, <2>2 DEF InsertTransformRejects, TypeOK
  <2>4. BatchStep(w)
    BY <1>2, <1>w, <2>1, <2>2
    DEF InsertTransformRejects, BatchStep, KeepsBatch, Working, Loading
  <2>5. BatchAccounted(w)'
    BY <1>2, <1>t, <1>w, <2>1, <2>2
    DEF InsertTransformRejects, At, BatchAccounted, KeepsBatch, Table,
        Working, Loading
  <2> QED BY <2>3, <2>4, <2>5, BatchStepInv
<1>3. CASE RecordTransformFailure(w)
  <2> DEFINE l == IF p.typed = {} THEN "threshold" ELSE "bulk"
  <2>0. l \in Labels /\ l \in Working
    BY DEF Labels, Working, Loading
  <2>1. /\ proc' \in [Workers -> Process] /\ KeepsBatch(w, l)
        /\ last' \in [Tables -> [rows : SUBSET Keys, rejected : Nat,
                                 processed : Nat]]
        /\ last'[t].rows = last[t].rows
        /\ \A u \in Tables \ {t} : last'[u] = last[u]
    BY <1>3, <1>t, <1>w, <1>c, <2>0, CountKeeps DEF RecordTransformFailure
  <2>2. /\ tab' \in [Tables -> TableStatuses] /\ tab'[t] = "LOADING"
        /\ \A u \in Tables \ {t} : tab'[u] = tab[u]
    BY <1>3, <1>t, <1>w, UpsertType DEF RecordTransformFailure, TableStatuses
  <2>3. TypeOK'
    BY <1>3, <1>t, <2>1, <2>2 DEF RecordTransformFailure, TypeOK
  <2>4. BatchStep(w)
    BY <1>3, <2>0, <2>1, <2>2 DEF RecordTransformFailure, BatchStep, KeepsBatch
  <2>5. BatchAccounted(w)'
    BY <1>3, <1>t, <1>w, <2>1, <2>2
    DEF RecordTransformFailure, At, BatchAccounted, KeepsBatch, Table,
        Working, Loading
  <2> QED BY <2>3, <2>4, <2>5, BatchStepInv
<1>4. CASE InsertLoadRejects(w)
  <2>1. proc' \in [Workers -> Process] /\ KeepsBatch(w, "success")
    BY <1>4, <1>t, GotoKeeps DEF InsertLoadRejects, Labels
  <2>2. /\ rejects' \in [Tables -> SUBSET Keys]
        /\ rejects'[t] = rejects[t] \cup p.stats
        /\ \A u \in Tables \ {t} : rejects'[u] = rejects[u]
    BY <1>4, <1>t, <1>w, <1>c DEF InsertLoadRejects, TypeOK
  <2>3. TypeOK'
    BY <1>4, <1>t, <2>1, <2>2 DEF InsertLoadRejects, TypeOK
  <2>4. BatchStep(w)
    BY <1>4, <1>w, <2>1, <2>2
    DEF InsertLoadRejects, BatchStep, KeepsBatch, Working, Loading
  <2>5. BatchAccounted(w)'
    BY <1>4, <1>t, <1>w, <2>1, <2>2
    DEF InsertLoadRejects, At, BatchAccounted, KeepsBatch, Table, Working,
        Loading
  <2> QED BY <2>3, <2>4, <2>5, BatchStepInv
<1>5. CASE InsertBatchReject(w)
  <2>1. proc' \in [Workers -> Process] /\ KeepsBatch(w, "batchFailure")
    BY <1>5, <1>t, GotoKeeps DEF InsertBatchReject, Labels
  <2>2. /\ rejects' \in [Tables -> SUBSET Keys]
        /\ rejects'[t] = rejects[t] \cup p.typed
        /\ \A u \in Tables \ {t} : rejects'[u] = rejects[u]
    BY <1>5, <1>t, <1>w, <1>c DEF InsertBatchReject, TypeOK
  <2>3. TypeOK'
    BY <1>5, <1>t, <2>1, <2>2 DEF InsertBatchReject, TypeOK
  <2>4. BatchStep(w)
    BY <1>5, <1>w, <2>1, <2>2
    DEF InsertBatchReject, BatchStep, KeepsBatch, Working, Loading
  <2>5. BatchAccounted(w)'
    BY <1>5, <1>t, <1>w, <2>1, <2>2
    DEF InsertBatchReject, At, BatchAccounted, KeepsBatch, Table, Working,
        Loading
  <2> QED BY <2>3, <2>4, <2>5, BatchStepInv
<1>6. CASE RecordBatchFailure(w)
  <2> DEFINE l == "threshold"
  <2>0. l \in Labels /\ l \in Working
    BY DEF Labels, Working, Loading
  <2>1. /\ proc' \in [Workers -> Process] /\ KeepsBatch(w, l)
        /\ last' \in [Tables -> [rows : SUBSET Keys, rejected : Nat,
                                 processed : Nat]]
        /\ last'[t].rows = last[t].rows
        /\ \A u \in Tables \ {t} : last'[u] = last[u]
    BY <1>6, <1>t, <1>w, <1>c, <2>0, CountKeeps DEF RecordBatchFailure
  <2>2. /\ tab' \in [Tables -> TableStatuses] /\ tab'[t] = "LOADING"
        /\ \A u \in Tables \ {t} : tab'[u] = tab[u]
    BY <1>6, <1>t, <1>w, UpsertType DEF RecordBatchFailure, TableStatuses
  <2>3. TypeOK'
    BY <1>6, <1>t, <2>1, <2>2 DEF RecordBatchFailure, TypeOK
  <2>4. BatchStep(w)
    BY <1>6, <2>0, <2>1, <2>2 DEF RecordBatchFailure, BatchStep, KeepsBatch
  <2>5. BatchAccounted(w)'
    BY <1>6, <1>t, <1>w, <2>1, <2>2
    DEF RecordBatchFailure, At, BatchAccounted, KeepsBatch, Table, Working,
        Loading
  <2> QED BY <2>3, <2>4, <2>5, BatchStepInv
<1>7. CASE RecordWholeBatchFailure(w)
  <2> DEFINE l == "threshold"
  <2>0. l \in Labels /\ l \in Working
    BY DEF Labels, Working, Loading
  <2>1. /\ proc' \in [Workers -> Process] /\ KeepsBatch(w, l)
        /\ last' \in [Tables -> [rows : SUBSET Keys, rejected : Nat,
                                 processed : Nat]]
        /\ last'[t].rows = last[t].rows
        /\ \A u \in Tables \ {t} : last'[u] = last[u]
    BY <1>7, <1>t, <1>w, <1>c, <2>0, CountKeeps DEF RecordWholeBatchFailure
  <2>2. /\ tab' \in [Tables -> TableStatuses] /\ tab'[t] = "LOADING"
        /\ \A u \in Tables \ {t} : tab'[u] = tab[u]
    BY <1>7, <1>t, <1>w, UpsertType DEF RecordWholeBatchFailure, TableStatuses
  <2>3. TypeOK'
    BY <1>7, <1>t, <2>1, <2>2 DEF RecordWholeBatchFailure, TypeOK
  <2>4. BatchStep(w)
    BY <1>7, <2>0, <2>1, <2>2
    DEF RecordWholeBatchFailure, BatchStep, KeepsBatch
  <2>5. BatchAccounted(w)'
    BY <1>7, <1>t, <1>w, <2>1, <2>2
    DEF RecordWholeBatchFailure, At, BatchAccounted, KeepsBatch, Table,
        Working, Loading
  <2> QED BY <2>3, <2>4, <2>5, BatchStepInv
<1>8. CASE BulkLoads(w)
  <2>1. proc' \in [Workers -> Process] /\ KeepsBatch(w, "success")
    BY <1>8, <1>t, GotoKeeps DEF BulkLoads, AfterLoad, Labels
  <2>2. /\ canon' \in [Tables -> SUBSET Keys]
        /\ canon'[t] = canon[t] \cup p.typed
        /\ \A u \in Tables \ {t} : canon'[u] = canon[u]
    BY <1>8, <1>t, <1>w, <1>c DEF BulkLoads, TypeOK
  <2>3. TypeOK'
    BY <1>8, <1>t, <2>1, <2>2 DEF BulkLoads, TypeOK, auditVars
  <2>4. BatchStep(w)
    BY <1>8, <1>w, <2>1, <2>2
    DEF BulkLoads, BatchStep, KeepsBatch, Working, Loading, auditVars
  <2>5. BatchAccounted(w)'
    BY <1>8, <1>t, <1>w, <2>1, <2>2
    DEF BulkLoads, At, BatchAccounted, KeepsBatch, Table, Working, Loading,
        auditVars
  <2> QED BY <2>3, <2>4, <2>5, BatchStepInv
<1>9. CASE BulkFails(w)
  <2> DEFINE q == [p EXCEPT !.pc = "row", !.left = p.typed, !.stats = {}]
  <2>1. /\ q \in Process
        /\ q.pc = "row" /\ q.at = p.at /\ q.tables = p.tables /\ q.skip = p.skip
        /\ q.outcome = p.outcome /\ q.refused = p.refused /\ q.typed = p.typed
        /\ q.left = p.typed /\ q.stats = {}
    BY <1>w, <1>c DEF Process, Labels
  <2>a. Update(w, q)
    BY <1>9 DEF BulkFails
  <2> HIDE DEF q
  <2>2. /\ proc' \in [Workers -> Process] /\ proc'[w] = q
        /\ \A v \in Workers \ {w} : proc'[v] = proc[v]
    BY <1>t, <2>1, <2>a, UpdateType
  <2>3. /\ canon' \in [Tables -> SUBSET Keys]
        /\ \A u \in Tables \ {t} : canon'[u] = canon[u]
    BY <1>9, <1>t, <1>w, <1>c DEF BulkFails, TypeOK
  <2>4. TypeOK'
    BY <1>9, <1>t, <2>2, <2>3 DEF BulkFails, TypeOK, auditVars
  <2>5. BatchStep(w)
    BY <1>9, <1>w, <2>1, <2>2, <2>3
    DEF BulkFails, BatchStep, Working, Loading, auditVars
  <2>6. BatchAccounted(w)'
    BY <1>9, <1>t, <1>w, <2>1, <2>2
    DEF BulkFails, At, BatchAccounted, Table, Working, Loading, auditVars
  <2> QED BY <2>4, <2>5, <2>6, BatchStepInv
<1>10. ASSUME NEW r \in p.left, RowDone(w, r)
       PROVE  Inv' /\ Final
  <2> DEFINE rest == p.left \ {r}
             bad == p.stats \cup ({r} \cap p.unstorable)
             l == IF rest = {} THEN AfterLoad(bad) ELSE "row"
             q == [p EXCEPT !.pc = l, !.left = rest, !.stats = bad]
  <2>a. Update(w, q)
    BY <1>10 DEF RowDone
  <2>0. /\ l \in {"row", "rejects", "success"} /\ l \in Labels /\ l \in Working
        /\ l # "row" => rest = {}
        /\ l = "success" => bad = {}
    BY DEF AfterLoad, Labels, Working, Loading
  <2> HIDE DEF l
  <2>1. /\ q \in Process
        /\ q.pc = l /\ q.at = p.at /\ q.tables = p.tables /\ q.skip = p.skip
        /\ q.outcome = p.outcome /\ q.refused = p.refused /\ q.typed = p.typed
        /\ q.left = rest /\ q.stats = bad
    <3>1. rest \in SUBSET Keys /\ bad \in SUBSET Keys
      BY <1>c
    <3> HIDE DEF rest, bad
    <3> QED BY <1>w, <2>0, <3>1 DEF Process
  <2> HIDE DEF q
  <2>2. /\ proc' \in [Workers -> Process] /\ proc'[w] = q
        /\ \A v \in Workers \ {w} : proc'[v] = proc[v]
    BY <1>t, <2>1, <2>a, UpdateType
  <2>3. /\ canon' \in [Tables -> SUBSET Keys]
        /\ canon'[t] = canon[t] \cup ({r} \ p.unstorable)
        /\ \A u \in Tables \ {t} : canon'[u] = canon[u]
    BY <1>10, <1>t, <1>w, <1>c DEF RowDone, TypeOK
  <2>4. TypeOK'
    BY <1>10, <1>t, <2>2, <2>3 DEF RowDone, TypeOK, auditVars
  <2>5. BatchStep(w)
    BY <1>10, <1>w, <2>0, <2>1, <2>2, <2>3 DEF RowDone, BatchStep, auditVars
  <2>6. p.typed \subseteq rest \cup canon'[t] \cup bad
    BY <1>10, <1>t, <2>3 DEF RowDone, At, BatchAccounted
  <2>7. BatchAccounted(w)'
    BY <1>10, <1>t, <1>w, <2>0, <2>1, <2>2, <2>6
    DEF RowDone, At, BatchAccounted, Table, Working, Loading, auditVars
  <2> QED BY <2>4, <2>5, <2>7, BatchStepInv
<1>11. CASE RecordBatchSuccess(w)
  <2> DEFINE l == IF p.stats = {} THEN "threshold" ELSE "failure"
  <2>0. l \in Labels /\ l \in Working
    BY DEF Labels, Working, Loading
  <2>1. /\ proc' \in [Workers -> Process] /\ KeepsBatch(w, l)
        /\ last' \in [Tables -> [rows : SUBSET Keys, rejected : Nat,
                                 processed : Nat]]
        /\ last'[t].rows = last[t].rows
        /\ \A u \in Tables \ {t} : last'[u] = last[u]
    <3>1. CASE p.stats = {}
      <4>1. Count(w, 0, Cardinality(p.typed), l)
        BY <1>11, <3>1 DEF RecordBatchSuccess
      <4> QED BY <4>1, <1>t, <1>w, <1>c, <2>0, CountKeeps
    <3>2. CASE p.stats # {}
      <4>1. Goto(w, l) /\ last' = last
        BY <1>11, <3>2 DEF RecordBatchSuccess
      <4>2. proc' \in [Workers -> Process] /\ KeepsBatch(w, l)
        BY <4>1, <1>t, <2>0, GotoKeeps
      <4> QED BY <4>1, <4>2, <1>t DEF TypeOK
    <3> QED BY <3>1, <3>2
  <2>2. /\ tab' \in [Tables -> TableStatuses] /\ tab'[t] = "LOADING"
        /\ \A u \in Tables \ {t} : tab'[u] = tab[u]
    BY <1>11, <1>t, <1>w, UpsertType DEF RecordBatchSuccess, TableStatuses
  <2>3. TypeOK'
    BY <1>11, <1>t, <2>1, <2>2 DEF RecordBatchSuccess, TypeOK
  <2>4. BatchStep(w)
    BY <1>11, <2>0, <2>1, <2>2 DEF RecordBatchSuccess, BatchStep, KeepsBatch
  <2>5. BatchAccounted(w)'
    BY <1>11, <1>t, <1>w, <2>1, <2>2
    DEF RecordBatchSuccess, At, BatchAccounted, KeepsBatch, Table, Working,
        Loading
  <2> QED BY <2>3, <2>4, <2>5, BatchStepInv
<1>12. CASE CriticalError(w)
  <2>1. Owned(w) /\ p.pc \notin {"idle", "done", "unlock"}
    BY DEF Owned, Working, Loading
  <2>2. /\ Return(w, "ABORTED")
        /\ run' \in {run, [run EXCEPT !.status = "ABORTED"]}
        /\ UNCHANGED <<lock, tab, rejects, canon, last>>
    BY <1>12 DEF CriticalError, Abort, SafeAuditStatus
  <2>3. /\ canon' \in [Tables -> SUBSET Keys]
        /\ \A u \in Tables : canon'[u] = canon[u]
    BY <1>t, <2>2 DEF TypeOK
  <2> QED BY <2>1, <2>2, <2>3, ReturnInv
<1>13. CASE TransientError(w)
  <2>1. /\ canon' \in [Tables -> SUBSET Keys]
        /\ \A u \in Tables \ {t} : canon'[u] = canon[u]
        /\ canon[t] \subseteq canon'[t]
    BY <1>13, <1>t, <1>w, <1>c DEF TransientError, TypeOK
  <2>2. /\ UNCHANGED <<lock, rejects, last>>
        /\ p.pc \in {"row", "rejects", "success", "failure"}
    BY <1>13 DEF TransientError, InTry, At
  <2>3. CASE p.attempt + 1 > MaxAttempts
    <3>1. Owned(w) /\ p.pc \notin {"idle", "done", "unlock"}
      BY DEF Owned, Working, Loading
    <3>2. /\ Return(w, "ABORTED") /\ tab' = tab
          /\ run' \in {run, [run EXCEPT !.status = "ABORTED"]}
      BY <1>13, <2>3 DEF TransientError, Abort, SafeAuditStatus
    <3> QED BY <2>1, <2>2, <3>1, <3>2, ReturnInv
  <2>4. CASE ~(p.attempt + 1 > MaxAttempts)
    <3> DEFINE q == [p EXCEPT !.pc = "bulk", !.attempt = @ + 1,
                              !.left = {}, !.stats = {}]
    <3>1. Update(w, q) /\ run' = run /\ tab' = tab
      BY <1>13, <2>4 DEF TransientError
    <3>2. /\ q \in Process
          /\ q.pc = "bulk" /\ q.at = p.at /\ q.tables = p.tables
          /\ q.skip = p.skip /\ q.outcome = p.outcome
          /\ q.refused = p.refused /\ q.typed = p.typed
      <4>1. p.attempt + 1 \in 0..MaxAttempts
        BY <1>w, <2>4, EtlAssumption DEF Process
      <4>2. \A k \in 0..MaxAttempts :
              LET d == [p EXCEPT !.pc = "bulk", !.attempt = k,
                                 !.left = {}, !.stats = {}]
              IN /\ d \in Process
                 /\ d.pc = "bulk" /\ d.at = p.at /\ d.tables = p.tables
                 /\ d.skip = p.skip /\ d.outcome = p.outcome
                 /\ d.refused = p.refused /\ d.typed = p.typed
        BY <1>w DEF Process, Labels
      <4> QED BY <4>1, <4>2
    <3> HIDE DEF q
    <3>3. /\ proc' \in [Workers -> Process] /\ proc'[w] = q
          /\ \A v \in Workers \ {w} : proc'[v] = proc[v]
      BY <1>t, <3>1, <3>2, UpdateType
    <3>4. TypeOK'
      BY <1>t, <2>1, <2>2, <3>1, <3>3 DEF TypeOK
    <3>5. BatchStep(w)
      BY <1>w, <2>1, <2>2, <3>1, <3>2, <3>3 DEF BatchStep, Working, Loading
    <3>6. BatchAccounted(w)'
      BY <1>t, <1>w, <2>2, <3>1, <3>2, <3>3
      DEF BatchAccounted, Table, Working, Loading
    <3> QED BY <3>4, <3>5, <3>6, BatchStepInv
  <2> QED BY <2>3, <2>4
<1>14. CASE CheckThreshold(w)
  <2>1. At(w, "threshold") /\ UNCHANGED <<lock, rejects, canon, last>>
    BY <1>14 DEF CheckThreshold
  <2>2. CASE ShouldAbort(run.mode, p.rejected, p.processed)
    <3>1. Owned(w) /\ p.pc \notin {"idle", "done", "unlock"}
      BY DEF Owned, Working, Loading
    <3>2. /\ Return(w, "ABORTED") /\ tab' = tab
          /\ run' \in {run, [run EXCEPT !.status = "ABORTED"]}
      BY <1>14, <2>2 DEF CheckThreshold, Abort, SafeAuditStatus
    <3>3. /\ canon' \in [Tables -> SUBSET Keys]
          /\ \A u \in Tables : canon'[u] = canon[u]
      BY <1>t, <2>1 DEF TypeOK
    <3> QED BY <2>1, <3>1, <3>2, <3>3, ReturnInv
  <2>3. CASE ~ShouldAbort(run.mode, p.rejected, p.processed)
    <3>1. Goto(w, "validate") /\ run' = run /\ tab' = tab
      BY <1>14, <2>3 DEF CheckThreshold
    <3>2. proc' \in [Workers -> Process] /\ KeepsBatch(w, "validate")
      BY <1>t, <3>1, GotoKeeps DEF Labels
    <3>3. TypeOK'
      BY <1>t, <2>1, <3>1, <3>2 DEF TypeOK
    <3>4. BatchStep(w)
      BY <1>w, <2>1, <3>1, <3>2 DEF BatchStep, KeepsBatch, Working, Loading
    <3>5. BatchAccounted(w)'
      BY <1>t, <1>w, <2>1, <3>1, <3>2
      DEF At, BatchAccounted, KeepsBatch, Table, Working, Loading
    <3> QED BY <3>3, <3>4, <3>5, BatchStepInv
  <2> QED BY <2>2, <2>3
<1> QED
  BY <1>1, <1>2, <1>3, <1>4, <1>5, <1>6, <1>7, <1>8, <1>9, <1>10, <1>11,
     <1>12, <1>13, <1>14

-----------------------------------------------------------------------------
(* The steps with which a process ends.                                    *)
LEMMA StopActions ==
  ASSUME Inv, NEW w \in Workers,
         \/ LockContended(w) \/ ResumeRefused(w) \/ Crash(w)
         \/ ReleaseLock(w) \/ UnexpectedError(w) \/ FinishRun(w)
  PROVE  Inv' /\ Final
<1>t. TypeOK
  BY DEF Inv
<1>1. CASE LockContended(w)
  <2>1. /\ proc' \in [Workers -> Process]
        /\ proc'[w].pc = "done" /\ proc'[w].outcome = "LOCK_CONTENDED"
        /\ \A v \in Workers \ {w} : proc'[v] = proc[v]
    BY <1>1, <1>t, DoneStops DEF LockContended, Outcomes
  <2>2. TypeOK'
    BY <1>1, <1>t, <2>1 DEF LockContended, TypeOK, auditVars
  <2>3. StopStep(w)
    BY <1>1, <2>1 DEF LockContended, StopStep, At, auditVars
  <2> QED BY <2>2, <2>3, StopStepInv
<1>2. CASE ResumeRefused(w)
  <2>1. /\ proc' \in [Workers -> Process]
        /\ proc'[w].pc = "done" /\ proc'[w].outcome = "REFUSED"
        /\ \A v \in Workers \ {w} : proc'[v] = proc[v]
    BY <1>2, <1>t, DoneStops DEF ResumeRefused, Outcomes
  <2>2. TypeOK'
    BY <1>2, <1>t, <2>1 DEF ResumeRefused, TypeOK, auditVars
  <2>3. StopStep(w)
    BY <1>2, <2>1 DEF ResumeRefused, StopStep, At, auditVars
  <2> QED BY <2>2, <2>3, StopStepInv
<1>3. CASE Crash(w)
  <2>1. /\ proc' \in [Workers -> Process]
        /\ proc'[w].pc = "done" /\ proc'[w].outcome = "CRASHED"
        /\ \A v \in Workers \ {w} : proc'[v] = proc[v]
    BY <1>3, <1>t, DoneStops DEF Crash, Outcomes
  <2>2. TypeOK'
    BY <1>3, <1>t, <2>1 DEF Crash, TypeOK, auditVars
  <2>3. StopStep(w)
    BY <1>3, <2>1 DEF Crash, StopStep, At, auditVars
  <2> QED BY <2>2, <2>3, StopStepInv
<1>4. CASE ReleaseLock(w)
  <2>1. proc' \in [Workers -> Process] /\ KeepsBatch(w, "done")
    BY <1>4, <1>t, GotoKeeps DEF ReleaseLock, Labels
  <2>2. TypeOK'
    BY <1>4, <1>t, <2>1 DEF ReleaseLock, TypeOK, auditVars
  <2>3. StopStep(w)
    BY <1>4, <2>1
    DEF ReleaseLock, StopStep, KeepsBatch, At, auditVars, Inv,
        SuccessIsComplete
  <2> QED BY <2>2, <2>3, StopStepInv
<1>5. CASE UnexpectedError(w)
  <2>1. /\ proc[w].pc \notin {"idle", "done", "unlock"} /\ Return(w, "FAILED")
        /\ UNCHANGED <<lock, tab, rejects, canon, last>>
    BY <1>5 DEF UnexpectedError
  <2>2. /\ canon' \in [Tables -> SUBSET Keys]
        /\ \A t \in Tables : canon'[t] = canon[t]
    BY <1>t, <2>1 DEF TypeOK
  <2>3. CASE Owned(w)
    <3>1. run' \in {run, [run EXCEPT !.status = "FAILED"]}
      BY <1>5, <2>3 DEF UnexpectedError, SafeAuditStatus
    <3> QED BY <2>1, <2>2, <2>3, <3>1, ReturnInv
  <2>4. CASE ~Owned(w)
    <3>1. run' = run
      BY <1>5, <2>4 DEF UnexpectedError
    <3> QED BY <2>1, <2>2, <3>1, ReturnInv
  <2> QED BY <2>3, <2>4
<1>6. CASE FinishRun(w)
  <2>1. /\ proc' \in [Workers -> Process]
        /\ proc'[w].pc = "unlock" /\ proc'[w].tables = proc[w].tables
        /\ \A v \in Workers \ {w} : proc'[v] = proc[v]
    BY <1>6, <1>t, ReturnStops DEF FinishRun, Outcomes
  <2>2. Owned(w) /\ proc[w].pc = "next"
    BY <1>6 DEF FinishRun, At, Owned
  <2>3. run.status # "none" /\ LoopPlace(w)
    BY <2>2 DEF Inv, Local, RunExists
  <2>4. proc[w].tables \subseteq Validated
    <3>1. proc[w].at = Len(Manifest) + 1
      <4>1. proc[w].at \in 1..(Len(Manifest) + 1) /\ Len(Manifest) \in Nat
        BY <1>t, EtlAssumption, ProcessTypes DEF Process
      <4> QED BY <1>6, <4>1 DEF FinishRun
    <3>2. proc[w].at - 1 = Len(Manifest)
      BY <3>1, EtlAssumption
    <3>3. Passed(w) = Tables
      BY <3>2 DEF Passed, Tables
    <3>4. proc[w].tables \in SUBSET Tables
      BY <1>t, ProcessTypes
    <3> QED BY <2>2, <2>3, <3>3, <3>4 DEF LoopPlace
  <2>5. /\ run' \in [status : Statuses, mode : Modes \cup {"none"}]
        /\ run'.status = "SUCCESS"
    BY <1>6, <1>t DEF FinishRun, TypeOK, Statuses
  <2>6. TypeOK'
    BY <1>6, <1>t, <2>1, <2>5 DEF FinishRun, TypeOK
  <2>7. StopStep(w)
    BY <1>6, <2>1, <2>2, <2>3, <2>4, <2>5 DEF FinishRun, StopStep
  <2> QED BY <2>6, <2>7, StopStepInv
<1> QED BY <1>1, <1>2, <1>3, <1>4, <1>5, <1>6

(* A step of the table loop that leaves the tables as they are.            *)
LEMMA QuietStepInv ==
  ASSUME Inv, NEW w \in Workers, TypeOK', HoldsLock(w)', LoopPlace(w)',
         RunExists(w)', proc[w].pc \notin {"idle", "done"} \/ lock = NoOne,
         proc'[w].pc \in {"preflight", "attach", "next"},
         proc'[w].outcome = "SUCCESS" =>
           proc'[w].tables \subseteq Validated,
         \A v \in Workers \ {w} : proc'[v] = proc[v],
         run'.status = "none" => run.status = "none",
         UNCHANGED <<tab, rejects, canon, last>>
  PROVE  Inv' /\ Final
<1>1. Validated' = Validated
  BY DEF Validated
<1>2. BatchAccounted(w)'
  BY DEF BatchAccounted, Working, Loading
<1>3. \A v \in Workers : Local(v)'
  BY <1>2, OthersLocal DEF Local
<1>4. Final /\ ValidatedAccounted' /\ Untouched'
  BY <1>1 DEF Inv, Final, ValidatedAccounted, Untouched
<1>5. SuccessIsComplete'
  BY <1>1 DEF Inv, SuccessIsComplete
<1> QED BY <1>3, <1>4, <1>5 DEF Inv

(* The place of the loop after it has passed the current table.            *)
LEMMA PassedNext ==
  ASSUME NEW n \in 1..Len(Manifest)
  PROVE  /\ {Manifest[i] : i \in 1..((n + 1) - 1)} =
              {Manifest[i] : i \in 1..(n - 1)} \cup {Manifest[n]}
         /\ Manifest[n] \notin {Manifest[i] : i \in 1..(n - 1)}
<1>1. Len(Manifest) \in Nat
  BY EtlAssumption
<1>2. /\ 1..((n + 1) - 1) = 1..(n - 1) \cup {n}
      /\ \A i \in 1..(n - 1) : i # n /\ i \in 1..Len(Manifest)
  BY <1>1
<1>3. \A i \in 1..(n - 1) : Manifest[i] # Manifest[n]
  BY <1>2, EtlAssumption
<1> QED BY <1>2, <1>3

(* The steps of the table loop.                                            *)
LEMMA LoopActions ==
  ASSUME Inv, NEW w \in Workers,
         \/ \E resume \in BOOLEAN, tables \in SUBSET Tables \ {{}} :
              Invoke(w, resume, tables)
         \/ Preflight(w) \/ \E m \in Modes : CreateRun(w, m)
         \/ ResumeRun(w) \/ SkipTable(w) \/ StartTable(w) \/ ValidateTable(w)
  PROVE  Inv' /\ Final
<1> DEFINE t == Table(w)
           p == proc[w]
<1>t. TypeOK /\ Local(w)
  BY DEF Inv
<1>p. p \in Process
  BY <1>t, ProcessTypes
<1>l. Len(Manifest) \in Nat /\ p.at \in 1..(Len(Manifest) + 1)
  BY <1>p, EtlAssumption DEF Process
<1>s. p.outcome = "SUCCESS" => p.tables \subseteq Validated
  BY DEF Inv, SuccessIsComplete
<1>1. ASSUME NEW b \in BOOLEAN, NEW T \in SUBSET Tables, Invoke(w, b, T)
      PROVE  Inv' /\ Final
  <2> DEFINE q == [NewProcess EXCEPT !.pc = "preflight", !.resume = b,
                                     !.tables = T]
  <2>1. /\ q.pc = "preflight" /\ q.resume = b /\ q.at = 1 /\ q.skip = {}
        /\ q.outcome = "none"
    BY DEF NewProcess
  <2>2. q \in Process
    BY NewType DEF Process, Labels
  <2>3. Update(w, q)
    BY <1>1 DEF Invoke
  <2> HIDE DEF q
  <2>4. /\ proc' \in [Workers -> Process] /\ proc'[w] = q
        /\ \A v \in Workers \ {w} : proc'[v] = proc[v]
    BY <1>t, <2>2, <2>3, UpdateType
  <2>5. TypeOK'
    BY <1>1, <1>t, <2>4 DEF Invoke, TypeOK, auditVars
  <2>6. HoldsLock(w)' /\ LoopPlace(w)' /\ RunExists(w)'
    BY <1>1, <2>1, <2>4
    DEF Invoke, HoldsLock, LoopPlace, RunExists, Owned, auditVars
  <2> QED BY <1>1, <2>1, <2>4, <2>5, <2>6, QuietStepInv DEF Invoke, auditVars
<1>2. CASE Preflight(w)
  <2>1. proc' \in [Workers -> Process] /\ KeepsBatch(w, "attach")
    BY <1>2, <1>t, GotoKeeps DEF Preflight, Labels
  <2>2. TypeOK'
    BY <1>2, <1>t, <2>1 DEF Preflight, TypeOK, auditVars
  <2>3. HoldsLock(w)' /\ LoopPlace(w)' /\ RunExists(w)'
    BY <1>2, <1>t, <2>1
    DEF Preflight, At, Local, HoldsLock, LoopPlace, RunExists, Owned,
        KeepsBatch, auditVars
  <2> QED
    BY <1>2, <1>s, <2>1, <2>2, <2>3, QuietStepInv
    DEF Preflight, At, KeepsBatch, auditVars
<1>3. ASSUME NEW m \in Modes, CreateRun(w, m)
      PROVE  Inv' /\ Final
  <2>1. p.pc = "attach" /\ UNCHANGED <<lock, tab, rejects, canon, last>>
    BY <1>3 DEF CreateRun, At
  <2>2. CASE run.status # "none"
    <3>1. Return(w, "RUN_EXISTS") /\ run' = run
      BY <1>3, <2>2 DEF CreateRun
    <3>2. /\ canon' \in [Tables -> SUBSET Keys]
          /\ \A u \in Tables : canon'[u] = canon[u]
      BY <1>t, <2>1 DEF TypeOK
    <3>3. p.pc \notin {"idle", "done", "unlock"}
      BY <2>1
    <3> QED BY <2>1, <3>1, <3>2, <3>3, ReturnInv
  <2>3. CASE run.status = "none"
    <3>1. Goto(w, "next") /\ run' = [status |-> "RUNNING", mode |-> m]
      BY <1>3, <2>3 DEF CreateRun
    <3>2. proc' \in [Workers -> Process] /\ KeepsBatch(w, "next")
      BY <1>t, <3>1, GotoKeeps DEF Labels
    <3>3. TypeOK'
      BY <1>t, <2>1, <3>1, <3>2 DEF TypeOK, Statuses
    <3>4. Validated = {} /\ Validated' = {}
      BY <2>1, <2>3 DEF Inv, Untouched, Validated
    <3>5. proc'[w].at = 1 /\ proc'[w].skip = {} /\ proc'[w].pc = "next"
      BY <1>t, <2>1, <3>2 DEF Local, LoopPlace, KeepsBatch
    <3>6. Passed(w)' = {}
      BY <3>5 DEF Passed
    <3>7. LoopPlace(w)'
      BY <3>4, <3>5, <3>6 DEF LoopPlace
    <3>8. HoldsLock(w)' /\ RunExists(w)'
      BY <1>t, <2>1, <3>1, <3>5 DEF Local, HoldsLock, RunExists
    <3> QED
      BY <1>s, <2>1, <3>1, <3>2, <3>3, <3>7, <3>8, QuietStepInv DEF KeepsBatch
  <2> QED BY <2>2, <2>3
<1>4. CASE ResumeRun(w)
  <2> DEFINE q == [p EXCEPT !.pc = "next", !.skip = Validated]
  <2>1. /\ q \in Process /\ q.pc = "next" /\ q.skip = Validated /\ q.at = p.at
        /\ q.outcome = p.outcome /\ q.tables = p.tables
    <3>1. Validated \in SUBSET Tables
      BY DEF Validated
    <3> QED BY <1>p, <3>1 DEF Process, Labels
  <2>2. /\ Update(w, q) /\ p.pc = "attach" /\ p.resume
        /\ UNCHANGED <<lock, auditVars, canon, last>>
    BY <1>4 DEF ResumeRun, Validated, At
  <2> HIDE DEF q
  <2>3. /\ proc' \in [Workers -> Process] /\ proc'[w] = q
        /\ \A v \in Workers \ {w} : proc'[v] = proc[v]
    BY <1>t, <2>1, <2>2, UpdateType
  <2>4. TypeOK'
    BY <1>t, <2>2, <2>3 DEF TypeOK, auditVars
  <2>5. Validated' = Validated
    BY <2>2 DEF Validated, auditVars
  <2>6. proc'[w].at = 1 /\ proc'[w].skip = Validated /\ proc'[w].pc = "next"
    BY <1>t, <2>1, <2>2, <2>3 DEF Local, LoopPlace
  <2>7. Passed(w)' = {}
    BY <2>6 DEF Passed
  <2>8. LoopPlace(w)'
    BY <2>5, <2>6, <2>7 DEF LoopPlace
  <2>9. HoldsLock(w)' /\ RunExists(w)'
    BY <1>t, <2>2, <2>6 DEF Local, HoldsLock, RunExists, auditVars
  <2> QED
    BY <1>s, <2>1, <2>2, <2>3, <2>4, <2>8, <2>9, QuietStepInv DEF auditVars
<1>5. CASE SkipTable(w)
  <2> DEFINE q == [p EXCEPT !.at = p.at + 1]
  <2>a. /\ Update(w, q) /\ p.pc = "next" /\ p.at <= Len(Manifest) /\ ~ToDo(w)
        /\ UNCHANGED <<lock, auditVars, canon, last>>
    BY <1>5 DEF SkipTable, At
  <2>b. p.at \in 1..Len(Manifest) /\ p.at + 1 \in 1..(Len(Manifest) + 1)
    BY <1>l, <2>a
  <2>1. /\ q \in Process /\ q.pc = p.pc /\ q.skip = p.skip /\ q.at = p.at + 1
        /\ q.outcome = p.outcome /\ q.tables = p.tables
    BY <1>p, <2>b DEF Process
  <2> HIDE DEF q
  <2>3. /\ proc' \in [Workers -> Process] /\ proc'[w] = q
        /\ \A v \in Workers \ {w} : proc'[v] = proc[v]
    BY <1>t, <2>1, <2>a, UpdateType
  <2>4. TypeOK'
    BY <1>t, <2>a, <2>3 DEF TypeOK, auditVars
  <2>5. Validated' = Validated
    BY <2>a DEF Validated, auditVars
  <2>6. Passed(w)' = Passed(w) \cup {t}
    BY <2>1, <2>3, <2>b, PassedNext DEF Passed, Table
  <2>7. LoopPlace(w)'
    BY <1>t, <2>1, <2>3, <2>5, <2>6, <2>a DEF Local, LoopPlace, Owned, ToDo
  <2>8. HoldsLock(w)' /\ RunExists(w)'
    BY <1>t, <2>1, <2>3, <2>a DEF Local, HoldsLock, RunExists, Owned, auditVars
  <2> QED
    BY <1>s, <2>1, <2>a, <2>3, <2>4, <2>7, <2>8, QuietStepInv DEF auditVars
<1>6. CASE StartTable(w)
  <2>1. proc' \in [Workers -> Process] /\ KeepsBatch(w, "extract")
    BY <1>6, <1>t, GotoKeeps DEF StartTable, Labels
  <2>2. /\ p.pc = "next" /\ p.at <= Len(Manifest) /\ ToDo(w)
        /\ UNCHANGED <<lock, run, rejects, canon, last>>
    BY <1>6 DEF StartTable, At
  <2>3. p.at \in 1..Len(Manifest) /\ t \in Tables
    BY <1>l, <2>2 DEF Table, Tables
  <2>4. t \notin Validated
    <3>1. t \notin Passed(w)
      BY <2>3, PassedNext DEF Passed, Table
    <3> QED BY <1>t, <2>2, <3>1 DEF Local, LoopPlace, Owned, ToDo
  <2>5. /\ tab' \in [Tables -> TableStatuses] /\ tab'[t] = "EXTRACTING"
        /\ \A u \in Tables \ {t} : tab'[u] = tab[u]
    BY <1>6, <1>t, <2>3, UpsertType DEF StartTable, TableStatuses
  <2>6. Validated' = Validated
    BY <2>3, <2>4, <2>5 DEF Validated
  <2>7. TypeOK'
    BY <1>t, <2>1, <2>2, <2>5 DEF TypeOK
  <2>8. Passed(w)' = Passed(w)
    BY <2>1 DEF Passed, KeepsBatch
  <2>9. HoldsLock(w)' /\ RunExists(w)' /\ LoopPlace(w)'
    BY <1>t, <2>1, <2>2, <2>6, <2>8
    DEF Local, HoldsLock, RunExists, LoopPlace, Owned, KeepsBatch
  <2>10. BatchAccounted(w)'
    BY <2>1, <2>2, <2>5 DEF BatchAccounted, KeepsBatch, Table, Working, Loading
  <2>11. \A v \in Workers : Local(v)'
    BY <2>1, <2>2, <2>9, <2>10, OthersLocal DEF Local, KeepsBatch
  <2>12. Final /\ ValidatedAccounted' /\ Untouched'
    BY <2>2, <2>4, <2>5, <2>6
    DEF Inv, Final, ValidatedAccounted, Untouched, Validated
  <2>13. SuccessIsComplete'
    BY <2>1, <2>6 DEF Inv, SuccessIsComplete, KeepsBatch
  <2> QED BY <2>7, <2>11, <2>12, <2>13 DEF Inv
<1>7. CASE ValidateTable(w)
  <2> DEFINE q == [p EXCEPT !.pc = "next", !.at = p.at + 1,
                     !.refused = {}, !.typed = {}, !.unstorable = {},
                     !.left = {}, !.stats = {}, !.attempt = 0]
  <2>1. /\ Update(w, q) /\ p.pc = "validate" /\ Upsert(t, "VALIDATED")
        /\ UNCHANGED <<lock, run, rejects, canon, last>>
    BY <1>7 DEF ValidateTable, At
  <2>2. p.at \in 1..Len(Manifest) /\ t \in Tables /\ t \notin Validated
    BY <2>1, WorkingTable DEF Working
  <2>3. /\ q \in Process /\ q.pc = "next" /\ q.skip = p.skip
        /\ q.at = p.at + 1 /\ q.outcome = p.outcome /\ q.tables = p.tables
    <3>1. p.at + 1 \in 1..(Len(Manifest) + 1) /\ 0 \in 0..MaxAttempts
      BY <1>l, <2>2, EtlAssumption
    <3> QED BY <1>p, <3>1 DEF Process, Labels
  <2> HIDE DEF q
  <2>4. /\ proc' \in [Workers -> Process] /\ proc'[w] = q
        /\ \A v \in Workers \ {w} : proc'[v] = proc[v]
    BY <1>t, <2>1, <2>3, UpdateType
  <2>5. /\ tab' \in [Tables -> TableStatuses] /\ tab'[t] = "VALIDATED"
        /\ \A u \in Tables \ {t} : tab'[u] = tab[u]
    BY <1>t, <2>1, <2>2, UpsertType DEF TableStatuses
  <2>6. Validated' = Validated \cup {t}
    BY <2>2, <2>5 DEF Validated
  <2>7. TypeOK'
    BY <1>t, <2>1, <2>4, <2>5 DEF TypeOK
  <2>8. Passed(w)' = Passed(w) \cup {t}
    BY <2>2, <2>3, <2>4, PassedNext DEF Passed, Table
  <2>9. LoopPlace(w)'
    BY <1>t, <2>1, <2>3, <2>4, <2>6, <2>8 DEF Local, LoopPlace, Owned
  <2>10. HoldsLock(w)' /\ RunExists(w)' /\ run'.status # "none"
    BY <1>t, <2>1, <2>3, <2>4 DEF Local, HoldsLock, RunExists, Owned
  <2>11. BatchAccounted(w)'
    BY <2>3, <2>4 DEF BatchAccounted, Working, Loading
  <2>12. \A v \in Workers : Local(v)'
    BY <2>1, <2>4, <2>9, <2>10, <2>11, OthersLocal DEF Local
  <2>13. last[t].rows \subseteq canon[t] \cup rejects[t]
    BY <1>t, <2>1 DEF Local, BatchAccounted
  <2>14. Final /\ ValidatedAccounted' /\ Untouched'
    BY <2>1, <2>2, <2>5, <2>6, <2>10, <2>13
    DEF Inv, Final, ValidatedAccounted, Untouched, Validated
  <2>15. SuccessIsComplete'
    BY <2>3, <2>4, <2>6 DEF Inv, SuccessIsComplete
  <2> QED BY <2>7, <2>12, <2>14, <2>15 DEF Inv
<1> QED BY <1>1, <1>2, <1>3, <1>4, <1>5, <1>6, <1>7

-----------------------------------------------------------------------------
(* Nothing is started and nothing is stored at first.                      *)
LEMMA InitInv == Init => Inv
<1> SUFFICES ASSUME Init PROVE Inv
  OBVIOUS
<1>1. TypeOK
  <2>1. NoExtraction \in [rows : SUBSET Keys, rejected : Nat, processed : Nat]
    BY DEF NoExtraction
  <2> QED BY <2>1, NewType DEF Init, TypeOK, Statuses, TableStatuses
<1>2. \A w \in Workers : proc[w].pc = "idle" /\ proc[w].outcome = "none"
  BY DEF Init, NewProcess
<1>3. \A w \in Workers : Local(w)
  BY <1>2 DEF Local, HoldsLock, BatchAccounted, LoopPlace, RunExists, Owned,
              Working, Loading
<1>4. Validated = {}
  BY DEF Init, Validated
<1> QED
  BY <1>1, <1>2, <1>3, <1>4
  DEF Inv, Untouched, ValidatedAccounted, SuccessIsComplete

(* Every step keeps the invariant and the VALIDATED tables.                *)
LEMMA InvStep ==
  ASSUME Inv, [Next]_vars
  PROVE  Inv' /\ (Final \/ UNCHANGED vars)
<1>1. ASSUME NEW w \in Workers, Step(w)
      PROVE  Inv' /\ Final
  <2>1. CASE \/ Preflight(w) \/ \E m \in Modes : CreateRun(w, m)
             \/ ResumeRun(w) \/ SkipTable(w) \/ StartTable(w)
             \/ ValidateTable(w)
    BY <2>1, LoopActions
  <2>2. CASE UnexpectedError(w) \/ ReleaseLock(w) \/ FinishRun(w)
    BY <2>2, StopActions
  <2>3. CASE \/ \E A, B, C \in SUBSET Keys : Extract(w, A, B, C)
             \/ InsertTransformRejects(w) \/ RecordTransformFailure(w)
             \/ BulkLoads(w) \/ BulkFails(w)
             \/ \E r \in proc[w].left : RowDone(w, r)
             \/ InsertLoadRejects(w) \/ RecordBatchSuccess(w)
             \/ RecordBatchFailure(w) \/ CriticalError(w) \/ TransientError(w)
             \/ InsertBatchReject(w) \/ RecordWholeBatchFailure(w)
             \/ CheckThreshold(w)
    <3>1. proc[w].pc \in Working
      BY <2>3
      DEF Extract, InsertTransformRejects, RecordTransformFailure, BulkLoads,
          BulkFails, RowDone, InsertLoadRejects, RecordBatchSuccess,
          RecordBatchFailure, CriticalError, TransientError, InTry,
          InsertBatchReject, RecordWholeBatchFailure, CheckThreshold, At,
          Working, Loading
    <3> QED BY <2>3, <3>1, BatchActions
  <2> QED BY <1>1, <2>1, <2>2, <2>3 DEF Step
<1>2. CASE Next
  <2>1. PICK w \in Workers :
          \/ \E resume \in BOOLEAN, tables \in SUBSET Tables \ {{}} :
               Invoke(w, resume, tables)
          \/ LockContended(w) \/ ResumeRefused(w) \/ Step(w) \/ Crash(w)
    BY <1>2 DEF Next
  <2> QED BY <1>1, <2>1, LoopActions, StopActions
<1>3. CASE UNCHANGED vars
  <2>1. Validated' = Validated
    BY <1>3 DEF vars, Validated
  <2>2. ASSUME NEW w \in Workers PROVE Local(w)'
    <3>1. Local(w)
      BY DEF Inv
    <3>2. HoldsLock(w)' /\ RunExists(w)'
      BY <1>3, <3>1 DEF vars, Local, HoldsLock, RunExists, Owned
    <3>3. BatchAccounted(w)'
      BY <1>3, <3>1 DEF vars, Local, BatchAccounted, Table
    <3>4. LoopPlace(w)'
      BY <1>3, <2>1, <3>1 DEF vars, Local, LoopPlace, Owned, Passed
    <3> QED BY <3>2, <3>3, <3>4 DEF Local
  <2>3. TypeOK'
    BY <1>3 DEF Inv, vars, TypeOK
  <2> QED
    BY <1>3, <2>1, <2>2, <2>3
    DEF Inv, vars, Untouched, ValidatedAccounted, SuccessIsComplete
<1> QED BY <1>2, <1>3

(* The inductive invariant: the holder of the lock is the only process at  *)
(* work, and at every point of the batch loop the rows of the batch are    *)
(* where the next step expects them (run_orchestrator).                    *)
THEOREM EtlInvariant == Spec => []Inv
<1>1. Inv /\ [Next]_vars => Inv'
  BY InvStep
<1> QED BY InitInv, <1>1, PTL DEF Spec

(* Type correctness, with the bound on the retries of a batch              *)
(* (BackoffPolicy.max_attempts).                                           *)
THEOREM EtlTypes == Spec => []TypeOK
<1>1. Inv => TypeOK
  BY DEF Inv
<1> QED BY <1>1, EtlInvariant, PTL

(* For every manifest, source and number of processes, every row behind a  *)
(* VALIDATED table is loaded or stands in migration_rejects (load_batch,   *)
(* the batch loop of run_orchestrator).                                    *)
THEOREM NoRowLost == Spec => []ValidatedAccounted
<1>1. Inv => ValidatedAccounted
  BY DEF Inv
<1> QED BY <1>1, EtlInvariant, PTL

(* A process that returned SUCCESS has left every table it was asked for   *)
(* VALIDATED, for good (get_resume_state, the skip of VALIDATED tables).   *)
THEOREM SuccessComplete == Spec => []SuccessIsComplete
<1>1. Inv => SuccessIsComplete
  BY DEF Inv
<1> QED BY <1>1, EtlInvariant, PTL

(* No step of any process touches a VALIDATED table again: neither its     *)
(* state, nor its canonical rows, nor what its extraction came to.         *)
THEOREM ValidatedFinal == Spec => ValidatedIsFinal
<1>1. Inv /\ [Next]_vars =>
        [\A t \in Validated :
            tab'[t] = tab[t] /\ canon'[t] = canon[t] /\ last'[t] = last[t]]_vars
  BY InvStep DEF Final
<1> QED BY <1>1, EtlInvariant, PTL DEF Spec, ValidatedIsFinal

-----------------------------------------------------------------------------
(* Sums over a set                                                         *)

(* What MapThenSumSet computes: Sums(g, f, S) says that g gives the sum of *)
(* f over each subset of S, taken in the order in which CHOOSE picks.      *)
Pick(s) == CHOOSE x \in s : TRUE
Sums(g, f, S) ==
  g = [s \in SUBSET S |-> IF s = {} THEN 0 ELSE f[Pick(s)] + g[s \ {Pick(s)}]]
Total(f, S) == (CHOOSE g : Sums(g, f, S))[S]

(* A set of naturals that is not empty has a least member.                 *)
LEMMA LeastNatural ==
  ASSUME NEW D, D \subseteq Nat, D # {}
  PROVE  \E n \in D : \A m \in D : n <= m
<1> DEFINE below == {ss \in Nat \X Nat : ss[1] < ss[2]}
<1>1. IsWellFoundedOn(below, Nat)
  BY NatLessThanWellFounded, Zenon DEF OpToRel
<1>2. \A k, m \in Nat : k < m => <<k, m>> \in below
  OBVIOUS
<1> HIDE DEF below
<1>3. PICK n \in D : \A m \in D : ~(<<m, n>> \in below)
  BY <1>1, WFMin
<1>4. \A m \in D : m \in Nat /\ n \in Nat /\ ~(m < n)
  BY <1>2, <1>3
<1> QED BY <1>3, <1>4

(* The least counterexample of a statement about finite sets: it holds of  *)
(* every smaller one.                                                      *)
LEMMA LeastFiniteSet ==
  ASSUME NEW C, C # {}, \A s \in C : IsFiniteSet(s)
  PROVE  \E s \in C : \A r \in C : Cardinality(s) <= Cardinality(r)
<1> DEFINE D == {Cardinality(s) : s \in C}
<1>1. D \subseteq Nat /\ D # {}
  BY FS_CardinalityType
<1>2. PICK n \in D : \A m \in D : n <= m
  BY <1>1, LeastNatural
<1> QED BY <1>2

(* Removing an element makes a finite set smaller.                         *)
LEMMA Smaller ==
  ASSUME NEW s, IsFiniteSet(s), NEW x \in s
  PROVE  IsFiniteSet(s \ {x}) /\ ~(Cardinality(s) <= Cardinality(s \ {x}))
<1>1. IsFiniteSet(s \ {x}) /\ Cardinality(s \ {x}) = Cardinality(s) - 1 /\ Cardinality(s) \in Nat
  BY FS_RemoveElement, FS_CardinalityType
<1> QED BY <1>1

(* CHOOSE picks an element.                                                *)
LEMMA PickIn == ASSUME NEW s, s # {} PROVE Pick(s) \in s
BY DEF Pick

(* The two cases of the recursion.                                         *)
LEMMA SumsAt ==
  ASSUME NEW g, NEW f, NEW S, Sums(g, f, S), NEW s \in SUBSET S
  PROVE  g[s] = IF s = {} THEN 0 ELSE f[Pick(s)] + g[s \ {Pick(s)}]
BY DEF Sums

(* The recursion has one solution.                                         *)
LEMMA SumsUnique ==
  ASSUME NEW f, NEW g, NEW h, NEW S, NEW T, Sums(g, f, S), Sums(h, f, T),
         NEW s \in SUBSET S, s \in SUBSET T, IsFiniteSet(s)
  PROVE  g[s] = h[s]
<1> DEFINE C == {r \in SUBSET s : g[r] # h[r]}
<1> SUFFICES ASSUME C # {} PROVE FALSE
  OBVIOUS
<1>1. \A r \in C : IsFiniteSet(r)
  BY FS_Subset
<1>2. PICK r \in C : \A q \in C : Cardinality(r) <= Cardinality(q)
  BY <1>1, LeastFiniteSet
<1>3. r \in SUBSET S /\ r \in SUBSET T /\ g[r] # h[r] /\ IsFiniteSet(r)
  BY <1>1, <1>2
<1>4. r # {}
  BY <1>3, SumsAt
<1>5. Pick(r) \in r
  BY <1>4, PickIn
<1>6. r \ {Pick(r)} \notin C
  BY <1>2, <1>3, <1>5, Smaller
<1>7. g[r \ {Pick(r)}] = h[r \ {Pick(r)}]
  BY <1>2, <1>6
<1> QED BY <1>3, <1>4, <1>7, SumsAt

(* The recursion has a solution.                                           *)
LEMMA SumsExist ==
  ASSUME NEW f, NEW S, IsFiniteSet(S)
  PROVE  \E g : Sums(g, f, S)
<1> DEFINE C == {s \in SUBSET S : ~ \E g : Sums(g, f, s)}
<1> SUFFICES ASSUME C # {} PROVE FALSE
  OBVIOUS
<1>1. \A r \in C : IsFiniteSet(r)
  BY FS_Subset
<1>2. PICK r \in C : \A q \in C : Cardinality(r) <= Cardinality(q)
  BY <1>1, LeastFiniteSet
<1>3. r \in SUBSET S /\ IsFiniteSet(r) /\ ~ \E g : Sums(g, f, r)
  BY <1>1, <1>2
<1>4. \A s \in SUBSET r : s # {} =>
        /\ IsFiniteSet(s \ {Pick(s)})
        /\ \E g : Sums(g, f, s \ {Pick(s)})
  <2> SUFFICES ASSUME NEW s \in SUBSET r, s # {}
               PROVE  IsFiniteSet(s \ {Pick(s)}) /\ s \ {Pick(s)} \notin C
    BY <1>3
  <2>1. IsFiniteSet(s) /\ Cardinality(s) <= Cardinality(r) /\ Pick(s) \in s
    BY <1>3, FS_Subset, PickIn
  <2>2. IsFiniteSet(s \ {Pick(s)}) /\ ~(Cardinality(s) <= Cardinality(s \ {Pick(s)}))
    BY <2>1, Smaller
  <2>3. Cardinality(s) \in Nat /\ Cardinality(r) \in Nat /\ Cardinality(s \ {Pick(s)}) \in Nat
    BY <1>3, <2>1, <2>2, FS_CardinalityType
  <2>4. ~(Cardinality(r) <= Cardinality(s \ {Pick(s)}))
    BY <2>1, <2>2, <2>3
  <2> QED BY <1>2, <2>2, <2>4
<1>5. PICK k : k = [s \in SUBSET r |-> IF s = {} THEN 0
                                       ELSE f[Pick(s)] + Total(f, s \ {Pick(s)})]
  OBVIOUS
<1>6. \A s \in SUBSET r : s # {} => k[s \ {Pick(s)}] = Total(f, s \ {Pick(s)})
  <2> SUFFICES ASSUME NEW s \in SUBSET r, s # {}
               PROVE  k[s \ {Pick(s)}] = Total(f, s \ {Pick(s)})
    OBVIOUS
  <2> DEFINE q == s \ {Pick(s)}
  <2>1. q \in SUBSET r /\ IsFiniteSet(q) /\ \E g : Sums(g, f, q)
    BY <1>4
  <2> HIDE DEF q
  <2>2. PICK h : Sums(h, f, q) /\ Total(f, q) = h[q]
    BY <2>1 DEF Total
  <2>3. h[q] = IF q = {} THEN 0 ELSE f[Pick(q)] + h[q \ {Pick(q)}]
    BY <2>2, SumsAt
  <2>4. CASE q = {}
    BY <1>5, <2>1, <2>2, <2>3, <2>4 DEF q
  <2>5. CASE q # {}
    <3> DEFINE p == q \ {Pick(q)}
    <3>1. p \in SUBSET q /\ IsFiniteSet(p) /\ \E g : Sums(g, f, p)
      BY <1>4, <2>1, <2>5
    <3> HIDE DEF p
    <3>2. PICK j : Sums(j, f, p) /\ Total(f, p) = j[p]
      BY <3>1 DEF Total
    <3>3. p \in SUBSET p
      OBVIOUS
    <3>4. h[p] = j[p]
      BY <2>2, <3>1, <3>2, <3>3, SumsUnique
    <3>5. k[q] = f[Pick(q)] + Total(f, p)
      BY <1>5, <2>1, <2>5 DEF p
    <3>6. h[q] = f[Pick(q)] + h[p]
      BY <2>3, <2>5 DEF p
    <3> QED BY <2>2, <3>2, <3>4, <3>5, <3>6 DEF q
  <2> QED BY <2>4, <2>5
<1>7. Sums(k, f, r)
  BY <1>5, <1>6 DEF Sums
<1> QED BY <1>3, <1>7

(* The recursion, for the sums themselves.                                 *)
LEMMA TotalRec ==
  ASSUME NEW f, NEW S, IsFiniteSet(S)
  PROVE  Total(f, S) = IF S = {} THEN 0 ELSE f[Pick(S)] + Total(f, S \ {Pick(S)})
<1>1. PICK g : Sums(g, f, S) /\ Total(f, S) = g[S]
  BY SumsExist DEF Total
<1>2. S \in SUBSET S
  OBVIOUS
<1>3. g[S] = IF S = {} THEN 0 ELSE f[Pick(S)] + g[S \ {Pick(S)}]
  BY <1>1, <1>2, SumsAt
<1>4. ASSUME S # {} PROVE g[S \ {Pick(S)}] = Total(f, S \ {Pick(S)})
  <2> DEFINE q == S \ {Pick(S)}
  <2>1. IsFiniteSet(q) /\ q \in SUBSET S /\ q \in SUBSET q
    BY FS_Subset
  <2>2. PICK h : Sums(h, f, q) /\ Total(f, q) = h[q]
    BY <2>1, SumsExist DEF Total
  <2>3. g[q] = h[q]
    BY <1>1, <2>1, <2>2, SumsUnique
  <2> QED BY <2>2, <2>3
<1> QED BY <1>1, <1>3, <1>4

(* A sum of naturals is a natural.                                         *)
LEMMA TotalNat ==
  ASSUME NEW f, NEW S, IsFiniteSet(S), \A x \in S : f[x] \in Nat
  PROVE  Total(f, S) \in Nat
<1> DEFINE C == {s \in SUBSET S : Total(f, s) \notin Nat}
<1> SUFFICES ASSUME C # {} PROVE FALSE
  OBVIOUS
<1>1. \A r \in C : IsFiniteSet(r)
  BY FS_Subset
<1>2. PICK r \in C : \A q \in C : Cardinality(r) <= Cardinality(q)
  BY <1>1, LeastFiniteSet
<1>3. r \in SUBSET S /\ IsFiniteSet(r) /\ Total(f, r) \notin Nat
  BY <1>1, <1>2
<1>4. r # {} /\ Pick(r) \in r /\ Total(f, r) = f[Pick(r)] + Total(f, r \ {Pick(r)})
  <2>1. r = {} => Total(f, r) = 0
    BY <1>3, TotalRec
  <2> QED BY <1>3, <2>1, TotalRec, PickIn
<1>5. r \ {Pick(r)} \notin C
  BY <1>2, <1>3, <1>4, Smaller
<1>6. Total(f, r \ {Pick(r)}) \in Nat /\ f[Pick(r)] \in Nat
  BY <1>3, <1>4, <1>5
<1> QED BY <1>3, <1>4, <1>6

(* The order of the summands does not matter.                              *)
LEMMA TotalRemove ==
  ASSUME NEW f, NEW S, IsFiniteSet(S), \A y \in S : f[y] \in Nat, NEW x \in S
  PROVE  Total(f, S) = f[x] + Total(f, S \ {x})
<1> DEFINE C == {s \in SUBSET S : \E y \in s : Total(f, s) # f[y] + Total(f, s \ {y})}
<1> SUFFICES ASSUME C # {} PROVE FALSE
  OBVIOUS
<1>1. \A r \in C : IsFiniteSet(r)
  BY FS_Subset
<1>2. PICK r \in C : \A q \in C : Cardinality(r) <= Cardinality(q)
  BY <1>1, LeastFiniteSet
<1>3. r \in SUBSET S /\ IsFiniteSet(r) /\ r # {}
  BY <1>1, <1>2
<1>4. PICK y \in r : Total(f, r) # f[y] + Total(f, r \ {y})
  BY <1>2
<1> DEFINE c == Pick(r)
           rest == (r \ {c}) \ {y}
<1>5. c \in r /\ Total(f, r) = f[c] + Total(f, r \ {c})
  BY <1>3, TotalRec, PickIn
<1>6. c # y
  BY <1>4, <1>5
<1>7. r \ {c} \notin C /\ r \ {y} \notin C
  BY <1>2, <1>3, <1>4, <1>5, Smaller
<1> HIDE DEF c
<1>8. y \in r \ {c} /\ c \in r \ {y} /\ (r \ {y}) \ {c} = rest
  BY <1>4, <1>5, <1>6
<1>9. Total(f, r \ {c}) = f[y] + Total(f, rest)
  BY <1>3, <1>7, <1>8
<1>10. Total(f, r \ {y}) = f[c] + Total(f, rest)
  BY <1>3, <1>7, <1>8
<1>11. f[c] \in Nat /\ f[y] \in Nat /\ Total(f, rest) \in Nat
  <2>1. IsFiniteSet(rest) /\ \A z \in rest : f[z] \in Nat
    BY <1>3, FS_Subset
  <2> QED BY <1>3, <1>4, <1>5, <2>1, TotalNat
<1> HIDE DEF rest
<1>12. f[c] + (f[y] + Total(f, rest)) = f[y] + (f[c] + Total(f, rest))
  BY <1>11
<1> QED BY <1>4, <1>5, <1>9, <1>10, <1>12

(* The sum looks at the members of the set alone.                          *)
LEMMA TotalSame ==
  ASSUME NEW f, NEW h, NEW S, IsFiniteSet(S), \A x \in S : f[x] = h[x]
  PROVE  Total(f, S) = Total(h, S)
<1> DEFINE C == {s \in SUBSET S : Total(f, s) # Total(h, s)}
<1> SUFFICES ASSUME C # {} PROVE FALSE
  OBVIOUS
<1>1. \A r \in C : IsFiniteSet(r)
  BY FS_Subset
<1>2. PICK r \in C : \A q \in C : Cardinality(r) <= Cardinality(q)
  BY <1>1, LeastFiniteSet
<1>3. r \in SUBSET S /\ IsFiniteSet(r) /\ Total(f, r) # Total(h, r)
  BY <1>1, <1>2
<1>4. r # {} /\ Pick(r) \in r
  <2>1. r = {} => Total(f, r) = 0 /\ Total(h, r) = 0
    BY <1>3, TotalRec
  <2> QED BY <1>3, <2>1, PickIn
<1>5. /\ Total(f, r) = f[Pick(r)] + Total(f, r \ {Pick(r)})
      /\ Total(h, r) = h[Pick(r)] + Total(h, r \ {Pick(r)})
  BY <1>3, <1>4, TotalRec
<1>6. r \ {Pick(r)} \notin C
  BY <1>2, <1>3, <1>4, Smaller
<1> QED BY <1>3, <1>4, <1>5, <1>6

-----------------------------------------------------------------------------
(* The reject limit                                                        *)

RejectedOf == [t \in Tables |-> last[t].rejected]
ProcessedOf == [t \in Tables |-> last[t].processed]

(* Totals that ThresholdPolicy accepts.                                    *)
Within(mode, rejected, processed) ==
  /\ mode = "final_delta" => rejected = 0
  /\ mode \in {"initial", "reconcile_only"} =>
       rejected * RatioDen <= RatioNum * processed

(* The places at which rejected_total counts the table in work.            *)
Tallying == Working \ {"extract"}

(* A process's totals are those of the tables validated since it attached  *)
(* to the run, and of the one in work; what it skips was within the limit  *)
(* when it attached.                                                       *)
Counted(w) ==
  LET p == proc[w]
      t == Table(w)
  IN
  /\ p.pc \in {"preflight", "attach"} => p.rejected = 0 /\ p.processed = 0
  /\ p.pc \in Tallying => p.stats \subseteq p.typed
  /\ p.pc = "row" => p.left \subseteq p.typed
  /\ Owned(w) =>
       /\ p.rejected <= p.processed
       /\ Within(run.mode, Total(RejectedOf, p.skip), Total(ProcessedOf, p.skip))
  /\ p.pc \in {"next", "extract"} =>
       /\ Total(RejectedOf, Validated) = Total(RejectedOf, p.skip) + p.rejected
       /\ Total(ProcessedOf, Validated) = Total(ProcessedOf, p.skip) + p.processed
  /\ p.pc \in Tallying =>
       /\ Total(RejectedOf, Validated) + last[t].rejected
            = Total(RejectedOf, p.skip) + p.rejected
       /\ Total(ProcessedOf, Validated) + last[t].processed
            = Total(ProcessedOf, p.skip) + p.processed
  /\ p.pc \in {"next", "extract", "validate"} =>
       Within(run.mode, p.rejected, p.processed)

ValidatedWithin ==
  Within(run.mode, Total(RejectedOf, Validated), Total(ProcessedOf, Validated))

LimitInv == Inv /\ (\A w \in Workers : Counted(w)) /\ ValidatedWithin

(* A manifest is finite, and so is every set of its tables.                *)
LEMMA TablesFinite == IsFiniteSet(Tables) /\ \A S \in SUBSET Tables : IsFiniteSet(S)
<1>1. IsFiniteSet(1..Len(Manifest))
  BY EtlAssumption, FS_Interval
<1>2. [i \in 1..Len(Manifest) |-> Manifest[i]] \in Surjection(1..Len(Manifest), Tables)
  BY DEF Surjection, Tables
<1>3. IsFiniteSet(Tables)
  BY <1>1, <1>2, FS_Surjection
<1> QED BY <1>3, FS_Subset

(* The sums of the property.                                               *)
LEMMA SumsAreTotals ==
  ASSUME NEW S \in SUBSET Tables
  PROVE  /\ MapThenSumSet(LAMBDA t : last[t].rejected, S) = Total(RejectedOf, S)
         /\ MapThenSumSet(LAMBDA t : last[t].processed, S) = Total(ProcessedOf, S)
<1>0. IsFiniteSet(S) /\ S \in SUBSET S
  BY TablesFinite
<1>1. MapThenSumSet(LAMBDA t : last[t].rejected, S) = Total(RejectedOf, S)
  <2> DEFINE Form(g) == g = [s \in SUBSET S |->
                 IF s = {} THEN 0 ELSE last[Pick(s)].rejected + g[s \ {Pick(s)}]]
  <2>1. MapThenSumSet(LAMBDA t : last[t].rejected, S) = (CHOOSE g : Form(g))[S]
    BY DEF MapThenSumSet, MapThenFoldSet, Pick
  <2>2. \A g : Form(g) <=> Sums(g, RejectedOf, S)
    <3>1. \A s \in SUBSET S : s # {} => RejectedOf[Pick(s)] = last[Pick(s)].rejected
      BY PickIn DEF RejectedOf
    <3> QED BY <3>1 DEF Sums
  <2> HIDE DEF Form
  <2>3. PICK g : Form(g) /\ (CHOOSE k : Form(k))[S] = g[S]
    BY <1>0, <2>2, SumsExist
  <2>4. PICK h : Sums(h, RejectedOf, S) /\ Total(RejectedOf, S) = h[S]
    BY <1>0, SumsExist DEF Total
  <2>5. g[S] = h[S]
    BY <1>0, <2>2, <2>3, <2>4, SumsUnique
  <2> QED BY <2>1, <2>3, <2>4, <2>5, Zenon
<1>2. MapThenSumSet(LAMBDA t : last[t].processed, S) = Total(ProcessedOf, S)
  <2> DEFINE Form(g) == g = [s \in SUBSET S |->
                 IF s = {} THEN 0 ELSE last[Pick(s)].processed + g[s \ {Pick(s)}]]
  <2>1. MapThenSumSet(LAMBDA t : last[t].processed, S) = (CHOOSE g : Form(g))[S]
    BY DEF MapThenSumSet, MapThenFoldSet, Pick
  <2>2. \A g : Form(g) <=> Sums(g, ProcessedOf, S)
    <3>1. \A s \in SUBSET S : s # {} => ProcessedOf[Pick(s)] = last[Pick(s)].processed
      BY PickIn DEF ProcessedOf
    <3> QED BY <3>1 DEF Sums
  <2> HIDE DEF Form
  <2>3. PICK g : Form(g) /\ (CHOOSE k : Form(k))[S] = g[S]
    BY <1>0, <2>2, SumsExist
  <2>4. PICK h : Sums(h, ProcessedOf, S) /\ Total(ProcessedOf, S) = h[S]
    BY <1>0, SumsExist DEF Total
  <2>5. g[S] = h[S]
    BY <1>0, <2>2, <2>3, <2>4, SumsUnique
  <2> QED BY <2>1, <2>3, <2>4, <2>5, Zenon
<1> QED BY <1>1, <1>2, Zenon

(* The totals of a set of tables, and what one table adds to them.         *)
LEMMA TotalTypes ==
  ASSUME TypeOK
  PROVE  \A S \in SUBSET Tables :
           /\ Total(RejectedOf, S) \in Nat /\ Total(ProcessedOf, S) \in Nat
           /\ S = {} => Total(RejectedOf, S) = 0 /\ Total(ProcessedOf, S) = 0
           /\ \A x \in S :
                /\ Total(RejectedOf, S) = last[x].rejected + Total(RejectedOf, S \ {x})
                /\ Total(ProcessedOf, S) = last[x].processed + Total(ProcessedOf, S \ {x})
<1> TAKE S \in SUBSET Tables
<1>1. /\ IsFiniteSet(S)
      /\ \A x \in S : /\ RejectedOf[x] \in Nat /\ RejectedOf[x] = last[x].rejected
                      /\ ProcessedOf[x] \in Nat /\ ProcessedOf[x] = last[x].processed
  BY TablesFinite DEF TypeOK, RejectedOf, ProcessedOf
<1>2. Total(RejectedOf, S) \in Nat /\ Total(ProcessedOf, S) \in Nat
  BY <1>1, TotalNat
<1>3. S = {} => Total(RejectedOf, S) = 0 /\ Total(ProcessedOf, S) = 0
  BY <1>1, TotalRec
<1>4. \A x \in S : /\ Total(RejectedOf, S) = RejectedOf[x] + Total(RejectedOf, S \ {x})
                   /\ Total(ProcessedOf, S) = ProcessedOf[x] + Total(ProcessedOf, S \ {x})
  BY <1>1, TotalRemove
<1> QED BY <1>1, <1>2, <1>3, <1>4

(* What was counted of VALIDATED tables stays.                             *)
LEMMA TotalsStay ==
  ASSUME Final, NEW S, S \subseteq Validated
  PROVE  /\ Total(RejectedOf', S) = Total(RejectedOf, S)
         /\ Total(ProcessedOf', S) = Total(ProcessedOf, S)
<1>1. /\ IsFiniteSet(S)
      /\ \A x \in S : RejectedOf'[x] = RejectedOf[x] /\ ProcessedOf'[x] = ProcessedOf[x]
  BY TablesFinite DEF Final, RejectedOf, ProcessedOf, Validated
<1> QED BY <1>1, TotalSame

(* Two totals within the limit add up to one within it.                    *)
LEMMA WithinAdds ==
  ASSUME NEW mode, NEW a \in Nat, NEW b \in Nat, NEW c \in Nat, NEW d \in Nat,
         Within(mode, a, b), Within(mode, c, d)
  PROVE  Within(mode, a + c, b + d)
<1>1. RatioDen \in Nat /\ RatioNum \in Nat
  BY EtlAssumption
<1>2. (a + c) * RatioDen = a * RatioDen + c * RatioDen
  BY <1>1
<1>3. RatioNum * (b + d) = RatioNum * b + RatioNum * d
  BY <1>1
<1>4. /\ a * RatioDen \in Int /\ c * RatioDen \in Int
      /\ RatioNum * b \in Int /\ RatioNum * d \in Int
  BY <1>1
<1>5. CASE mode \in {"initial", "reconcile_only"}
  BY <1>2, <1>3, <1>4, <1>5 DEF Within
<1>6. CASE mode \notin {"initial", "reconcile_only"}
  BY <1>6 DEF Within
<1> QED BY <1>5, <1>6

-----------------------------------------------------------------------------
(* Nothing is counted of a process that is not at work.                    *)
LEMMA StoppedIsCounted ==
  ASSUME NEW v \in Workers, (proc[v].pc)' \in {"idle", "unlock", "done"}
  PROVE  Counted(v)'
BY DEF Counted, Owned, Tallying, Working, Loading

(* The others hold no lock and count nothing.                              *)
LEMMA OthersCounted ==
  ASSUME Inv, NEW w \in Workers,
         proc[w].pc \notin {"idle", "done"} \/ lock = NoOne,
         \A v \in Workers \ {w} : proc'[v] = proc[v]
  PROVE  \A v \in Workers \ {w} : Counted(v)'
<1> SUFFICES ASSUME NEW v \in Workers \ {w} PROVE Counted(v)'
  OBVIOUS
<1>1. proc[v].pc \in {"idle", "done"}
  BY OthersStopped
<1> QED BY <1>1, StoppedIsCounted

(* The limit over the VALIDATED tables is safe while they stay.            *)
LEMMA ValidatedWithinStays ==
  ASSUME ValidatedWithin, Final, Validated' = Validated, run'.mode = run.mode
  PROVE  ValidatedWithin'
<1>1. /\ Total(RejectedOf', Validated) = Total(RejectedOf, Validated)
      /\ Total(ProcessedOf', Validated) = Total(ProcessedOf, Validated)
  BY TotalsStay
<1> QED BY <1>1 DEF ValidatedWithin, Within

(* A process that ends takes its totals with it.                           *)
LEMMA StopCounted ==
  ASSUME LimitInv, Inv', Final, NEW w \in Workers,
         proc'[w].pc \in {"unlock", "done"},
         \A v \in Workers \ {w} : proc'[v] = proc[v],
         \/ proc[w].pc \notin {"idle", "done"}
         \/ proc[w].pc = "idle" /\ UNCHANGED <<lock, run, last>>,
         run'.mode = run.mode, tab' = tab
  PROVE  LimitInv'
<1>1. Validated' = Validated
  BY DEF Validated
<1>2. Counted(w)'
  BY StoppedIsCounted
<1>3. \A v \in Workers \ {w} : Counted(v)'
  <2>1. CASE proc[w].pc \notin {"idle", "done"}
    BY <2>1, OthersCounted DEF LimitInv
  <2>2. CASE proc[w].pc = "idle" /\ UNCHANGED <<lock, run, last>>
    <3> SUFFICES ASSUME NEW v \in Workers \ {w} PROVE Counted(v)'
      OBVIOUS
    <3>1. Counted(v) /\ proc'[v] = proc[v] /\ run' = run /\ last' = last
      BY <2>2 DEF LimitInv
    <3>2. RejectedOf' = RejectedOf /\ ProcessedOf' = ProcessedOf
      BY <3>1 DEF RejectedOf, ProcessedOf
    <3> QED BY <1>1, <3>1, <3>2 DEF Counted, Owned, Table, Within
  <2> QED BY <2>1, <2>2
<1> QED BY <1>1, <1>2, <1>3, ValidatedWithinStays DEF LimitInv

(* A step on the batch that counts n rejected of m processed rows.         *)
LEMMA TallyCounted ==
  ASSUME LimitInv, Inv', Final, NEW w \in Workers,
         NEW n \in Nat, NEW m \in Nat, n <= m,
         proc[w].pc \in Tallying, proc'[w].pc \in Tallying,
         \A v \in Workers \ {w} : proc'[v] = proc[v],
         run' = run, Validated' = Validated,
         proc'[w].at = proc[w].at, proc'[w].skip = proc[w].skip,
         proc'[w].rejected = proc[w].rejected + n,
         proc'[w].processed = proc[w].processed + m,
         last'[Table(w)].rejected = last[Table(w)].rejected + n,
         last'[Table(w)].processed = last[Table(w)].processed + m,
         proc'[w].stats \subseteq proc'[w].typed,
         proc'[w].pc = "row" => proc'[w].left \subseteq proc'[w].typed,
         proc'[w].pc = "validate" =>
           Within(run.mode, proc'[w].rejected, proc'[w].processed)
  PROVE  LimitInv'
<1> DEFINE t == Table(w)
           k == proc[w].skip
<1>1. /\ TypeOK /\ Counted(w) /\ Owned(w) /\ Owned(w)' /\ Table(w)' = t
      /\ proc[w].pc \notin {"idle", "done"} /\ t \in Tables
  BY WorkingTable
  DEF LimitInv, Inv, Tallying, Working, Loading, Owned, Table
<1>2. k \subseteq Validated /\ Validated \in SUBSET Tables
  BY <1>1 DEF LimitInv, Inv, Local, LoopPlace, Validated
<1>3. /\ Total(RejectedOf', Validated) = Total(RejectedOf, Validated)
      /\ Total(ProcessedOf', Validated) = Total(ProcessedOf, Validated)
      /\ Total(RejectedOf', k) = Total(RejectedOf, k)
      /\ Total(ProcessedOf', k) = Total(ProcessedOf, k)
  BY <1>2, TotalsStay
<1>4. /\ Total(RejectedOf, Validated) \in Nat /\ Total(ProcessedOf, Validated) \in Nat
      /\ Total(RejectedOf, k) \in Nat /\ Total(ProcessedOf, k) \in Nat
  BY <1>1, <1>2, TotalTypes
<1>5. /\ proc[w].rejected \in Nat /\ proc[w].processed \in Nat
      /\ last[t].rejected \in Nat /\ last[t].processed \in Nat
  BY <1>1 DEF TypeOK, Process
<1>6. /\ Total(RejectedOf, Validated) + last[t].rejected
           = Total(RejectedOf, k) + proc[w].rejected
      /\ Total(ProcessedOf, Validated) + last[t].processed
           = Total(ProcessedOf, k) + proc[w].processed
      /\ proc[w].rejected <= proc[w].processed
      /\ Within(run.mode, Total(RejectedOf, k), Total(ProcessedOf, k))
  BY <1>1 DEF Counted
<1>7. /\ Total(RejectedOf, Validated) + (last[t].rejected + n)
           = Total(RejectedOf, k) + (proc[w].rejected + n)
      /\ Total(ProcessedOf, Validated) + (last[t].processed + m)
           = Total(ProcessedOf, k) + (proc[w].processed + m)
      /\ proc[w].rejected + n <= proc[w].processed + m
  BY <1>4, <1>5, <1>6
<1>8. Counted(w)'
  <2>1. proc'[w].pc \notin {"preflight", "attach", "next", "extract"}
    BY DEF Tallying, Working, Loading
  <2> HIDE DEF t
  <2>2. /\ Total(RejectedOf', Validated') + last'[t].rejected
             = Total(RejectedOf', proc'[w].skip) + proc'[w].rejected
        /\ Total(ProcessedOf', Validated') + last'[t].processed
             = Total(ProcessedOf', proc'[w].skip) + proc'[w].processed
        /\ proc'[w].rejected <= proc'[w].processed
    BY <1>3, <1>7 DEF t
  <2>3. Within(run.mode, Total(RejectedOf, k), Total(ProcessedOf, k))'
    BY <1>3, <1>6 DEF Within
  <2> QED BY <1>1, <2>1, <2>2, <2>3 DEF Counted, Within
<1>9. \A v \in Workers \ {w} : Counted(v)'
  BY <1>1, OthersCounted DEF LimitInv
<1> QED BY <1>8, <1>9, ValidatedWithinStays DEF LimitInv

(* A step on the batch that counts nothing.                                *)
LEMMA StillCounted ==
  ASSUME LimitInv, Inv', Final, NEW w \in Workers,
         proc[w].pc \in Tallying, proc'[w].pc \in Tallying,
         \A v \in Workers \ {w} : proc'[v] = proc[v],
         run' = run, tab' = tab, last' = last,
         proc'[w].at = proc[w].at, proc'[w].skip = proc[w].skip,
         proc'[w].rejected = proc[w].rejected,
         proc'[w].processed = proc[w].processed,
         proc'[w].stats \subseteq proc'[w].typed,
         proc'[w].pc = "row" => proc'[w].left \subseteq proc'[w].typed,
         proc'[w].pc = "validate" =>
           Within(run.mode, proc'[w].rejected, proc'[w].processed)
  PROVE  LimitInv'
<1>1. Validated' = Validated
  BY DEF Validated
<1>2. PICK z : z = 0
  OBVIOUS
<1>3. z \in Nat /\ z <= z
  BY <1>2
<1>4. /\ proc[w].rejected \in Nat /\ proc[w].processed \in Nat
      /\ last[Table(w)].rejected \in Nat /\ last[Table(w)].processed \in Nat
  <2>1. Table(w) \in Tables
    BY WorkingTable DEF LimitInv, Tallying
  <2> QED BY <2>1 DEF LimitInv, Inv, TypeOK, Process
<1>5. /\ proc'[w].rejected = proc[w].rejected + z
      /\ proc'[w].processed = proc[w].processed + z
      /\ last'[Table(w)].rejected = last[Table(w)].rejected + z
      /\ last'[Table(w)].processed = last[Table(w)].processed + z
  BY <1>2, <1>4
<1> QED BY <1>1, <1>3, <1>5, TallyCounted

(* What moving on leaves of the totals.                                    *)
LEMMA GotoCounts ==
  ASSUME TypeOK, NEW w \in Workers, NEW l \in Labels, Goto(w, l)
  PROVE  /\ proc'[w].pc = l /\ proc'[w].at = proc[w].at
         /\ proc'[w].skip = proc[w].skip
         /\ proc'[w].rejected = proc[w].rejected
         /\ proc'[w].processed = proc[w].processed
         /\ proc'[w].stats = proc[w].stats /\ proc'[w].typed = proc[w].typed
         /\ proc'[w].left = proc[w].left
         /\ \A v \in Workers \ {w} : proc'[v] = proc[v]
<1>1. proc[w] \in Process
  BY ProcessTypes
<1>2. PICK p : p = [proc[w] EXCEPT !.pc = l]
  OBVIOUS
<1>3. p \in Process
  BY <1>1, <1>2 DEF Process
<1>4. proc'[w] = p /\ \A v \in Workers \ {w} : proc'[v] = proc[v]
  BY <1>2, <1>3, UpdateType DEF Goto
<1> QED BY <1>1, <1>2, <1>4 DEF Process

(* What Count adds to the totals of the process and of its table.          *)
LEMMA CountCounts ==
  ASSUME TypeOK, NEW w \in Workers, NEW l \in Labels, NEW m \in Nat,
         NEW n \in Nat, Count(w, n, m, l), Table(w) \in Tables
  PROVE  /\ proc'[w].pc = l /\ proc'[w].at = proc[w].at
         /\ proc'[w].skip = proc[w].skip
         /\ proc'[w].rejected = proc[w].rejected + n
         /\ proc'[w].processed = proc[w].processed + m
         /\ proc'[w].stats = proc[w].stats /\ proc'[w].typed = proc[w].typed
         /\ proc'[w].left = proc[w].left
         /\ \A v \in Workers \ {w} : proc'[v] = proc[v]
         /\ last'[Table(w)].rejected = last[Table(w)].rejected + n
         /\ last'[Table(w)].processed = last[Table(w)].processed + m
<1>1. proc[w] \in Process
  BY ProcessTypes
<1>2. PICK p : p = [proc[w] EXCEPT !.pc = l, !.rejected = @ + n, !.processed = @ + m]
  OBVIOUS
<1>3. /\ p.pc = l /\ p.at = proc[w].at /\ p.skip = proc[w].skip
      /\ p.rejected = proc[w].rejected + n /\ p.processed = proc[w].processed + m
      /\ p.stats = proc[w].stats /\ p.typed = proc[w].typed /\ p.left = proc[w].left
  BY <1>1, <1>2 DEF Process
<1>4. proc' = [proc EXCEPT ![w] = p]
  BY <1>2 DEF Count, Update
<1>5. proc'[w] = p /\ \A v \in Workers \ {w} : proc'[v] = proc[v]
  BY <1>4 DEF TypeOK
<1>6. PICK e : e = [last[Table(w)] EXCEPT !.rejected = @ + n, !.processed = @ + m]
  OBVIOUS
<1>7. e.rejected = last[Table(w)].rejected + n /\ e.processed = last[Table(w)].processed + m
  BY <1>6 DEF TypeOK
<1>8. last' = [last EXCEPT ![Table(w)] = e]
  BY <1>6 DEF Count, TypeOK
<1>9. last'[Table(w)] = e
  BY <1>8 DEF TypeOK
<1> QED BY <1>3, <1>5, <1>7, <1>9

(* The steps that count nothing.                                           *)
LEMMA QuietTallies ==
  ASSUME LimitInv, Inv', Final, NEW w \in Workers,
         \/ InsertTransformRejects(w) \/ BulkLoads(w) \/ InsertLoadRejects(w)
         \/ InsertBatchReject(w)
  PROVE  LimitInv'
<1>1. TypeOK /\ Counted(w)
  BY DEF LimitInv, Inv
<1>2. /\ proc[w].pc \in Tallying
      /\ \E l \in {"refusedCount", "success", "batchFailure"} : Goto(w, l)
      /\ UNCHANGED <<run, tab, last>>
  BY DEF InsertTransformRejects, BulkLoads, InsertLoadRejects, InsertBatchReject,
         AfterLoad, At, Tallying, Working, Loading, auditVars
<1>3. PICK l \in {"refusedCount", "success", "batchFailure"} : Goto(w, l)
  BY <1>2
<1>4. l \in Labels /\ l \in Tallying /\ l \notin {"row", "validate"}
  BY DEF Labels, Tallying, Working, Loading
<1>5. /\ proc'[w].pc = l /\ proc'[w].at = proc[w].at
      /\ proc'[w].skip = proc[w].skip
      /\ proc'[w].rejected = proc[w].rejected
      /\ proc'[w].processed = proc[w].processed
      /\ proc'[w].stats = proc[w].stats /\ proc'[w].typed = proc[w].typed
      /\ \A v \in Workers \ {w} : proc'[v] = proc[v]
  BY <1>1, <1>3, <1>4, GotoCounts
<1>6. proc[w].stats \subseteq proc[w].typed
  BY <1>1, <1>2 DEF Counted
<1> QED BY <1>2, <1>4, <1>5, <1>6, StillCounted

(* The rows one by one, and what a retry forgets.                          *)
LEMMA RowTallies ==
  ASSUME LimitInv, Inv', Final, NEW w \in Workers,
         \/ BulkFails(w) \/ \E r \in proc[w].left : RowDone(w, r)
         \/ TransientError(w) /\ proc[w].attempt + 1 <= MaxAttempts
  PROVE  LimitInv'
<1> DEFINE p == proc[w]
<1>1. TypeOK /\ Counted(w) /\ p \in Process
  BY ProcessTypes DEF LimitInv, Inv
<1>2. p.pc \in Tallying /\ UNCHANGED <<run, tab, last>>
  <2>1. p.attempt \in Int /\ MaxAttempts \in Int
    BY <1>1, EtlAssumption DEF Process
  <2>2. CASE BulkFails(w) \/ \E r \in p.left : RowDone(w, r)
    BY <2>2 DEF BulkFails, RowDone, At, Tallying, Working, Loading, auditVars
  <2>3. CASE TransientError(w) /\ p.attempt + 1 <= MaxAttempts
    <3>1. ~(p.attempt + 1 > MaxAttempts)
      BY <2>1, <2>3
    <3> QED
      BY <2>3, <3>1 DEF TransientError, InTry, Tallying, Working, Loading
  <2> QED BY <2>2, <2>3
<1>3. \E l \in {"row", "rejects", "success", "bulk"}, L \in SUBSET p.typed,
         T \in SUBSET p.typed, a \in 0..MaxAttempts :
        Update(w, [p EXCEPT !.pc = l, !.left = L, !.stats = T, !.attempt = a])
  <2>0. p.attempt \in 0..MaxAttempts /\ [p EXCEPT !.attempt = p.attempt] = p
    BY <1>1 DEF Process
  <2>1. CASE BulkFails(w)
    <3>1. Update(w, [p EXCEPT !.pc = "row", !.left = p.typed, !.stats = {}])
      BY <2>1 DEF BulkFails
    <3>2. [p EXCEPT !.pc = "row", !.left = p.typed, !.stats = {}]
           = [p EXCEPT !.pc = "row", !.left = p.typed, !.stats = {}, !.attempt = p.attempt]
      BY <1>1 DEF Process
    <3>3. Update(w, [p EXCEPT !.pc = "row", !.left = p.typed, !.stats = {},
                              !.attempt = p.attempt])
      BY <3>1, <3>2, Zenon
    <3> QED BY <2>0, <3>3
  <2>2. CASE \E r \in p.left : RowDone(w, r)
    <3>1. PICK r \in p.left : RowDone(w, r)
      BY <2>2
    <3>2. PICK rest : rest = p.left \ {r}
      OBVIOUS
    <3>3. PICK stats : stats = p.stats \cup ({r} \cap p.unstorable)
      OBVIOUS
    <3>4. PICK l : l = IF rest = {} THEN AfterLoad(stats) ELSE "row"
      OBVIOUS
    <3>5. Update(w, [p EXCEPT !.pc = l, !.left = rest, !.stats = stats])
      BY <3>1, <3>2, <3>3, <3>4 DEF RowDone
    <3>6. [p EXCEPT !.pc = l, !.left = rest, !.stats = stats]
           = [p EXCEPT !.pc = l, !.left = rest, !.stats = stats, !.attempt = p.attempt]
      BY <1>1 DEF Process
    <3>7. p.left \subseteq p.typed /\ p.stats \subseteq p.typed
      BY <1>1, <1>2, <3>1 DEF Counted, RowDone, At
    <3>8. /\ l \in {"row", "rejects", "success"}
          /\ rest \in SUBSET p.typed /\ stats \in SUBSET p.typed
      BY <3>2, <3>3, <3>4, <3>7 DEF AfterLoad
    <3>9. Update(w, [p EXCEPT !.pc = l, !.left = rest, !.stats = stats,
                              !.attempt = p.attempt])
      BY <3>5, <3>6, Zenon
    <3> QED BY <2>0, <3>8, <3>9
  <2>3. CASE TransientError(w) /\ p.attempt + 1 <= MaxAttempts
    <3>1. p.attempt + 1 \in 0..MaxAttempts /\ ~(p.attempt + 1 > MaxAttempts)
      BY <2>0, <2>3, EtlAssumption
    <3>2. Update(w, [p EXCEPT !.pc = "bulk", !.attempt = p.attempt + 1, !.left = {},
                              !.stats = {}])
      BY <2>3, <3>1 DEF TransientError
    <3>3. [p EXCEPT !.pc = "bulk", !.attempt = p.attempt + 1, !.left = {}, !.stats = {}]
           = [p EXCEPT !.pc = "bulk", !.left = {}, !.stats = {}, !.attempt = p.attempt + 1]
      BY <1>1 DEF Process
    <3>4. Update(w, [p EXCEPT !.pc = "bulk", !.left = {}, !.stats = {},
                              !.attempt = p.attempt + 1])
      BY <3>2, <3>3, Zenon
    <3> QED BY <3>1, <3>4
  <2> QED BY <2>1, <2>2, <2>3
<1>4. PICK l \in {"row", "rejects", "success", "bulk"}, L \in SUBSET p.typed,
           T \in SUBSET p.typed, a \in 0..MaxAttempts :
        Update(w, [p EXCEPT !.pc = l, !.left = L, !.stats = T, !.attempt = a])
  BY <1>3
<1>5. PICK q : q = [p EXCEPT !.pc = l, !.left = L, !.stats = T, !.attempt = a]
  OBVIOUS
<1>6. /\ q.pc = l /\ q.left = L /\ q.stats = T /\ q.at = p.at /\ q.skip = p.skip
      /\ q.rejected = p.rejected /\ q.processed = p.processed /\ q.typed = p.typed
  BY <1>1, <1>5 DEF Process
<1>7. proc' = [proc EXCEPT ![w] = q]
  BY <1>4, <1>5 DEF Update
<1>8. proc'[w] = q /\ \A v \in Workers \ {w} : proc'[v] = proc[v]
  BY <1>1, <1>7 DEF TypeOK
<1>9. l \in Tallying /\ l # "validate"
  BY DEF Tallying, Working, Loading
<1> QED BY <1>2, <1>6, <1>8, <1>9, StillCounted

(* ShouldAbort lets only totals within the limit pass.                     *)
LEMMA ThresholdTally ==
  ASSUME LimitInv, Inv', Final, NEW w \in Workers, CheckThreshold(w),
         ~ShouldAbort(run.mode, proc[w].rejected, proc[w].processed)
  PROVE  LimitInv'
<1>1. /\ TypeOK /\ Counted(w) /\ proc[w] \in Process /\ proc[w].pc = "threshold"
      /\ Goto(w, "validate") /\ UNCHANGED <<run, tab, last>>
  BY ProcessTypes DEF LimitInv, Inv, CheckThreshold, At
<1>2. "validate" \in Labels /\ "validate" \in Tallying /\ proc[w].pc \in Tallying /\ Owned(w)
  BY <1>1 DEF Labels, Tallying, Working, Loading, Owned
<1>3. /\ proc'[w].pc = "validate" /\ proc'[w].at = proc[w].at
      /\ proc'[w].skip = proc[w].skip
      /\ proc'[w].rejected = proc[w].rejected
      /\ proc'[w].processed = proc[w].processed
      /\ proc'[w].stats = proc[w].stats /\ proc'[w].typed = proc[w].typed
      /\ \A v \in Workers \ {w} : proc'[v] = proc[v]
  BY <1>1, <1>2, GotoCounts
<1>4. /\ proc[w].stats \subseteq proc[w].typed
      /\ proc[w].rejected <= proc[w].processed
  BY <1>1, <1>2 DEF Counted
<1>5. Within(run.mode, proc[w].rejected, proc[w].processed)
  <2>1. PICK r \in Nat, n \in Nat : r = proc[w].rejected /\ n = proc[w].processed
    BY <1>1 DEF Process
  <2>2. RatioDen \in Nat /\ RatioNum \in Nat /\ r * RatioDen \in Int /\ RatioNum * n \in Int
    BY EtlAssumption
  <2>3. CASE n = 0
    <3>1. r = 0
      BY <1>4, <2>1, <2>3
    <3>2. r * RatioDen = 0 /\ RatioNum * n = 0
      BY <2>2, <2>3, <3>1
    <3> QED BY <2>1, <3>1, <3>2 DEF Within
  <2>4. CASE n # 0
    <3>1. ~ShouldAbort(run.mode, r, n) /\ n > 0
      BY <2>1, <2>4
    <3>2. run.mode = "final_delta" => r = 0
      BY <3>1 DEF ShouldAbort
    <3>3. run.mode \in {"initial", "reconcile_only"} => ~(r * RatioDen > RatioNum * n)
      BY <3>1 DEF ShouldAbort
    <3> QED BY <2>1, <2>2, <3>2, <3>3 DEF Within
  <2> QED BY <2>3, <2>4
<1> QED BY <1>1, <1>2, <1>3, <1>4, <1>5, StillCounted DEF Within

(* The steps that count.                                                   *)
LEMMA CountTallies ==
  ASSUME LimitInv, Inv', Final, NEW w \in Workers,
         \/ RecordTransformFailure(w) \/ RecordBatchSuccess(w)
         \/ RecordBatchFailure(w) \/ RecordWholeBatchFailure(w)
  PROVE  LimitInv'
<1> DEFINE p == proc[w]
<1>1. /\ TypeOK /\ Counted(w) /\ p \in Process
      /\ p.pc \in {"refusedCount", "success", "failure", "batchFailure"}
      /\ run' = run /\ Upsert(Table(w), "LOADING")
  BY ProcessTypes
  DEF LimitInv, Inv, RecordTransformFailure, RecordBatchSuccess, RecordBatchFailure,
      RecordWholeBatchFailure, At
<1>2. p.pc \in Tallying /\ p.pc \in Working
  BY <1>1 DEF Tallying, Working, Loading
<1>3. Table(w) \in Tables /\ Table(w) \notin Validated
  BY <1>2, WorkingTable DEF LimitInv
<1>4. Validated' = Validated
  BY <1>1, <1>3 DEF Validated, Upsert, TypeOK
<1>5. p.stats \subseteq p.typed
  BY <1>1, <1>2 DEF Counted
<1>6. /\ Cardinality(p.refused) \in Nat /\ Cardinality(p.typed) \in Nat
      /\ Cardinality(p.stats) \in Nat /\ Cardinality(p.stats) <= Cardinality(p.typed)
  <2>1. IsFiniteSet(p.typed)
    BY <1>1, ProcessTypes, EtlAssumption, FS_Subset
  <2> QED BY <1>1, <1>5, <2>1, ProcessTypes, FS_Subset
<1>7. CASE RecordBatchSuccess(w) /\ p.stats # {}
  <2>1. Goto(w, "failure") /\ last' = last
    BY <1>7 DEF RecordBatchSuccess
  <2>2. "failure" \in Labels /\ "failure" \in Tallying
    BY DEF Labels, Tallying, Working, Loading
  <2>3. /\ proc'[w].pc = "failure" /\ proc'[w].at = p.at /\ proc'[w].skip = p.skip
        /\ proc'[w].rejected = p.rejected /\ proc'[w].processed = p.processed
        /\ proc'[w].stats = p.stats /\ proc'[w].typed = p.typed
        /\ \A v \in Workers \ {w} : proc'[v] = proc[v]
    BY <1>1, <2>1, <2>2, GotoCounts
  <2>4. PICK z \in Nat : z = 0
    OBVIOUS
  <2>5. /\ proc'[w].rejected = p.rejected + z /\ proc'[w].processed = p.processed + z
        /\ last'[Table(w)].rejected = last[Table(w)].rejected + z
        /\ last'[Table(w)].processed = last[Table(w)].processed + z
    BY <1>1, <1>3, <2>1, <2>3, <2>4 DEF TypeOK, Process
  <2> QED BY <1>1, <1>2, <1>4, <1>5, <2>2, <2>3, <2>4, <2>5, TallyCounted
<1>8. CASE ~(RecordBatchSuccess(w) /\ p.stats # {})
  <2>1. PICK l \in {"threshold", "bulk"}, n \in Nat, m \in Nat : n <= m /\ Count(w, n, m, l)
    <3>1. CASE RecordTransformFailure(w)
      BY <1>6, <3>1 DEF RecordTransformFailure
    <3>2. CASE RecordBatchSuccess(w)
      BY <1>6, <1>8, <3>2 DEF RecordBatchSuccess
    <3>3. CASE RecordBatchFailure(w)
      BY <1>6, <3>3 DEF RecordBatchFailure
    <3>4. CASE RecordWholeBatchFailure(w)
      BY <1>6, <3>4 DEF RecordWholeBatchFailure
    <3> QED BY <3>1, <3>2, <3>3, <3>4
  <2>2. l \in Labels /\ l \in Tallying /\ l \notin {"row", "validate"}
    BY DEF Labels, Tallying, Working, Loading
  <2>3. /\ proc'[w].pc = l /\ proc'[w].at = p.at /\ proc'[w].skip = p.skip
        /\ proc'[w].rejected = p.rejected + n /\ proc'[w].processed = p.processed + m
        /\ proc'[w].stats = p.stats /\ proc'[w].typed = p.typed
        /\ \A v \in Workers \ {w} : proc'[v] = proc[v]
        /\ last'[Table(w)].rejected = last[Table(w)].rejected + n
        /\ last'[Table(w)].processed = last[Table(w)].processed + m
    BY <1>1, <1>3, <2>1, <2>2, CountCounts
  <2> QED BY <1>1, <1>2, <1>4, <1>5, <2>1, <2>2, <2>3, TallyCounted
<1> QED BY <1>7, <1>8

(* An extraction starts the counts of its table afresh.                    *)
LEMMA ExtractCounted ==
  ASSUME LimitInv, Inv', Final, NEW w \in Workers,
         NEW A \in SUBSET Keys, NEW B \in SUBSET Keys, NEW C \in SUBSET Keys,
         Extract(w, A, B, C)
  PROVE  LimitInv'
<1> DEFINE p == proc[w]
           t == Table(w)
           k == proc[w].skip
<1>1. /\ TypeOK /\ Counted(w) /\ p \in Process /\ p.pc = "extract" /\ Owned(w)
      /\ UNCHANGED <<run, tab>>
  BY ProcessTypes DEF LimitInv, Inv, Extract, At, Owned, auditVars
<1>2. t \in Tables /\ p.pc \in Working
  BY <1>1, WorkingTable DEF LimitInv, Working
<1>l. PICK l \in {"validate", "bulk", "refused"} :
        proc' = [proc EXCEPT ![w] =
                   [p EXCEPT !.pc = l, !.refused = A, !.typed = B \cup C,
                             !.unstorable = B, !.stats = {}, !.attempt = 0]]
  BY DEF Extract, Update
<1>3. PICK q : /\ q = [p EXCEPT !.pc = l, !.refused = A, !.typed = B \cup C,
                                !.unstorable = B, !.stats = {}, !.attempt = 0]
               /\ proc' = [proc EXCEPT ![w] = q]
  BY <1>l
<1>4. /\ q.pc = l /\ q.at = p.at /\ q.skip = k /\ q.stats = {}
      /\ q.rejected = p.rejected /\ q.processed = p.processed
  BY <1>1, <1>3 DEF Process
<1>5. proc'[w] = q /\ \A v \in Workers \ {w} : proc'[v] = proc[v]
  BY <1>1, <1>3 DEF TypeOK
<1>6. PICK e : e = [NoExtraction EXCEPT !.rows = A \cup (B \cup C)] /\ last' = [last EXCEPT ![t] = e]
  BY DEF Extract
<1>7. e.rejected = 0 /\ e.processed = 0
  BY <1>6 DEF NoExtraction
<1>8. last'[t] = e
  BY <1>1, <1>2, <1>6 DEF TypeOK
<1>9. Validated' = Validated /\ Validated \in SUBSET Tables /\ k \subseteq Validated
  BY <1>1 DEF Validated, LimitInv, Inv, Local, LoopPlace
<1>10. /\ Total(RejectedOf', Validated) = Total(RejectedOf, Validated)
       /\ Total(ProcessedOf', Validated) = Total(ProcessedOf, Validated)
       /\ Total(RejectedOf', k) = Total(RejectedOf, k)
       /\ Total(ProcessedOf', k) = Total(ProcessedOf, k)
  BY <1>9, TotalsStay
<1>11. /\ Total(RejectedOf, Validated) = Total(RejectedOf, k) + p.rejected
       /\ Total(ProcessedOf, Validated) = Total(ProcessedOf, k) + p.processed
       /\ Within(run.mode, p.rejected, p.processed) /\ p.rejected <= p.processed
       /\ Within(run.mode, Total(RejectedOf, k), Total(ProcessedOf, k))
  BY <1>1 DEF Counted
<1>12. Total(RejectedOf, Validated) \in Nat /\ Total(ProcessedOf, Validated) \in Nat
  BY <1>1, <1>9, TotalTypes
<1>13. Counted(w)'
  <2>1. /\ l \in Tallying /\ Table(w)' = t
        /\ l \notin {"preflight", "attach", "row", "next", "extract"}
    BY <1>4, <1>5 DEF Tallying, Working, Loading, Table
  <2> HIDE DEF t
  <2>2. /\ Total(RejectedOf', Validated') + last'[t].rejected
             = Total(RejectedOf', proc'[w].skip) + proc'[w].rejected
        /\ Total(ProcessedOf', Validated') + last'[t].processed
             = Total(ProcessedOf', proc'[w].skip) + proc'[w].processed
    BY <1>4, <1>5, <1>7, <1>8, <1>9, <1>10, <1>11, <1>12
  <2>3. /\ Within(run.mode, Total(RejectedOf, proc[w].skip), Total(ProcessedOf, proc[w].skip))'
        /\ Within(run.mode, proc[w].rejected, proc[w].processed)'
    BY <1>1, <1>4, <1>5, <1>10, <1>11 DEF Within
  <2> QED BY <1>4, <1>5, <1>11, <2>1, <2>2, <2>3 DEF Counted
<1>14. \A v \in Workers \ {w} : Counted(v)'
  BY <1>1, <1>5, OthersCounted DEF LimitInv
<1> QED BY <1>1, <1>9, <1>13, <1>14, ValidatedWithinStays DEF LimitInv

(* A process with empty totals that skips what is VALIDATED.               *)
LEMMA FreshCounted ==
  ASSUME LimitInv, Inv', NEW w \in Workers,
         proc[w].pc \notin {"idle", "done"} \/ lock = NoOne,
         \A v \in Workers \ {w} : proc'[v] = proc[v],
         proc'[w].pc \in {"preflight", "attach", "next"},
         proc'[w].rejected = 0, proc'[w].processed = 0,
         proc'[w].pc = "next" => proc'[w].skip = Validated,
         UNCHANGED <<tab, last>>, run'.mode = run.mode \/ Validated = {}
  PROVE  LimitInv'
<1>1. /\ Validated' = Validated /\ RejectedOf' = RejectedOf /\ ProcessedOf' = ProcessedOf
      /\ Validated \in SUBSET Tables /\ TypeOK
  BY DEF Validated, RejectedOf, ProcessedOf, LimitInv, Inv
<1>2. PICK R \in Nat, P \in Nat : R = Total(RejectedOf, Validated) /\ P = Total(ProcessedOf, Validated)
  BY <1>1, TotalTypes
<1>3. R + 0 = R /\ P + 0 = P
  OBVIOUS
<1>4. \A mode : Within(mode, 0, 0)
  BY EtlAssumption DEF Within
<1>5. Within(run'.mode, R, P)
  <2>1. CASE run'.mode = run.mode
    BY <1>2, <2>1 DEF LimitInv, ValidatedWithin
  <2>2. CASE Validated = {}
    BY <1>1, <1>2, <1>4, <2>2, TotalTypes
  <2> QED BY <2>1, <2>2
<1>6. ValidatedWithin'
  BY <1>1, <1>2, <1>5 DEF ValidatedWithin, Within
<1>7. Counted(w)'
  <2>1. proc'[w].pc \notin Tallying \cup {"row", "extract", "validate"}
    BY DEF Tallying, Working, Loading
  <2>2. CASE proc'[w].pc \in {"preflight", "attach"}
    BY <2>1, <2>2 DEF Counted, Owned
  <2>3. CASE proc'[w].pc = "next"
    <3>1. /\ Total(RejectedOf', proc'[w].skip) = R /\ Total(ProcessedOf', proc'[w].skip) = P
          /\ Total(RejectedOf', Validated') = R + 0 /\ Total(ProcessedOf', Validated') = P + 0
      BY <1>1, <1>2, <1>3, <2>3
    <3>2. /\ Within(run.mode, Total(RejectedOf, proc[w].skip), Total(ProcessedOf, proc[w].skip))'
          /\ Within(run.mode, proc[w].rejected, proc[w].processed)'
      BY <1>4, <1>5, <3>1 DEF Within
    <3>3. /\ Total(RejectedOf', Validated') = Total(RejectedOf', proc'[w].skip) + proc'[w].rejected
          /\ Total(ProcessedOf', Validated') = Total(ProcessedOf', proc'[w].skip) + proc'[w].processed
          /\ proc'[w].rejected <= proc'[w].processed
      BY <3>1
    <3> QED BY <2>1, <2>3, <3>2, <3>3 DEF Counted
  <2> QED BY <2>2, <2>3
<1>8. \A v \in Workers \ {w} : Counted(v)'
  BY OthersCounted DEF LimitInv
<1> QED BY <1>6, <1>7, <1>8 DEF LimitInv

(* The table loop goes on with its totals.                                 *)
LEMMA LoopCounted ==
  ASSUME LimitInv, Inv', Final, NEW w \in Workers,
         proc[w].pc \in {"next", "extract"}, proc'[w].pc \in {"next", "extract"},
         \A v \in Workers \ {w} : proc'[v] = proc[v],
         proc'[w].skip = proc[w].skip, proc'[w].rejected = proc[w].rejected,
         proc'[w].processed = proc[w].processed,
         run' = run, Validated' = Validated
  PROVE  LimitInv'
<1> DEFINE k == proc[w].skip
<1>1. Counted(w) /\ Owned(w) /\ k \subseteq Validated
  BY DEF LimitInv, Inv, Local, LoopPlace, Owned
<1>2. /\ Total(RejectedOf', Validated) = Total(RejectedOf, Validated)
      /\ Total(ProcessedOf', Validated) = Total(ProcessedOf, Validated)
      /\ Total(RejectedOf', k) = Total(RejectedOf, k)
      /\ Total(ProcessedOf', k) = Total(ProcessedOf, k)
  BY <1>1, TotalsStay
<1>3. Counted(w)'
  <2>1. /\ proc[w].pc \notin Tallying /\ proc'[w].pc \notin Tallying
        /\ proc'[w].pc \notin {"preflight", "attach", "row"}
    BY DEF Tallying, Working, Loading
  <2>2. /\ Total(RejectedOf', Validated') = Total(RejectedOf', proc'[w].skip) + proc'[w].rejected
        /\ Total(ProcessedOf', Validated') = Total(ProcessedOf', proc'[w].skip) + proc'[w].processed
        /\ proc'[w].rejected <= proc'[w].processed
    BY <1>1, <1>2 DEF Counted
  <2>3. /\ Within(run.mode, Total(RejectedOf, proc[w].skip), Total(ProcessedOf, proc[w].skip))'
        /\ Within(run.mode, proc[w].rejected, proc[w].processed)'
    BY <1>1, <1>2 DEF Counted, Within
  <2> QED BY <2>1, <2>2, <2>3 DEF Counted
<1>4. \A v \in Workers \ {w} : Counted(v)'
  BY OthersCounted DEF LimitInv
<1> QED BY <1>3, <1>4, ValidatedWithinStays DEF LimitInv

(* A table that is validated takes its counts from the process to the run. *)
LEMMA ValidateCounted ==
  ASSUME LimitInv, Inv', Final, NEW w \in Workers, ValidateTable(w)
  PROVE  LimitInv'
<1> DEFINE p == proc[w]
           k == proc[w].skip
<1>1. /\ TypeOK /\ Counted(w) /\ p \in Process /\ p.pc = "validate" /\ Owned(w)
      /\ UNCHANGED <<run, last>> /\ Upsert(Table(w), "VALIDATED")
  BY ProcessTypes DEF LimitInv, Inv, ValidateTable, At, Owned
<1>2. p.pc \in Tallying /\ p.pc \in Working
  BY <1>1 DEF Tallying, Working
<1>3. PICK t \in Tables : t = Table(w) /\ t \notin Validated
  BY <1>2, WorkingTable DEF LimitInv
<1>4. Validated' = Validated \cup {t} /\ RejectedOf' = RejectedOf /\ ProcessedOf' = ProcessedOf
  BY <1>1, <1>3 DEF Validated, Upsert, TypeOK, RejectedOf, ProcessedOf
<1>V. PICK V : V = Validated \cup {t}
  OBVIOUS
<1>5. V = Validated \cup {t} /\ V \in SUBSET Tables /\ V \ {t} = Validated /\ t \in V
  BY <1>3, <1>V DEF Validated
<1>6. /\ Total(RejectedOf, V) = last[t].rejected + Total(RejectedOf, Validated)
      /\ Total(ProcessedOf, V) = last[t].processed + Total(ProcessedOf, Validated)
  BY <1>1, <1>5, TotalTypes
<1>7. PICK q : /\ proc' = [proc EXCEPT ![w] = q]
               /\ q = [p EXCEPT !.pc = "next", !.at = @ + 1,
                         !.refused = {}, !.typed = {}, !.unstorable = {},
                         !.left = {}, !.stats = {}, !.attempt = 0]
  BY DEF ValidateTable, Update
<1>8. q.pc = "next" /\ q.skip = k /\ q.rejected = p.rejected /\ q.processed = p.processed
  BY <1>1, <1>7 DEF Process
<1>9. proc'[w] = q /\ \A v \in Workers \ {w} : proc'[v] = proc[v]
  BY <1>1, <1>7 DEF TypeOK
<1>10. k \subseteq Validated /\ Validated \in SUBSET Tables
  BY <1>1 DEF LimitInv, Inv, Local, LoopPlace, Validated
<1>11. /\ Total(RejectedOf, Validated) \in Nat /\ Total(ProcessedOf, Validated) \in Nat
       /\ Total(RejectedOf, k) \in Nat /\ Total(ProcessedOf, k) \in Nat
       /\ p.rejected \in Nat /\ p.processed \in Nat
       /\ last[t].rejected \in Nat /\ last[t].processed \in Nat
  <2>1. k \in SUBSET Tables
    BY <1>10
  <2> QED BY <1>1, <1>3, <1>10, <2>1, TotalTypes DEF TypeOK, Process
<1>12. /\ Total(RejectedOf, Validated) + last[t].rejected = Total(RejectedOf, k) + p.rejected
       /\ Total(ProcessedOf, Validated) + last[t].processed = Total(ProcessedOf, k) + p.processed
       /\ Within(run.mode, Total(RejectedOf, k), Total(ProcessedOf, k))
       /\ Within(run.mode, p.rejected, p.processed) /\ p.rejected <= p.processed
  BY <1>1, <1>2, <1>3 DEF Counted
<1>13. /\ Total(RejectedOf, V) = Total(RejectedOf, k) + p.rejected
       /\ Total(ProcessedOf, V) = Total(ProcessedOf, k) + p.processed
  BY <1>6, <1>11, <1>12
<1>14. Within(run.mode, Total(RejectedOf, V), Total(ProcessedOf, V))
  BY <1>11, <1>12, <1>13, WithinAdds
<1>15. ValidatedWithin'
  BY <1>1, <1>4, <1>5, <1>14 DEF ValidatedWithin, Within
<1>16. Counted(w)'
  <2>1. proc'[w].pc \notin Tallying \cup {"preflight", "attach", "row"} /\ proc'[w].pc = "next"
    BY <1>8, <1>9 DEF Tallying, Working, Loading
  <2>2. /\ Total(RejectedOf', Validated') = Total(RejectedOf', proc'[w].skip) + proc'[w].rejected
        /\ Total(ProcessedOf', Validated') = Total(ProcessedOf', proc'[w].skip) + proc'[w].processed
        /\ proc'[w].rejected <= proc'[w].processed
    BY <1>4, <1>5, <1>8, <1>9, <1>12, <1>13
  <2>3. /\ Within(run.mode, Total(RejectedOf, proc[w].skip), Total(ProcessedOf, proc[w].skip))'
        /\ Within(run.mode, proc[w].rejected, proc[w].processed)'
    BY <1>1, <1>4, <1>8, <1>9, <1>12 DEF Within
  <2> QED BY <2>1, <2>2, <2>3 DEF Counted
<1>17. \A v \in Workers \ {w} : Counted(v)'
  BY <1>1, <1>9, OthersCounted DEF LimitInv
<1> QED BY <1>15, <1>16, <1>17 DEF LimitInv

(* The steps with which a process begins or goes on to its next table.     *)
LEMMA LoopTallies ==
  ASSUME LimitInv, Inv', Final, NEW w \in Workers,
         \/ \E resume \in BOOLEAN, tables \in SUBSET Tables \ {{}} :
              Invoke(w, resume, tables)
         \/ Preflight(w) \/ ResumeRun(w) \/ SkipTable(w) \/ StartTable(w)
         \/ \E m \in Modes : CreateRun(w, m) /\ run.status = "none"
  PROVE  LimitInv'
<1> DEFINE p == proc[w]
<1>1. TypeOK /\ Counted(w) /\ p \in Process /\ Local(w)
  BY ProcessTypes DEF LimitInv, Inv
<1>2. ASSUME NEW b \in BOOLEAN, NEW T \in SUBSET Tables, Invoke(w, b, T)
      PROVE  LimitInv'
  <2>1. PICK q : /\ q = [NewProcess EXCEPT !.pc = "preflight", !.resume = b, !.tables = T]
                 /\ proc' = [proc EXCEPT ![w] = q]
    BY <1>2 DEF Invoke, Update
  <2>2. q.pc = "preflight" /\ q.rejected = 0 /\ q.processed = 0
    BY <2>1 DEF NewProcess
  <2>3. proc'[w] = q /\ \A v \in Workers \ {w} : proc'[v] = proc[v]
    BY <1>1, <2>1 DEF TypeOK
  <2> QED BY <1>2, <2>2, <2>3, FreshCounted DEF Invoke, auditVars
<1>3. CASE Preflight(w)
  <2>1. /\ p.pc = "preflight" /\ Goto(w, "attach") /\ "attach" \in Labels
        /\ UNCHANGED <<run, tab, last>>
    BY <1>3 DEF Preflight, At, Labels, auditVars
  <2>2. /\ proc'[w].pc = "attach" /\ proc'[w].rejected = p.rejected
        /\ proc'[w].processed = p.processed
        /\ \A v \in Workers \ {w} : proc'[v] = proc[v]
    BY <1>1, <2>1, GotoCounts
  <2>3. p.rejected = 0 /\ p.processed = 0
    BY <1>1, <2>1 DEF Counted
  <2> QED BY <2>1, <2>2, <2>3, FreshCounted
<1>4. CASE ResumeRun(w)
  <2>1. PICK q : q = [p EXCEPT !.pc = "next", !.skip = Validated] /\ proc' = [proc EXCEPT ![w] = q]
    BY <1>4 DEF ResumeRun, Update, Validated
  <2>2. /\ q.pc = "next" /\ q.skip = Validated /\ q.rejected = p.rejected
        /\ q.processed = p.processed
    BY <1>1, <2>1 DEF Process
  <2>3. proc'[w] = q /\ \A v \in Workers \ {w} : proc'[v] = proc[v]
    BY <1>1, <2>1 DEF TypeOK
  <2>4. p.pc = "attach" /\ UNCHANGED <<run, tab, last>>
    BY <1>4 DEF ResumeRun, At, auditVars
  <2>5. p.rejected = 0 /\ p.processed = 0
    BY <1>1, <2>4 DEF Counted
  <2> QED BY <2>2, <2>3, <2>4, <2>5, FreshCounted
<1>5. CASE SkipTable(w)
  <2>1. PICK q : q = [p EXCEPT !.at = p.at + 1] /\ proc' = [proc EXCEPT ![w] = q]
    BY <1>5 DEF SkipTable, Update
  <2>2. /\ q.pc = p.pc /\ q.skip = p.skip /\ q.rejected = p.rejected
        /\ q.processed = p.processed
    BY <1>1, <2>1 DEF Process
  <2>3. proc'[w] = q /\ \A v \in Workers \ {w} : proc'[v] = proc[v]
    BY <1>1, <2>1 DEF TypeOK
  <2>4. p.pc = "next" /\ run' = run /\ Validated' = Validated
    BY <1>5 DEF SkipTable, At, Validated, auditVars
  <2> QED BY <2>2, <2>3, <2>4, LoopCounted
<1>6. CASE StartTable(w)
  <2>1. /\ p.pc = "next" /\ Goto(w, "extract") /\ "extract" \in Labels /\ run' = run
        /\ Upsert(Table(w), "EXTRACTING")
    BY <1>6 DEF StartTable, At, Labels
  <2>2. /\ proc'[w].pc = "extract" /\ proc'[w].rejected = p.rejected
        /\ proc'[w].processed = p.processed /\ proc'[w].skip = p.skip
        /\ \A v \in Workers \ {w} : proc'[v] = proc[v]
    BY <1>1, <2>1, GotoCounts
  <2>3. Validated' = Validated
    <3>1. \A u \in Tables : u # Table(w) => tab'[u] = tab[u]
      BY <1>1, <2>1 DEF TypeOK, Upsert
    <3>2. Table(w) \in Tables => tab'[Table(w)] = "EXTRACTING"
      BY <1>1, <2>1 DEF TypeOK, Upsert
    <3>3. Table(w) \notin Validated
      BY <3>2 DEF Final, Validated
    <3> QED BY <3>1, <3>2, <3>3 DEF Validated
  <2> QED BY <2>1, <2>2, <2>3, LoopCounted
<1>7. ASSUME NEW m \in Modes, CreateRun(w, m), run.status = "none"
      PROVE  LimitInv'
  <2>1. /\ p.pc = "attach" /\ Goto(w, "next") /\ "next" \in Labels
        /\ UNCHANGED <<tab, last>>
    BY <1>7 DEF CreateRun, At, Labels
  <2>2. /\ proc'[w].pc = "next" /\ proc'[w].rejected = p.rejected
        /\ proc'[w].processed = p.processed /\ proc'[w].skip = p.skip
        /\ \A v \in Workers \ {w} : proc'[v] = proc[v]
    BY <1>1, <2>1, GotoCounts
  <2>3. p.rejected = 0 /\ p.processed = 0 /\ p.skip = {} /\ Validated = {}
    BY <1>1, <1>7, <2>1 DEF Counted, Local, LoopPlace, LimitInv, Inv, Untouched
  <2> QED BY <2>1, <2>2, <2>3, FreshCounted
<1> QED BY <1>2, <1>3, <1>4, <1>5, <1>6, <1>7


(* The steps with which a process ends.                                    *)
LEMMA StopTallies ==
  ASSUME LimitInv, Inv', Final, NEW w \in Workers,
         \/ LockContended(w) \/ ResumeRefused(w) \/ Crash(w)
         \/ ReleaseLock(w) \/ UnexpectedError(w) \/ FinishRun(w) \/ CriticalError(w)
         \/ (TransientError(w) /\ proc[w].attempt + 1 > MaxAttempts)
         \/ (CheckThreshold(w) /\ ShouldAbort(run.mode, proc[w].rejected, proc[w].processed))
         \/ \E m \in Modes : CreateRun(w, m) /\ run.status # "none"
  PROVE  LimitInv'
<1>1. TypeOK /\ \A s : [run EXCEPT !.status = s].mode = run.mode
  BY DEF LimitInv, Inv, TypeOK
<1>2. CASE LockContended(w) \/ ResumeRefused(w)
  <2>1. /\ proc[w].pc = "idle" /\ UNCHANGED <<lock, run, last, tab>>
        /\ \E o \in Outcomes : Update(w, [NewProcess EXCEPT !.pc = "done", !.outcome = o])
    BY <1>2 DEF LockContended, ResumeRefused, At, auditVars, Outcomes
  <2>2. proc'[w].pc = "done" /\ \A v \in Workers \ {w} : proc'[v] = proc[v]
    BY <1>1, <2>1, DoneStops
  <2> QED BY <2>1, <2>2, StopCounted
<1>3. CASE Crash(w)
  <2>1. /\ proc[w].pc \notin {"idle", "done"} /\ UNCHANGED <<run, tab>>
        /\ \E o \in Outcomes : Update(w, [NewProcess EXCEPT !.pc = "done", !.outcome = o])
    BY <1>3 DEF Crash, auditVars, Outcomes
  <2>2. proc'[w].pc = "done" /\ \A v \in Workers \ {w} : proc'[v] = proc[v]
    BY <1>1, <2>1, DoneStops
  <2> QED BY <2>1, <2>2, StopCounted
<1>4. CASE ReleaseLock(w)
  <2>1. /\ proc[w].pc = "unlock" /\ UNCHANGED <<run, tab>>
        /\ Goto(w, "done") /\ "done" \in Labels
    BY <1>4 DEF ReleaseLock, At, auditVars, Labels
  <2>2. proc'[w].pc = "done" /\ \A v \in Workers \ {w} : proc'[v] = proc[v]
    BY <1>1, <2>1, GotoCounts
  <2> QED BY <2>1, <2>2, StopCounted
<1>5. ASSUME proc[w].pc \notin {"idle", "done"}, tab' = tab, run'.mode = run.mode,
             NEW o \in Outcomes, Return(w, o)
      PROVE  LimitInv'
  <2>1. proc'[w].pc = "unlock" /\ \A v \in Workers \ {w} : proc'[v] = proc[v]
    BY <1>1, <1>5, ReturnStops
  <2> QED BY <1>5, <2>1, StopCounted
<1>6. ASSUME proc[w].pc \notin {"idle", "done"}, Abort(w)
      PROVE  LimitInv'
  <2>1. tab' = tab /\ run'.mode = run.mode /\ Return(w, "ABORTED") /\ "ABORTED" \in Outcomes
    BY <1>1, <1>6 DEF Abort, SafeAuditStatus, Outcomes
  <2> QED BY <1>5, <1>6, <2>1
<1>7. CASE UnexpectedError(w)
  <2>1. /\ proc[w].pc \notin {"idle", "done"} /\ tab' = tab
        /\ Return(w, "FAILED") /\ "FAILED" \in Outcomes
    BY <1>7 DEF UnexpectedError, Outcomes
  <2>2. run'.mode = run.mode
    BY <1>1, <1>7 DEF UnexpectedError, SafeAuditStatus
  <2> QED BY <1>5, <2>1, <2>2
<1>8. CASE FinishRun(w)
  <2>1. /\ proc[w].pc \notin {"idle", "done"} /\ tab' = tab /\ run'.mode = run.mode
        /\ Return(w, "SUCCESS") /\ "SUCCESS" \in Outcomes
    BY <1>1, <1>8 DEF FinishRun, At, Outcomes
  <2> QED BY <1>5, <2>1
<1>9. CASE CriticalError(w)
  BY <1>6, <1>9 DEF CriticalError, InTry
<1>10. CASE TransientError(w) /\ proc[w].attempt + 1 > MaxAttempts
  BY <1>6, <1>10 DEF TransientError, InTry
<1>11. CASE CheckThreshold(w) /\ ShouldAbort(run.mode, proc[w].rejected, proc[w].processed)
  BY <1>6, <1>11 DEF CheckThreshold, At
<1>12. ASSUME NEW m \in Modes, CreateRun(w, m), run.status # "none"
       PROVE  LimitInv'
  <2>1. /\ proc[w].pc \notin {"idle", "done"} /\ tab' = tab /\ run' = run
        /\ Return(w, "RUN_EXISTS") /\ "RUN_EXISTS" \in Outcomes
    BY <1>12 DEF CreateRun, At, Outcomes
  <2> QED BY <1>5, <2>1
<1> QED BY <1>2, <1>3, <1>4, <1>7, <1>8, <1>9, <1>10, <1>11, <1>12

(* No process has counted anything yet.                                    *)
LEMMA LimitInit == Init => LimitInv
<1> SUFFICES ASSUME Init PROVE LimitInv
  OBVIOUS
<1>1. Inv /\ TypeOK
  BY InitInv DEF Inv
<1>2. \A w \in Workers : proc[w].pc = "idle"
  BY DEF Init, NewProcess
<1>3. \A w \in Workers : Counted(w)
  BY <1>2 DEF Counted, Owned, Tallying, Working, Loading
<1>4. run.mode = "none"
  BY DEF Init
<1>5. ValidatedWithin
  BY <1>4 DEF ValidatedWithin, Within
<1> QED BY <1>1, <1>3, <1>5 DEF LimitInv

(* Every step of every process keeps the totals and the limit.             *)
LEMMA LimitStep ==
  ASSUME LimitInv, [Next]_vars
  PROVE  LimitInv'
<1>1. Inv /\ Inv' /\ (Final \/ UNCHANGED vars)
  BY InvStep DEF LimitInv
<1>2. CASE UNCHANGED vars
  <2>1. /\ Validated' = Validated /\ RejectedOf' = RejectedOf /\ ProcessedOf' = ProcessedOf
        /\ run' = run /\ last' = last /\ proc' = proc
    BY <1>2 DEF vars, Validated, RejectedOf, ProcessedOf
  <2>2. ASSUME NEW w \in Workers PROVE Counted(w)'
    <3>1. Counted(w)
      BY DEF LimitInv
    <3> QED BY <2>1, <3>1 DEF Counted, Owned, Table, Within
  <2>3. ValidatedWithin'
    BY <2>1 DEF LimitInv, ValidatedWithin, Within
  <2> QED BY <1>1, <2>2, <2>3 DEF LimitInv
<1>3. CASE Next /\ Final
  <2>1. PICK w \in Workers :
          \/ \E resume \in BOOLEAN, tables \in SUBSET Tables \ {{}} :
               Invoke(w, resume, tables)
          \/ LockContended(w) \/ ResumeRefused(w) \/ Step(w) \/ Crash(w)
    BY <1>3 DEF Next
  <2>2. CASE \E resume \in BOOLEAN, tables \in SUBSET Tables \ {{}} :
               Invoke(w, resume, tables)
    BY <1>1, <1>3, <2>2, LoopTallies
  <2>3. CASE LockContended(w) \/ ResumeRefused(w) \/ Crash(w)
    BY <1>1, <1>3, <2>3, StopTallies
  <2>4. CASE Preflight(w) \/ ResumeRun(w) \/ SkipTable(w) \/ StartTable(w)
    BY <1>1, <1>3, <2>4, LoopTallies
  <2>5. CASE \E m \in Modes : CreateRun(w, m)
    <3>1. CASE run.status = "none"
      BY <1>1, <1>3, <2>5, <3>1, LoopTallies
    <3>2. CASE run.status # "none"
      BY <1>1, <1>3, <2>5, <3>2, StopTallies
    <3> QED BY <3>1, <3>2
  <2>6. CASE UnexpectedError(w) \/ ReleaseLock(w) \/ FinishRun(w) \/ CriticalError(w)
    BY <1>1, <1>3, <2>6, StopTallies
  <2>7. CASE \E A, B, C \in SUBSET Keys : Extract(w, A, B, C)
    BY <1>1, <1>3, <2>7, ExtractCounted
  <2>8. CASE \/ InsertTransformRejects(w) \/ BulkLoads(w) \/ InsertLoadRejects(w)
             \/ InsertBatchReject(w)
    BY <1>1, <1>3, <2>8, QuietTallies
  <2>9. CASE BulkFails(w) \/ \E r \in proc[w].left : RowDone(w, r)
    BY <1>1, <1>3, <2>9, RowTallies
  <2>10. CASE TransientError(w)
    <3>1. proc[w].attempt \in Int /\ MaxAttempts \in Int
      BY <1>1, EtlAssumption, ProcessTypes DEF Inv, Process
    <3>2. CASE proc[w].attempt + 1 > MaxAttempts
      BY <1>1, <1>3, <2>10, <3>2, StopTallies
    <3>3. CASE proc[w].attempt + 1 <= MaxAttempts
      BY <1>1, <1>3, <2>10, <3>3, RowTallies
    <3> QED BY <3>1, <3>2, <3>3
  <2>11. CASE \/ RecordTransformFailure(w) \/ RecordBatchSuccess(w)
              \/ RecordBatchFailure(w) \/ RecordWholeBatchFailure(w)
    BY <1>1, <1>3, <2>11, CountTallies
  <2>12. CASE CheckThreshold(w)
    <3>1. CASE ShouldAbort(run.mode, proc[w].rejected, proc[w].processed)
      BY <1>1, <1>3, <2>12, <3>1, StopTallies
    <3>2. CASE ~ShouldAbort(run.mode, proc[w].rejected, proc[w].processed)
      BY <1>1, <1>3, <2>12, <3>2, ThresholdTally
    <3> QED BY <3>1, <3>2
  <2>13. CASE ValidateTable(w)
    BY <1>1, <1>3, <2>13, ValidateCounted
  <2> QED
    BY <2>1, <2>2, <2>3, <2>4, <2>5, <2>6, <2>7, <2>8, <2>9, <2>10, <2>11, <2>12,
       <2>13
    DEF Step
<1> QED BY <1>1, <1>2, <1>3

(* The inductive invariant of the reject limit: between two steps of       *)
(* run_orchestrator, rejected_total and processed_total are the counts of  *)
(* the tables validated since the process attached to the run and of the   *)
(* one in work, and what it skips was within the limit when it attached.   *)
THEOREM LimitInvariant == Spec => []LimitInv
<1>1. LimitInv /\ [Next]_vars => LimitInv'
  BY LimitStep
<1> QED BY LimitInit, <1>1, PTL DEF Spec

(* For every manifest, ratio and number of processes, the reject limit of  *)
(* ThresholdPolicy.should_abort holds over all the tables a run validated, *)
(* although every resumed process starts its totals from zero.             *)
THEOREM LimitOverResumes == Spec => []LimitHoldsOverResumes
<1>1. LimitInv => LimitHoldsOverResumes
  <2> SUFFICES ASSUME LimitInv PROVE LimitHoldsOverResumes
    OBVIOUS
  <2>1. Validated \in SUBSET Tables
    BY DEF Validated
  <2>2. PICK R, P : R = Total(RejectedOf, Validated) /\ P = Total(ProcessedOf, Validated)
    OBVIOUS
  <2>3. /\ MapThenSumSet(LAMBDA t : last[t].rejected, Validated) = R
        /\ MapThenSumSet(LAMBDA t : last[t].processed, Validated) = P
    BY <2>1, <2>2, SumsAreTotals, Zenon
  <2>4. Within(run.mode, R, P)
    BY <2>2 DEF LimitInv, ValidatedWithin
  <2> QED BY <2>3, <2>4, Zenon DEF LimitHoldsOverResumes, Within
<1> QED BY <1>1, LimitInvariant, PTL
=============================================================================
