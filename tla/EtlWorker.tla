----------------------------- MODULE EtlWorker -----------------------------
(***************************************************************************)
(* The MSSQL to PostgreSQL ETL worker (scripts/migration/etl_worker): the  *)
(* audit rows of one run_id (audit.py), the canonical tables, and the      *)
(* processes an operator starts for that run, new or with --resume         *)
(* (cli.py, runner.py, load.py, retry.py).                                 *)
(*                                                                         *)
(* Every PostgreSQL transaction is one action: the audit connection        *)
(* autocommits each statement, the load connection commits a batch, or row *)
(* by row after the batch failed.  A process may die, lose a statement, or *)
(* raise between any two of them.  A statement that took effect although   *)
(* its answer was lost is its success followed by a failure of the next.   *)
(*                                                                         *)
(* The MSSQL source is external and live: an extraction finds any rows,    *)
(* whatever an earlier one found.  default_mssql_extract yields at most    *)
(* one batch, always from offset 0.  A row is its key; its content is what *)
(* happens to it: transform_row refuses it, PostgreSQL refuses it for good *)
(* (a NO_RETRY SQLSTATE), or neither.                                      *)
(***************************************************************************)
EXTENDS Integers, Sequences, FiniteSets, FiniteSetsExt

CONSTANTS
  Workers,       \* CLI processes started for the run_id
  Manifest,      \* tables.yaml: the sequence of the tables
  Rows,          \* keys of the rows the source may hold, by table
  Modes,         \* DB_MODE_VALUES the run may be created with
  MaxAttempts,   \* BackoffPolicy.max_attempts
  RatioNum,      \* max_reject_ratio = RatioNum / RatioDen
  RatioDen,
  NoOne          \* the advisory lock is free

Tables == {Manifest[i] : i \in 1..Len(Manifest)}
Keys == UNION {Rows[t] : t \in Tables}

ASSUME EtlAssumption ==
  /\ Manifest \in Seq(Tables)
  /\ \A i, j \in 1..Len(Manifest) : Manifest[i] = Manifest[j] => i = j
  /\ DOMAIN Rows = Tables
  /\ IsFiniteSet(Keys)
  /\ Modes \subseteq {"initial", "final_delta", "reconcile_only", "dry_run"}
  /\ MaxAttempts \in Nat
  /\ RatioNum \in Nat
  /\ RatioDen \in Nat \ {0}
  /\ NoOne \notin Workers

VARIABLES
  lock,      \* holder of the advisory lock of the run_id
  run,       \* the migration_runs row: status and mode
  tab,       \* migration_table_state: the status of each table
  rejects,   \* migration_rejects: the rows a record stands for
  canon,     \* the canonical tables: the rows loaded
  proc,      \* the processes
  last       \* history: what the last extraction of a table came to

vars == <<lock, run, tab, rejects, canon, proc, last>>
auditVars == <<run, tab, rejects>>

(* The local variables of run_orchestrator: at is the place of the table   *)
(* loop in the manifest, stats is LoadStats.rejects, left the rows that    *)
(* load_batch has still to try one by one.                                 *)
NewProcess ==
  [pc |-> "idle", resume |-> FALSE, tables |-> {}, at |-> 1,
   skip |-> {}, refused |-> {}, typed |-> {}, unstorable |-> {},
   left |-> {}, stats |-> {}, attempt |-> 0, rejected |-> 0,
   processed |-> 0, outcome |-> "none"]

NoExtraction == [rows |-> {}, rejected |-> 0, processed |-> 0]

Init ==
  /\ lock = NoOne
  /\ run = [status |-> "none", mode |-> "none"]
  /\ tab = [t \in Tables |-> "none"]
  /\ rejects = [t \in Tables |-> {}]
  /\ canon = [t \in Tables |-> {}]
  /\ proc = [w \in Workers |-> NewProcess]
  /\ last = [t \in Tables |-> NoExtraction]

-----------------------------------------------------------------------------
At(w, label) == proc[w].pc = label
Update(w, p) == proc' = [proc EXCEPT ![w] = p]
Goto(w, label) == Update(w, [proc[w] EXCEPT !.pc = label])
Return(w, outcome) ==
  Update(w, [NewProcess EXCEPT !.pc = "unlock", !.outcome = outcome,
                               !.tables = proc[w].tables])
Table(w) == Manifest[proc[w].at]

(* upsert_table_state, without the counters, which only add up.            *)
Upsert(t, status) == tab' = [tab EXCEPT ![t] = status]

(* run_owned: the row of this run_id is this process's to write.           *)
Owned(w) == proc[w].pc \notin {"idle", "preflight", "attach", "unlock", "done"}

(* _safe_audit_status: the write may fail, and the failure is swallowed.   *)
SafeAuditStatus(status) ==
  run' \in {run, [run EXCEPT !.status = status]}

Abort(w) ==
  /\ SafeAuditStatus("ABORTED")
  /\ Return(w, "ABORTED")
  /\ UNCHANGED tab

(* ThresholdPolicy.should_abort.                                           *)
ShouldAbort(mode, rejected, processed) ==
  \/ mode = "final_delta" /\ rejected > 0
  \/ /\ mode \in {"initial", "reconcile_only"}
     /\ processed > 0
     /\ rejected * RatioDen > RatioNum * processed

(* rejected_total and processed_total, and what of them is this table's.   *)
Count(w, rejected, processed, label) ==
  /\ Update(w, [proc[w] EXCEPT !.pc = label,
                               !.rejected = @ + rejected,
                               !.processed = @ + processed])
  /\ last' = [last EXCEPT ![Table(w)].rejected = @ + rejected,
                          ![Table(w)].processed = @ + processed]

-----------------------------------------------------------------------------
(* The run command: a new run, or one resumed after the state lookup found *)
(* the run and a table of it; --tables filters the manifest.               *)
Invoke(w, resume, tables) ==
  /\ At(w, "idle")
  /\ lock = NoOne
  /\ resume => run.status # "none" /\ \E t \in Tables : tab[t] # "none"
  /\ lock' = w
  /\ Update(w, [NewProcess EXCEPT !.pc = "preflight", !.resume = resume,
                                  !.tables = tables])
  /\ UNCHANGED <<auditVars, canon, last>>

LockContended(w) ==
  /\ At(w, "idle")
  /\ lock # NoOne
  /\ Update(w, [NewProcess EXCEPT !.pc = "done", !.outcome = "LOCK_CONTENDED"])
  /\ UNCHANGED <<lock, auditVars, canon, last>>

ResumeRefused(w) ==
  /\ At(w, "idle")
  /\ run.status = "none" \/ \A t \in Tables : tab[t] = "none"
  /\ Update(w, [NewProcess EXCEPT !.pc = "done", !.outcome = "REFUSED"])
  /\ UNCHANGED <<lock, auditVars, canon, last>>

Preflight(w) ==
  /\ At(w, "preflight")
  /\ Goto(w, "attach")
  /\ UNCHANGED <<lock, auditVars, canon, last>>

CreateRun(w, mode) ==
  /\ At(w, "attach")
  /\ ~proc[w].resume
  /\ IF run.status = "none"
     THEN /\ run' = [status |-> "RUNNING", mode |-> mode]
          /\ Goto(w, "next")
     ELSE /\ Return(w, "RUN_EXISTS")
          /\ UNCHANGED run
  /\ UNCHANGED <<lock, tab, rejects, canon, last>>

\* Mutant: a resume skips every table that was started.
ResumeSkipsStarted(w) ==
  /\ At(w, "attach")
  /\ proc[w].resume
  /\ Update(w, [proc[w] EXCEPT !.pc = "next",
                  !.skip = {t \in Tables : tab[t] # "none"}])
  /\ UNCHANGED <<lock, auditVars, canon, last>>

(* get_run and get_resume_state; the CLI has seen that the run exists.     *)
ResumeRun(w) ==
  /\ At(w, "attach")
  /\ proc[w].resume
  /\ Update(w, [proc[w] EXCEPT !.pc = "next",
                  !.skip = {t \in Tables : tab[t] = "VALIDATED"}])
  /\ UNCHANGED <<lock, auditVars, canon, last>>

-----------------------------------------------------------------------------
(* The table loop: a table may be filtered out, or VALIDATED when the      *)
(* process attached to the run.                                            *)
ToDo(w) == Table(w) \in proc[w].tables \ proc[w].skip

SkipTable(w) ==
  /\ At(w, "next")
  /\ proc[w].at <= Len(Manifest)
  /\ ~ToDo(w)
  /\ Update(w, [proc[w] EXCEPT !.at = @ + 1])
  /\ UNCHANGED <<lock, auditVars, canon, last>>

StartTable(w) ==
  /\ At(w, "next")
  /\ proc[w].at <= Len(Manifest)
  /\ ToDo(w)
  /\ Upsert(Table(w), "EXTRACTING")
  /\ Goto(w, "extract")
  /\ UNCHANGED <<lock, run, rejects, canon, last>>

(* The source holds refused rows, which transform_row will not pass,       *)
(* unstorable ones, and good ones; an empty source yields no batch.        *)
Extract(w, refused, unstorable, good) ==
  LET typed == unstorable \cup good
      rows == refused \cup typed
  IN
  /\ At(w, "extract")
  /\ rows \subseteq Rows[Table(w)]
  /\ refused \cap typed = {} /\ unstorable \cap good = {}
  /\ Update(w, [proc[w] EXCEPT
       !.pc = IF rows = {} THEN "validate"
              ELSE IF refused = {} THEN "bulk" ELSE "refused",
       !.refused = refused, !.typed = typed, !.unstorable = unstorable,
       !.stats = {}, !.attempt = 0])
  /\ last' = [last EXCEPT ![Table(w)] =
                [NoExtraction EXCEPT !.rows = rows]]
  /\ UNCHANGED <<lock, auditVars, canon>>

InsertTransformRejects(w) ==
  /\ At(w, "refused")
  /\ rejects' = [rejects EXCEPT ![Table(w)] = @ \cup proc[w].refused]
  /\ Goto(w, "refusedCount")
  /\ UNCHANGED <<lock, run, tab, canon, last>>

\* Mutant: a batch refused as a whole is not held against the threshold.
RefusedBatchPasses(w) ==
  LET n == Cardinality(proc[w].refused) IN
  /\ At(w, "refusedCount")
  /\ Upsert(Table(w), "LOADING")
  /\ Count(w, n, n, IF proc[w].typed = {} THEN "validate" ELSE "bulk")
  /\ UNCHANGED <<lock, run, rejects, canon>>

RecordTransformFailure(w) ==
  LET n == Cardinality(proc[w].refused) IN
  /\ At(w, "refusedCount")
  /\ Upsert(Table(w), "LOADING")
  /\ Count(w, n, n, IF proc[w].typed = {} THEN "threshold" ELSE "bulk")
  /\ UNCHANGED <<lock, run, rejects, canon>>

-----------------------------------------------------------------------------
\* Mutant: LoadStats.rejects are counted and not persisted.
RejectsNotPersisted(stats) == "success"

(* load_batch: one transaction for the batch, then one for each row.       *)
AfterLoad(stats) == IF stats = {} THEN "success" ELSE "rejects"

BulkLoads(w) ==
  /\ At(w, "bulk")
  /\ proc[w].unstorable = {}
  /\ canon' = [canon EXCEPT ![Table(w)] = @ \cup proc[w].typed]
  /\ Goto(w, AfterLoad({}))
  /\ UNCHANGED <<lock, auditVars, last>>

(* NO_RETRY or TRANSIENT; a lost answer may hide a commit.                 *)
BulkFails(w) ==
  /\ At(w, "bulk")
  /\ \/ UNCHANGED canon
     \/ /\ proc[w].unstorable = {}
        /\ canon' = [canon EXCEPT ![Table(w)] = @ \cup proc[w].typed]
  /\ Update(w, [proc[w] EXCEPT !.pc = "row", !.left = proc[w].typed,
                               !.stats = {}])
  /\ UNCHANGED <<lock, auditVars, last>>

(* The row is stored or becomes a LoadReject.                              *)
RowDone(w, r) ==
  LET rest == proc[w].left \ {r}
      stats == proc[w].stats \cup ({r} \cap proc[w].unstorable)
  IN
  /\ At(w, "row")
  /\ r \in proc[w].left
  /\ canon' = [canon EXCEPT ![Table(w)] = @ \cup ({r} \ proc[w].unstorable)]
  /\ Update(w, [proc[w] EXCEPT
       !.pc = IF rest = {} THEN AfterLoad(stats) ELSE "row",
       !.left = rest, !.stats = stats])
  /\ UNCHANGED <<lock, auditVars, last>>

-----------------------------------------------------------------------------
(* The audit hooks of a loaded batch, inside the same try as load_batch.   *)
InsertLoadRejects(w) ==
  /\ At(w, "rejects")
  /\ rejects' = [rejects EXCEPT ![Table(w)] = @ \cup proc[w].stats]
  /\ Goto(w, "success")
  /\ UNCHANGED <<lock, run, tab, canon, last>>

RecordBatchSuccess(w) ==
  /\ At(w, "success")
  /\ Upsert(Table(w), "LOADING")
  /\ IF proc[w].stats = {}
     THEN Count(w, 0, Cardinality(proc[w].typed), "threshold")
     ELSE Goto(w, "failure") /\ UNCHANGED last
  /\ UNCHANGED <<lock, run, rejects, canon>>

RecordBatchFailure(w) ==
  LET n == Cardinality(proc[w].stats) IN
  /\ At(w, "failure")
  /\ Upsert(Table(w), "LOADING")
  /\ Count(w, n, Cardinality(proc[w].typed), "threshold")
  /\ UNCHANGED <<lock, run, rejects, canon>>

InTry(w) == proc[w].pc \in {"bulk", "row", "rejects", "success", "failure"}

CriticalError(w) ==
  /\ InTry(w)
  /\ Abort(w)
  /\ UNCHANGED <<lock, rejects, canon, last>>

(* A TRANSIENT error; from a row's transaction, which may have committed.  *)
TransientError(w) ==
  /\ InTry(w) /\ ~At(w, "bulk")
  /\ \/ UNCHANGED canon
     \/ \E r \in proc[w].left \ proc[w].unstorable :
          canon' = [canon EXCEPT ![Table(w)] = @ \cup {r}]
  /\ IF proc[w].attempt + 1 > MaxAttempts
     THEN Abort(w)
     ELSE /\ Update(w, [proc[w] EXCEPT !.pc = "bulk", !.attempt = @ + 1,
                                       !.left = {}, !.stats = {}])
          /\ UNCHANGED <<run, tab>>
  /\ UNCHANGED <<lock, rejects, last>>

(* A NO_RETRY error that reaches the runner comes from an audit hook: one  *)
(* reject without a source_pk stands for the batch.                        *)
InsertBatchReject(w) ==
  /\ proc[w].pc \in {"rejects", "success", "failure"}
  /\ rejects' = [rejects EXCEPT ![Table(w)] = @ \cup proc[w].typed]
  /\ Goto(w, "batchFailure")
  /\ UNCHANGED <<lock, run, tab, canon, last>>

RecordWholeBatchFailure(w) ==
  LET n == Cardinality(proc[w].typed) IN
  /\ At(w, "batchFailure")
  /\ Upsert(Table(w), "LOADING")
  /\ Count(w, n, n, "threshold")
  /\ UNCHANGED <<lock, run, rejects, canon>>

-----------------------------------------------------------------------------
CheckThreshold(w) ==
  /\ At(w, "threshold")
  /\ IF ShouldAbort(run.mode, proc[w].rejected, proc[w].processed)
     THEN Abort(w)
     ELSE Goto(w, "validate") /\ UNCHANGED <<run, tab>>
  /\ UNCHANGED <<lock, rejects, canon, last>>

ValidateTable(w) ==
  /\ At(w, "validate")
  /\ Upsert(Table(w), "VALIDATED")
  /\ Update(w, [proc[w] EXCEPT !.pc = "next", !.at = @ + 1,
                  !.refused = {}, !.typed = {}, !.unstorable = {},
                  !.left = {}, !.stats = {}, !.attempt = 0])
  /\ UNCHANGED <<lock, run, rejects, canon, last>>

FinishRun(w) ==
  /\ At(w, "next")
  /\ proc[w].at > Len(Manifest)
  /\ run' = [run EXCEPT !.status = "SUCCESS"]
  /\ Return(w, "SUCCESS")
  /\ UNCHANGED <<lock, tab, rejects, canon, last>>

(* Any other exception, a failed preflight or connection among them.       *)
UnexpectedError(w) ==
  /\ proc[w].pc \notin {"idle", "unlock", "done"}
  /\ IF Owned(w) THEN SafeAuditStatus("FAILED") ELSE UNCHANGED run
  /\ Return(w, "FAILED")
  /\ UNCHANGED <<lock, tab, rejects, canon, last>>

ReleaseLock(w) ==
  /\ At(w, "unlock")
  /\ lock' = NoOne
  /\ Goto(w, "done")
  /\ UNCHANGED <<auditVars, canon, last>>

(* The process is killed: its session ends, and the lock with it.          *)
Crash(w) ==
  /\ proc[w].pc \notin {"idle", "done"}
  /\ lock' = NoOne
  /\ Update(w, [NewProcess EXCEPT !.pc = "done", !.outcome = "CRASHED"])
  /\ UNCHANGED <<auditVars, canon, last>>

Step(w) ==
  \/ Preflight(w) \/ \E m \in Modes : CreateRun(w, m)
  \/ ResumeRun(w) \/ SkipTable(w) \/ StartTable(w)
  \/ \E refused, unstorable, good \in SUBSET Keys :
       Extract(w, refused, unstorable, good)
  \/ InsertTransformRejects(w) \/ RecordTransformFailure(w)
  \/ BulkLoads(w) \/ BulkFails(w) \/ \E r \in proc[w].left : RowDone(w, r)
  \/ InsertLoadRejects(w) \/ RecordBatchSuccess(w) \/ RecordBatchFailure(w)
  \/ CriticalError(w) \/ TransientError(w)
  \/ InsertBatchReject(w) \/ RecordWholeBatchFailure(w)
  \/ CheckThreshold(w) \/ ValidateTable(w) \/ FinishRun(w)
  \/ UnexpectedError(w) \/ ReleaseLock(w)

Next ==
  \E w \in Workers :
    \/ \E resume \in BOOLEAN, tables \in SUBSET Tables \ {{}} :
         Invoke(w, resume, tables)
    \/ LockContended(w) \/ ResumeRefused(w) \/ Step(w) \/ Crash(w)

Spec == Init /\ [][Next]_vars

-----------------------------------------------------------------------------
Statuses == {"none", "RUNNING", "SUCCESS", "FAILED", "ABORTED"}
TableStatuses == {"none", "EXTRACTING", "LOADING", "VALIDATED"}
Labels == {"idle", "preflight", "attach", "next", "extract", "refused",
           "refusedCount", "bulk", "row", "rejects", "success", "failure",
           "batchFailure", "threshold", "validate", "unlock", "done"}

Outcomes == {"none", "SUCCESS", "FAILED", "ABORTED", "LOCK_CONTENDED",
             "RUN_EXISTS", "REFUSED", "CRASHED"}

Process ==
  [pc : Labels, resume : BOOLEAN, tables : SUBSET Tables,
   at : 1..(Len(Manifest) + 1), skip : SUBSET Tables,
   refused : SUBSET Keys, typed : SUBSET Keys, unstorable : SUBSET Keys,
   left : SUBSET Keys, stats : SUBSET Keys, attempt : 0..MaxAttempts,
   rejected : Nat, processed : Nat, outcome : Outcomes]

(* The database and the processes hold values of their types; a batch is   *)
(* retried MaxAttempts times at most.                                      *)
TypeOK ==
  /\ lock \in Workers \cup {NoOne}
  /\ run \in [status : Statuses, mode : Modes \cup {"none"}]
  /\ tab \in [Tables -> TableStatuses]
  /\ rejects \in [Tables -> SUBSET Keys]
  /\ canon \in [Tables -> SUBSET Keys]
  /\ proc \in [Workers -> Process]
  /\ last \in [Tables -> [rows : SUBSET Keys, rejected : Nat,
                          processed : Nat]]

Validated == {t \in Tables : tab[t] = "VALIDATED"}

(* No row is lost: every row the extraction behind a VALIDATED table found *)
(* is in the canonical table or stands in migration_rejects, whatever      *)
(* retries, lost answers, audit errors, crashes and resumes came between   *)
(* (load_batch, the batch loop of run_orchestrator).                       *)
ValidatedAccounted ==
  \A t \in Validated : last[t].rows \subseteq canon[t] \cup rejects[t]

(* The reject limit holds over all the tables a run validated, although    *)
(* rejected_total and processed_total start from zero in every process:    *)
(* resuming a run never gets more rejects past the threshold than one      *)
(* process would have (ThresholdPolicy.should_abort).                      *)
LimitHoldsOverResumes ==
  LET rejected == MapThenSumSet(LAMBDA t : last[t].rejected, Validated)
      processed == MapThenSumSet(LAMBDA t : last[t].processed, Validated)
  IN /\ run.mode = "final_delta" => rejected = 0
     /\ run.mode \in {"initial", "reconcile_only"} =>
          rejected * RatioDen <= RatioNum * processed

(* A process that returns SUCCESS leaves every table it was asked for      *)
(* VALIDATED, by itself or by a process before it, and no process started  *)
(* later takes that back (get_resume_state, the skip of VALIDATED tables). *)
SuccessIsComplete ==
  \A w \in Workers :
    proc[w].outcome = "SUCCESS" => proc[w].tables \subseteq Validated

(* The canonical rows behind a VALIDATED table stay as they were accounted *)
(* for: no process extracts or loads that table again.                     *)
ValidatedIsFinal ==
  [][\A t \in Validated :
       tab'[t] = tab[t] /\ canon'[t] = canon[t] /\ last'[t] = last[t]]_vars
=============================================================================
