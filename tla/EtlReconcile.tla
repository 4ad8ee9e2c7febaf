---------------------------- MODULE EtlReconcile ----------------------------
(***************************************************************************)
(* reconcile.py and the reconcile command of the ETL worker: after a load  *)
(* the rows of the MSSQL source are compared with the canonical tables in  *)
(* PostgreSQL, table by table, by several queries on two databases that    *)
(* share no transaction.  The source is in use, and the worker may load    *)
(* again, while the queries run.                                           *)
(*                                                                         *)
(* A row is its content: v1, v2, bad (transform_row rejects it) or none.   *)
(* A content hash is the content it is of.                                 *)
(***************************************************************************)
EXTENDS AcceptanceJob, Naturals, Sequences, FiniteSets, FiniteSetsExt, SequencesExt

CONSTANTS EtlTables,             \* the tables of the manifest, in order
          EtlKeys,               \* the idempotency keys a row may have
          EtlStart,              \* the contents of the databases before the command
          SampleRows, RowLimit,  \* the sizes of the sample and of limited scope
          MaxEtlChanges          \* bound: changes while the command runs

TableNames == ToSet(EtlTables)

(* PostgreSQL holds no row that transform_row rejected. *)
SourceContents == {"none", "v1", "v2", "bad"}
PgContents == {"none", "v1", "v2"}

ASSUME ReconcileAssumption ==
  /\ EtlTables \in Seq(TableNames) /\ EtlTables # <<>>
  /\ IsFiniteSet(EtlKeys) /\ EtlKeys \subseteq Nat
  /\ EtlStart \subseteq [src : [TableNames -> [EtlKeys -> SourceContents]],
                        pg : [TableNames -> [EtlKeys -> PgContents]]]

NoRows == [k \in {} |-> "none"]

ReconcileInit ==
  /\ lane = "reconcile"
  /\ \E start \in EtlStart : env = [src |-> start.src, pg |-> start.pg, changes |-> 0]
  /\ job = [pc |-> "connect", scope |-> "none", at |-> 1, nMssql |-> 0, nPg |-> 0,
            exp |-> NoRows, found |-> NoRows, sum |-> NoRows, verdicts |-> <<>>,
            verdict |-> "none"]

Table == EtlTables[job.at]
Present(rows) == {k \in DOMAIN rows : rows[k] # "none"}
Only(rows, keys) == [k \in keys |-> rows[k]]

-----------------------------------------------------------------------------
(* The source and the loader (EtlWorker).  Loading never deletes. *)

SourceChanges ==
  /\ Live("reconcile") /\ env.changes < MaxEtlChanges
  /\ \E t \in TableNames, k \in EtlKeys, c \in {"none", "v2", "bad"} :
       /\ c # env.src[t][k]
       /\ Step([env EXCEPT !.src[t][k] = c, !.changes = @ + 1], job)

(* transform_row refuses a row with this content. *)
RowRejected(c) == c = "bad"

RowLoaded ==
  /\ Live("reconcile") /\ env.changes < MaxEtlChanges
  /\ \E t \in TableNames, k \in EtlKeys :
       /\ env.src[t][k] \notin {"none", env.pg[t][k]} /\ ~ RowRejected(env.src[t][k])
       /\ Step([env EXCEPT !.pg[t][k] = env.src[t][k], !.changes = @ + 1], job)

-----------------------------------------------------------------------------
(* The queries. *)

(* _mssql_fetch_scoped_rows: ordered by the idempotency key; limited scope
   takes the rows it expects, full scope only the sample. *)
Rank(keys, k) == Cardinality({i \in keys : i < k})
FirstKeys(keys, n) == {k \in keys : Rank(keys, k) < n}
MssqlFetch(limit) == LET p == Present(env.src[Table]) IN Only(env.src[Table], FirstKeys(p, limit))

(* _pg_lookup_hashes: the expected keys that PostgreSQL has. *)
PgLookup(keys) == Only(env.pg[Table], keys \cap Present(env.pg[Table]))

(* string_agg(content_hash ORDER BY source_pk): the contents in key order,
   without a mark where a key has no row.  Hashes have one length. *)
KeyAt(keys, i) == CHOOSE k \in keys : Rank(keys, k) = i - 1
Aggregate(rows) == [i \in 1..Cardinality(DOMAIN rows) |-> rows[KeyAt(DOMAIN rows, i)]]

(* The Python side marks a rejected row, so it equals no hash: bad stands
   for the mark. *)
MssqlAggregate == Aggregate(job.exp)

-----------------------------------------------------------------------------
(* The verdicts. *)

(* A sample row of limited scope fails when transform_row rejects it; in full
   scope two missing hashes are equal. *)
SampleHash(k) == IF k \in DOMAIN job.found THEN job.found[k] ELSE "none"
SampleMatches(k) ==
  IF RowRejected(job.exp[k]) THEN job.scope = "full" /\ SampleHash(k) = "none"
  ELSE SampleHash(k) = job.exp[k]
Sample == FirstKeys(DOMAIN job.exp, SampleRows)

(* _mssql_aggregate_checksum returns None in full scope, and a comparison
   with None is left out; an empty expected set has no checksum. *)

(* Mutant: the checksum is computed and never compared. *)
ChecksumIgnored == FALSE
ChecksumDiffers ==
  job.scope = "limited" /\ job.exp # NoRows /\ Aggregate(job.sum) # MssqlAggregate
  /\ job.sum # NoRows

AssignVerdict ==
  IF job.nPg # job.nMssql THEN "ROW_COUNT_MISMATCH"
  ELSE IF \E k \in Sample : ~ SampleMatches(k) THEN "SAMPLE_MISMATCH"
  ELSE IF ChecksumDiffers THEN "CHECKSUM_MISMATCH"
  ELSE "MATCH"

(* overall_verdict: the first of the worst tables. *)
Priority(v) == IF v = "MATCH" THEN 0 ELSE IF v = "CHECKSUM_MISMATCH" THEN 2 ELSE 1
OverallVerdict(vs) ==
  vs[Min({i \in DOMAIN vs : \A j \in DOMAIN vs : Priority(vs[j]) <= Priority(vs[i])})]

-----------------------------------------------------------------------------
(* The command. *)

(* MSSQL unreachable is exit 2; delta scope raises before any query because
   the command gives no checkpoint column. *)
Connect ==
  /\ At("reconcile", "connect")
  /\ \/ \E s \in {"limited", "full"} :
          Step(env, [job EXCEPT !.pc = IF s = "limited" THEN "expect" ELSE "count", !.scope = s])
     \/ Step(env, Ends(job, "error"))

(* A query that raises ends the command without a report. *)
QueryRaises ==
  /\ lane = "reconcile" /\ job.pc \notin {"connect", "judged", "done"}
  /\ Step(env, Ends([job EXCEPT !.exp = NoRows, !.found = NoRows, !.sum = NoRows], "error"))

(* Limited scope: the expected rows, which of them are there, their checksum. *)
FetchExpected ==
  /\ At("reconcile", "expect")
  /\ LET rows == MssqlFetch(RowLimit)
     IN  Step(env, [job EXCEPT !.pc = "lookup", !.exp = rows,
                               !.nMssql = Cardinality(DOMAIN rows)])

LookupHashes ==
  /\ At("reconcile", "lookup")
  /\ LET found == PgLookup(DOMAIN job.exp)
     IN  IF job.scope = "full" THEN Step(env, [job EXCEPT !.pc = "verdict", !.found = found])
         ELSE Step(env, [job EXCEPT !.pc = "checksum", !.found = found,
                                    !.nPg = Cardinality(DOMAIN found)])

ChecksumPg ==
  /\ At("reconcile", "checksum")
  /\ IF job.scope = "full"
     THEN Step(env, [job EXCEPT !.pc = "sample", !.sum = PgLookup(EtlKeys)])
     ELSE Step(env, [job EXCEPT !.pc = "verdict", !.sum = PgLookup(DOMAIN job.exp)])

(* Full scope: both counts, the PostgreSQL checksum, then the sample. *)
CountMssql ==
  /\ At("reconcile", "count")
  /\ Step(env, [job EXCEPT !.pc = "countpg", !.nMssql = Cardinality(Present(env.src[Table]))])
CountPg ==
  /\ At("reconcile", "countpg")
  /\ Step(env, [job EXCEPT !.pc = "checksum", !.nPg = Cardinality(Present(env.pg[Table]))])
FetchSample ==
  /\ At("reconcile", "sample")
  /\ Step(env, [job EXCEPT !.pc = "lookup", !.exp = MssqlFetch(SampleRows)])

JudgeTable ==
  /\ At("reconcile", "verdict")
  /\ Step(env, [job EXCEPT !.pc = "judged", !.verdicts = Append(@, AssignVerdict)])

(* The next table, or the report with the overall verdict. *)
NextTable ==
  /\ At("reconcile", "judged")
  /\ LET j == [job EXCEPT !.exp = NoRows, !.found = NoRows, !.sum = NoRows, !.nPg = 0, !.nMssql = 0]
     IN  IF job.at < Len(EtlTables)
         THEN Step(env, [j EXCEPT !.at = @ + 1, !.pc = IF job.scope = "full" THEN "count" ELSE "expect"])
         ELSE Step(env, Ends(j, OverallVerdict(job.verdicts)))

ReconcileNext ==
  \/ SourceChanges \/ RowLoaded \/ Connect \/ QueryRaises \/ FetchExpected \/ LookupHashes
  \/ ChecksumPg \/ CountMssql \/ CountPg \/ FetchSample \/ JudgeTable \/ NextTable

-----------------------------------------------------------------------------
(***************************************************************************)
(* _assign_verdict: a table that matches in limited scope had, for every   *)
(* expected row and not only for the sample, the content that was read     *)
(* from the source, although four queries read it at four times; a         *)
(* rejected row never matches.  A report that matches covers every table   *)
(* of the manifest.                                                        *)
(***************************************************************************)
MatchMeansSameRows ==
  lane = "reconcile" =>
    /\ job.pc = "judged" /\ job.scope = "limited" /\ Last(job.verdicts) = "MATCH" =>
         \A k \in DOMAIN job.exp :
           k \in DOMAIN job.sum /\ job.sum[k] = job.exp[k] /\ ~ RowRejected(job.exp[k])
    /\ job.verdict = "MATCH" =>
         Len(job.verdicts) = Len(EtlTables) /\ \A i \in DOMAIN job.verdicts : job.verdicts[i] = "MATCH"
=============================================================================
