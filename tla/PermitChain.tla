------------------------------- MODULE PermitChain -------------------------------
(***************************************************************************)
(* The pre-enable permit of the transcript-ready consumer (scripts/faz24). *)
(*                                                                         *)
(* collect_transcript_ready_pre_enable_evidence.py samples a running       *)
(* system component by component while the system goes on changing;        *)
(* verify_transcript_ready_pre_enable_evidence.py turns the evidence file  *)
(* into a verdict file; sign_transcript_ready_pre_enable_permit.py checks  *)
(* both again and has Vault sign the verdict with a one-use token that     *)
(* bootstrap_faz24_transcript_ready_permit_transit.py issued, under the    *)
(* trust root of build_transcript_ready_permit_trust_root.py.              *)
(*                                                                         *)
(* A ready event is legacy (no analysisRunId, or malformed: the code       *)
(* requires both counts to be zero) or compatible.  Digests of sets are    *)
(* the sets.  Time is in units longer than one command's timeout, so an    *)
(* observation and its observedAt fall in one unit.                        *)
(***************************************************************************)
EXTENDS Integers, FiniteSets

CONSTANTS
    ActivationMode,     \* activationMode of the policy file
    Events,             \* ready events the transcript service may emit
    Signers,            \* invocations of the signer
    Tokens,             \* Vault tokens the bootstrap may issue
    Null,
    Freshness,          \* policy freshnessSeconds
    MaxCollection,      \* policy maxCollectionSeconds
    MaxAge,             \* max_age_seconds of the signer (at most 900 s)
    SkewAllowed,        \* the 30 s a time stamp may lie ahead of the signer
    RedisScanMax,       \* policy redisScanMaxEntries
    MaxOccurrences,     \* bound on how often the relay publishes a row
    MaxClock,           \* bound on the clock
    MaxCollections      \* bound on the collector's invocations

ASSUME PermitConstants ==
    /\ ActivationMode \in {"first-enable", "reactivation"}
    /\ {Freshness, MaxCollection, MaxAge, SkewAllowed, RedisScanMax, MaxOccurrences,
        MaxClock, MaxCollections} \subseteq Nat
    /\ MaxCollection <= Freshness
    /\ Null \notin Nat

VARIABLES
    now,
    image,      \* image of the ready transcript pod: "approved" or "legacy"
    outbox,     \* ready rows of transcript_event_outbox: <<event, kind>>
    stream,     \* occurrences of each row in the retained Redis stream
    remedy,     \* completedAt of each store's accepted remediation, or Null
    col,        \* the collector's run in progress, or Null
    collected,  \* collector invocations so far
    evidence,   \* the evidence file
    verdict,    \* the verdict file
    root,       \* the trust root file has been built
    token,      \* the uses Vault still grants each token
    tokenFile,  \* the signer token file
    issuing,    \* the bootstrap's token that is not yet on disk
    sign,       \* each signer's progress
    permits     \* every permit Vault signed (history)

world == <<image, outbox, stream, remedy>>
files == <<evidence, verdict, root>>
vault == <<token, tokenFile, issuing, sign, permits>>
vars == <<now, world, col, collected, files, vault>>

Times == 0..MaxClock
Rows == Events \X {"legacy", "compatible"}
Stores == {"OUTBOX_REMEDIATION", "REDIS_REMEDIATION"}
Of(kind) == {r \in Rows : r[2] = kind}
InStream == {r \in Rows : stream[r] > 0}
Occurrences(rs, f) == Cardinality({o \in rs \X (1..MaxOccurrences) : o[2] <= f[o[1]]})

Init ==
    /\ now = 0
    /\ image \in {"approved", "legacy"}
    /\ outbox = {} /\ stream = [r \in Rows |-> 0]
    /\ remedy = [s \in Stores |-> Null]
    /\ col = Null /\ collected = 0
    /\ evidence = Null /\ verdict = Null /\ root = FALSE
    /\ token = [k \in Tokens |-> Null] /\ tokenFile = Null /\ issuing = Null
    /\ sign = [s \in Signers |-> Null] /\ permits = {}

-----------------------------------------------------------------------------
(***************************************************************************)
(* The system the collector observes.                                      *)
(***************************************************************************)
Tick ==
    /\ now < MaxClock
    /\ now' = now + 1
    /\ UNCHANGED <<world, col, collected, files, vault>>

\* A collection the verifier refuses whatever the rest of it holds: a read
\* failed, the pod ran a legacy image, or the consumer group was in use.
Hopeless(live) ==
    \/ live = Null
    \/ live["transcriptPod"] # Null /\ live["transcriptPod"].seen = "legacy"
    \/ live["redis"] # Null /\ live["redis"].seen = Null

\* The system is followed while a collection may still observe it to some
\* effect: what it does afterwards changes nothing in the files that counts, and
\* a remediation that ends after a collection began does not count for it.
Watched == (col # Null /\ ~Hopeless(col.live)) \/ collected < MaxCollections

\* Deployments replace the pod's image at any time.
Rollout ==
    /\ Watched
    /\ image' = (IF image = "legacy" THEN "approved" ELSE "legacy")
    /\ UNCHANGED <<now, outbox, stream, remedy,
                   col, collected, files, vault>>

\* The pod writes a ready row: only the approved image fills analysisRunId.
Emit(e) ==
    /\ Watched
    /\ \A r \in outbox : r[1] # e
    /\ outbox' = outbox \cup
                   {<<e, IF image = "legacy" THEN "legacy" ELSE "compatible">>}
    /\ UNCHANGED <<now, image, stream, remedy,
                   col, collected, files, vault>>

\* The relay publishes at least once and keeps the row.
Relay(r) ==
    /\ Watched
    /\ r \in outbox /\ stream[r] < MaxOccurrences
    /\ stream' = [stream EXCEPT ![r] = @ + 1]
    /\ UNCHANGED <<now, image, outbox, remedy,
                   col, collected, files, vault>>

\* What a remediation that takes the legacy rows rs out of a store leaves there:
\* its artifact is valid only when nothing is left (outbox_evidence_valid,
\* redis_evidence_valid).
OutboxLeft(rs) == outbox \cap (Of("legacy") \ rs)
StreamLeft(rs) == InStream \cap (Of("legacy") \ rs)

\* The policy pins one accepted artifact per store, so a complete remediation is
\* not repeated.
Remediate(s, rs) ==
    /\ Watched
    /\ remedy[s] = Null
    /\ \/ /\ s = "OUTBOX_REMEDIATION"
          /\ remedy' = [remedy EXCEPT ![s] = IF OutboxLeft(rs) = {} THEN now ELSE Null]
          /\ outbox' = outbox \ rs
          /\ UNCHANGED stream
       \/ /\ s = "REDIS_REMEDIATION"
          /\ remedy' = [remedy EXCEPT ![s] = IF StreamLeft(rs) = {} THEN now ELSE Null]
          /\ stream' = [r \in Rows |-> IF r \in rs THEN 0 ELSE stream[r]]
          /\ UNCHANGED outbox
    /\ UNCHANGED <<now, image, col, collected, files, vault>>

-----------------------------------------------------------------------------
(***************************************************************************)
(* The collector: five observations in a fixed order.                      *)
(***************************************************************************)
CollectOrder == <<"transcriptPod", "postgresBefore", "redis", "postgresAfter", "gpuHost">>

Components == {"transcriptPod", "postgresBefore", "redis", "postgresAfter", "gpuHost"}

StartCollection ==
    /\ col = Null /\ collected < MaxCollections
    /\ collected' = collected + 1
    /\ col' = [started |-> now, step |-> 1, drained |-> FALSE,
               live |-> [c \in Components |-> Null]]
    /\ UNCHANGED <<now, world, files, vault>>

\* collect_transcript_pod: the image of the one ready pod.
PodSeen == {image}

\* counts_sql, in the one REPEATABLE READ transaction of a snapshot.
OutboxSeen == {outbox}

\* The EVAL_RO script of collect_redis, truncated above RedisScanMax entries.
\* The group is absent (first enable) or idle with an empty PEL (reactivation),
\* or it is in use (Null): then nothing else in the result matters.
RedisSeen == [complete : {Occurrences(Rows, stream) <= RedisScanMax},
              rows : {stream}] \cup {Null}

\* The host script: the consumer's task and its startup gate, in any state.
HostSeen == {"disabled", "enabled"}

Results(c) ==
    CASE c = "transcriptPod" -> PodSeen
      [] c = "redis" -> RedisSeen
      [] c = "gpuHost" -> HostSeen
      [] OTHER -> OutboxSeen

\* One component is read, or its command fails: the evidence is then
\* "collection-blocked", whatever else it holds.  drained is not in the file, it
\* records what was true when Redis was scanned.
CollectNext ==
    /\ col # Null /\ col.step \in DOMAIN CollectOrder
    /\ LET c == CollectOrder[col.step] IN
       \E obs \in [at : {now}, seen : Results(c)] \cup {Null} :
         col' = [col EXCEPT
                   !.step = @ + 1,
                   !.live = IF obs = Null \/ @ = Null THEN Null ELSE [@ EXCEPT ![c] = obs],
                   !.drained = IF c = "redis"
                               THEN (outbox \cup InStream) \cap Of("legacy") = {}
                               ELSE @]
    /\ UNCHANGED <<now, world, collected, files, vault>>

WriteEvidence ==
    /\ col # Null /\ col.step \notin DOMAIN CollectOrder
    /\ evidence' = [id |-> collected, generated |-> now, started |-> col.started,
                    live |-> col.live, drained |-> col.drained]
    /\ col' = Null
    /\ UNCHANGED <<now, world, collected, verdict, root, vault>>

-----------------------------------------------------------------------------
(***************************************************************************)
(* The verifier.                                                           *)
(***************************************************************************)
\* The envelope: complete, fresh, collected within its window.
EnvelopeOk(e, t) ==
    /\ e.live # Null
    /\ \A c \in Components : e.started <= e.live[c].at /\ e.live[c].at <= e.generated
    /\ 0 <= t - e.generated /\ t - e.generated <= Freshness
    /\ e.generated - e.started <= MaxCollection

PodOk(e) == e.live["transcriptPod"].seen = "approved"

\* capability_artifact_valid: the remediation left nothing and ended before the
\* collection started.
ArtifactsOk(e) ==
    \A s \in Stores : remedy[s] # Null /\ remedy[s] < e.started

\* Mutant: the second snapshot is not compared with the first.
OneSnapshot(e) == e.live["postgresBefore"].seen \cap Of("legacy") = {}

PostgresOk(e) ==
    /\ e.live["postgresBefore"].seen = e.live["postgresAfter"].seen
    /\ e.live["postgresBefore"].seen \cap Of("legacy") = {}

\* The scan is complete and found nothing legacy.
RedisScanOk(r) ==
    /\ r.complete
    /\ \A x \in Of("legacy") : r.rows[x] = 0

\* The retained stream is the compatible part of the outbox: the first enable
\* compares occurrences, a reactivation the sets of bindings.
RedisMatchesOutbox(r, compatible) ==
    LET rows == {x \in Rows : r.rows[x] > 0}
    IN  /\ rows = compatible
        /\ ActivationMode = "first-enable"
             => Occurrences(rows, r.rows) = Cardinality(compatible)

RedisOk(e) ==
    LET r == e.live["redis"].seen
    IN  /\ r # Null
        /\ RedisScanOk(r)
        /\ RedisMatchesOutbox(r, e.live["postgresBefore"].seen \cap Of("compatible"))

HostOk(e) == e.live["gpuHost"].seen = "disabled"

Accepts(e, t) ==
    EnvelopeOk(e, t) /\ PodOk(e) /\ ArtifactsOk(e) /\ PostgresOk(e) /\ RedisOk(e) /\ HostOk(e)

\* Nothing is kept of a rejected verdict: the signer refuses it unread.
Verify ==
    /\ evidence # Null
    /\ verdict' = IF Accepts(evidence, now)
                  THEN [of |-> evidence.id, at |-> now, accepted |-> TRUE,
                        podAt |-> evidence.live["transcriptPod"].at]
                  ELSE [accepted |-> FALSE]
    /\ UNCHANGED <<now, world, col, collected, evidence, root, vault>>

-----------------------------------------------------------------------------
(***************************************************************************)
(* Bootstrap, trust root and signer.                                       *)
(***************************************************************************)
\* Mutant: the signer's token may be used twice.
TwoUses == 2

SignerTokenUses == 1

\* bootstrap() up to auth/token/create.  The owner runs it when there is an
\* accepted verdict to sign: otherwise the token could only be thrown away.
CreateToken(k) ==
    /\ verdict # Null /\ verdict.accepted
    /\ issuing = Null /\ token[k] = Null
    /\ token' = [token EXCEPT ![k] = SignerTokenUses]
    /\ issuing' = k
    /\ UNCHANGED <<now, world, col, collected, files, tokenFile, sign, permits>>

\* The token file is new (O_EXCL), or lookup or a write fails and the token is
\* revoked by its accessor; that request, too, may fail.
DeliverToken ==
    /\ issuing # Null
    /\ \/ tokenFile = Null /\ tokenFile' = issuing /\ UNCHANGED token
       \/ /\ token' \in {token, [token EXCEPT ![issuing] = 0]}
          /\ UNCHANGED tokenFile
    /\ issuing' = Null
    /\ UNCHANGED <<now, world, col, collected, files, sign, permits>>

BuildTrustRoot ==
    /\ ~root /\ \E k \in Tokens : token[k] # Null
    /\ root' = TRUE
    /\ UNCHANGED <<now, world, col, collected, evidence, verdict, vault>>

\* The token's time to live ends.
Expire(k) ==
    /\ token[k] # Null /\ token[k] > 0
    /\ token' = [token EXCEPT ![k] = 0]
    /\ UNCHANGED <<now, world, col, collected, files, tokenFile, issuing, sign, permits>>

\* _validate_trust_root and _validate_verdict.
VerdictSignable ==
    /\ root
    /\ verdict # Null /\ verdict.accepted
    /\ -SkewAllowed <= now - verdict.at /\ now - verdict.at <= MaxAge
    /\ verdict.podAt <= verdict.at /\ verdict.at - verdict.podAt <= MaxAge
    /\ now - verdict.podAt <= MaxAge

\* _recompute_canonical_verdict, from the files as they are now.
Recomputed ==
    /\ evidence # Null /\ evidence.id = verdict.of
    /\ Accepts(evidence, verdict.at)

\* sign_permit up to Vault: the token is read first; a refusal goes to cleanup.
\* The trust root's window and pin, and the intent's arguments, may fail too.
SignCheck(s) ==
    /\ sign[s] = Null /\ tokenFile # Null
    /\ \/ /\ VerdictSignable /\ Recomputed
          /\ sign' = [sign EXCEPT ![s] = [pc |-> "vault", tok |-> tokenFile,
                                          at |-> now, evidence |-> evidence]]
       \/ sign' = [sign EXCEPT ![s] = [pc |-> "cleanup", tok |-> tokenFile]]
    /\ UNCHANGED <<now, world, col, collected, files, token, tokenFile,
                   issuing, permits>>

\* Vault signs and counts the use, or refuses a token that is not live.
SignVault(s) ==
    /\ sign[s] # Null /\ sign[s].pc = "vault"
    /\ LET k == sign[s].tok IN
       IF token[k] > 0
       THEN /\ token' = [token EXCEPT ![k] = @ - 1]
            /\ permits' = permits \cup
                 {[by |-> s, at |-> sign[s].at, evidence |-> sign[s].evidence]}
       ELSE UNCHANGED <<token, permits>>
    /\ sign' = [sign EXCEPT ![s] = [pc |-> "cleanup", tok |-> @.tok]]
    /\ UNCHANGED <<now, world, col, collected, files, tokenFile, issuing>>

\* The finally clause: revoke-self (which may fail), then unlink the file,
\* whichever token it holds by now.
SignCleanup(s) ==
    /\ sign[s] # Null /\ sign[s].pc = "cleanup"
    /\ token' \in {token, [token EXCEPT ![sign[s].tok] = 0]}
    /\ tokenFile' = Null
    /\ sign' = [sign EXCEPT ![s] = [pc |-> "done"]]
    /\ UNCHANGED <<now, world, col, collected, files, issuing, permits>>

Next ==
    \/ Tick \/ Rollout
    \/ \E e \in Events : Emit(e)
    \/ \E r \in Rows : Relay(r)
    \/ \E s \in Stores, rs \in SUBSET Of("legacy") : Remediate(s, rs)
    \/ StartCollection \/ CollectNext \/ WriteEvidence \/ Verify
    \/ \E k \in Tokens : CreateToken(k) \/ Expire(k)
    \/ DeliverToken \/ BuildTrustRoot
    \/ \E s \in Signers : SignCheck(s) \/ SignVault(s) \/ SignCleanup(s)

Spec == Init /\ [][Next]_vars

-----------------------------------------------------------------------------
(***************************************************************************)
(* Properties.                                                             *)
(***************************************************************************)
\* A signed permit is true and fresh.  When Redis was scanned for it, neither
\* store held a legacy event, although the outbox is read only before and after
\* the scan: this rests on the double snapshot, on rows staying where they are,
\* and on the order of remediation and collection.  And no observation behind it
\* was older than MaxAge when the signer checked it, though the signer looks at
\* the age of the pod's observation alone.
PermitIsJustified ==
    \A p \in permits :
        /\ p.evidence.drained
        /\ \A c \in Components : p.at - p.evidence.live[c].at <= MaxAge

\* Concurrent signers that read the same token file get one permit from it.
OneTokenOnePermit ==
    Cardinality(permits) <= Cardinality({k \in Tokens : token[k] # Null})
=============================================================================
