---------------------------- MODULE PermitChainProofs ----------------------------
(***************************************************************************)
(* The permit of the transcript-ready consumer for any numbers of events,  *)
(* signers and tokens and any ages.                                        *)
(*                                                                         *)
(* PermitIsJustified needs three things.  The outbox loses rows only to a  *)
(* remediation, and none runs after the one the policy accepts: a legacy   *)
(* row that was there when Redis was scanned is still there at the second  *)
(* snapshot.  The pod is observed first, so its age bounds the others'.    *)
(* And an evidence file with the verdict's collection ID is the file the   *)
(* verdict was made from.  OneTokenOnePermit counts spent tokens.          *)
(***************************************************************************)
EXTENDS PermitChain, FiniteSetTheorems, TLAPS

Legacy == Of("legacy")

\* The accepted remediation of the outbox ended before t.
RemedyBefore(t) ==
  /\ remedy["OUTBOX_REMEDIATION"] # Null
  /\ remedy["OUTBOX_REMEDIATION"] < t

\* The first n - 1 observations: the pod's is the oldest.
PodFirst(live, n) ==
  \A i \in 1..5 : i < n =>
    /\ live[CollectOrder[i]].at \in Nat
    /\ live["transcriptPod"].at <= live[CollectOrder[i]].at

RedisClean(live) == live["redis"].seen # Null /\ RedisScanOk(live["redis"].seen)

\* Redis held nothing legacy when it was scanned, but the outbox did.
MissedRow(started, live, drained) ==
  RemedyBefore(started) /\ RedisClean(live) /\ ~drained

CollectorOk(c) ==
  /\ c = [started |-> c.started, step |-> c.step, drained |-> c.drained, live |-> c.live]
  /\ c.started \in Nat /\ c.started <= now /\ c.step \in 1..6 /\ c.drained \in BOOLEAN
  /\ c.live # Null =>
       /\ DOMAIN c.live = Components
       /\ PodFirst(c.live, c.step)
       /\ c.step > 1 => c.live["transcriptPod"].at <= now
       /\ c.step > 3 /\ MissedRow(c.started, c.live, c.drained) => outbox \cap Legacy # {}
       /\ c.step > 4 /\ MissedRow(c.started, c.live, c.drained)
            => c.live["postgresAfter"].seen \cap Legacy # {}

EvidenceOk(e) ==
  /\ e.started \in Nat /\ e.started <= now /\ e.drained \in BOOLEAN
  /\ e.live # Null =>
       /\ PodFirst(e.live, 6)
       /\ MissedRow(e.started, e.live, e.drained) => e.live["postgresAfter"].seen \cap Legacy # {}

\* A collection ID names one evidence file.
IdsOk ==
  /\ evidence # Null =>
       evidence.id \in Nat /\ evidence.id <= collected /\ (col # Null => evidence.id < collected)
  /\ verdict # Null /\ verdict.accepted =>
       /\ verdict.of \in Nat /\ verdict.of <= collected /\ (col # Null => verdict.of < collected)
       /\ evidence # Null /\ evidence.id = verdict.of =>
            verdict.podAt = evidence.live["transcriptPod"].at

Justified(at, e) ==
  /\ e.drained
  /\ \A c \in Components : at - e.live[c].at <= MaxAge

\* A token on its way, in the file or in a signer's hands has been issued.
HeldTokens ==
  /\ issuing # Null => issuing \in Tokens /\ token[issuing] # Null
  /\ tokenFile # Null => tokenFile \in Tokens /\ token[tokenFile] # Null
  /\ \A s \in Signers : sign[s] # Null /\ sign[s].pc \in {"vault", "cleanup"} =>
       sign[s].tok \in Tokens /\ token[sign[s].tok] # Null

Issued == {k \in Tokens : token[k] # Null}
Spent == {k \in Tokens : token[k] = 0}

\* Every permit spent a token.
TokensCounted ==
  /\ token \in [Tokens -> {Null, 0, 1}]
  /\ IsFiniteSet(Issued) /\ IsFiniteSet(permits)
  /\ Cardinality(permits) <= Cardinality(Spent)

WorldTypes ==
  /\ now \in Nat /\ collected \in Nat
  /\ remedy \in [Stores -> Nat \cup {Null}]
  /\ DOMAIN sign = Signers

SignersJustified ==
  \A s \in Signers : sign[s] # Null /\ sign[s].pc = "vault" =>
    Justified(sign[s].at, sign[s].evidence)

ObservedInv ==
  /\ WorldTypes
  /\ col # Null => CollectorOk(col)
  /\ evidence # Null => EvidenceOk(evidence)
  /\ IdsOk

PermitInv ==
  ObservedInv /\ HeldTokens /\ TokensCounted /\ SignersJustified /\ PermitIsJustified

-----------------------------------------------------------------------------
LEMMA Ordered ==
  /\ CollectOrder[1] = "transcriptPod" /\ CollectOrder[2] = "postgresBefore"
  /\ CollectOrder[3] = "redis" /\ CollectOrder[4] = "postgresAfter"
  /\ CollectOrder[5] = "gpuHost"
  /\ DOMAIN CollectOrder = 1..5
  BY DEF CollectOrder

LEMMA Listed == \A c \in Components : \E i \in 1..5 : c = CollectOrder[i]
  BY Ordered DEF Components

LEMMA PermitInit == Init => PermitInv
<1> SUFFICES ASSUME Init PROVE PermitInv
  OBVIOUS
<1>1. ObservedInv
  BY DEF Init, ObservedInv, WorldTypes, IdsOk
<1>2. HeldTokens /\ SignersJustified /\ PermitIsJustified
  BY DEF Init, HeldTokens, SignersJustified, PermitIsJustified
<1>3. TokensCounted
  <2>1. Issued = {} /\ Spent = {} /\ permits = {}
    BY PermitConstants DEF Init, Issued, Spent
  <2>2. IsFiniteSet({}) /\ Cardinality({}) = 0
    BY FS_EmptySet
  <2> QED
    BY <2>1, <2>2 DEF Init, TokensCounted
<1> QED
  BY <1>1, <1>2, <1>3 DEF PermitInv

\* The system under observation: an accepted remediation of the past stays, and
\* the outbox only grows after it.
LEMMA WorldKeepsCollector ==
  ASSUME NEW c, CollectorOk(c), now' \in Nat, now <= now', now \in Nat,
         RemedyBefore(c.started)' => RemedyBefore(c.started) /\ outbox \subseteq outbox'
  PROVE  CollectorOk(c)'
<1>1. c.step > 1 /\ c.live # Null => c.live["transcriptPod"].at \in Nat
  BY Ordered DEF CollectorOk, PodFirst
<1>2. c.live # Null =>
       /\ c.step > 1 => c.live["transcriptPod"].at <= now'
       /\ MissedRow(c.started, c.live, c.drained)' => MissedRow(c.started, c.live, c.drained)
  BY <1>1 DEF CollectorOk, MissedRow
<1>3. (outbox \cap Legacy # {} /\ RemedyBefore(c.started)') => (outbox \cap Legacy # {})'
  BY DEF Legacy
<1>4. c.started <= now'
  BY DEF CollectorOk
<1> QED
  BY <1>2, <1>3, <1>4 DEF CollectorOk, MissedRow, Legacy


LEMMA WorldKeepsEvidence ==
  ASSUME NEW e, EvidenceOk(e), now' \in Nat, now <= now', now \in Nat,
         RemedyBefore(e.started)' => RemedyBefore(e.started)
  PROVE  EvidenceOk(e)'
<1>1. e.live # Null => (MissedRow(e.started, e.live, e.drained)' => MissedRow(e.started, e.live, e.drained))
  BY DEF MissedRow
<1>2. e.started <= now'
  BY DEF EvidenceOk
<1> QED
  BY <1>1, <1>2 DEF EvidenceOk, Legacy

\* Time passes or the observed system changes; the chain's own state stays.
LEMMA WorldKeepsInv ==
  ASSUME PermitInv,
         \/ Tick \/ Rollout \/ \E e \in Events : Emit(e)
         \/ (\E r \in Rows : Relay(r))
         \/ \E s \in Stores, rs \in SUBSET Of("legacy") : Remediate(s, rs)
  PROVE  PermitInv'
<1>1. UNCHANGED <<col, collected, files, vault>>
  BY DEF Tick, Rollout, Emit, Relay, Remediate
<1>2. now \in Nat /\ now' \in Nat /\ now <= now' /\ remedy \in [Stores -> Nat \cup {Null}]
  BY DEF Tick, Rollout, Emit, Relay, Remediate, PermitInv, ObservedInv, WorldTypes, world
<1>3. remedy' \in [Stores -> Nat \cup {Null}]
      /\ \A t \in Nat : t <= now /\ RemedyBefore(t)' => RemedyBefore(t) /\ outbox \subseteq outbox'
  <2>1. CASE Tick \/ Rollout \/ \E r \in Rows : Relay(r)
    BY <1>2, <2>1 DEF Tick, Rollout, Relay, world, RemedyBefore
  <2>2. CASE \E e \in Events : Emit(e)
    BY <1>2, <2>2 DEF Emit, RemedyBefore
  <2>3. CASE \E s \in Stores, rs \in SUBSET Of("legacy") : Remediate(s, rs)
    <3>1. PICK s \in Stores, rs \in SUBSET Of("legacy") : Remediate(s, rs)
      BY <2>3
    <3>2. PICK v \in {now, Null} : remedy' = [remedy EXCEPT ![s] = v]
      BY <3>1 DEF Remediate
    <3>3. CASE s = "OUTBOX_REMEDIATION"
      <4>1. remedy'["OUTBOX_REMEDIATION"] = v
        BY <1>2, <3>2, <3>3
      <4> QED
        BY <1>2, <3>2, <4>1 DEF RemedyBefore
    <3>4. CASE s = "REDIS_REMEDIATION"
      <4>1. outbox' = outbox
        BY <3>1, <3>4 DEF Remediate
      <4>2. remedy'["OUTBOX_REMEDIATION"] = remedy["OUTBOX_REMEDIATION"]
        BY <1>2, <3>2, <3>4
      <4> QED
        BY <1>2, <3>2, <4>1, <4>2 DEF RemedyBefore
    <3> QED
      BY <3>3, <3>4 DEF Stores
  <2> QED
    BY <2>1, <2>2, <2>3
<1>4. WorldTypes' /\ IdsOk'
  BY <1>1, <1>2, <1>3 DEF PermitInv, ObservedInv, WorldTypes, IdsOk, files, vault
<1>5. (col # Null => CollectorOk(col))'
  <2> SUFFICES ASSUME col # Null PROVE CollectorOk(col)'
    BY <1>1
  <2>1. PICK c : c = col
    OBVIOUS
  <2>2. CollectorOk(c)
    BY <2>1 DEF PermitInv, ObservedInv
  <2>3. CollectorOk(c)'
    BY <1>2, <1>3, <2>2, WorldKeepsCollector DEF CollectorOk
  <2> QED
    BY <1>1, <2>1, <2>3
<1>6. (evidence # Null => EvidenceOk(evidence))'
  <2> SUFFICES ASSUME evidence # Null PROVE EvidenceOk(evidence)'
    BY <1>1 DEF files
  <2>1. PICK e : e = evidence
    OBVIOUS
  <2>2. EvidenceOk(e)
    BY <2>1 DEF PermitInv, ObservedInv
  <2>3. EvidenceOk(e)'
    BY <1>2, <1>3, <2>2, WorldKeepsEvidence DEF EvidenceOk
  <2> QED
    BY <1>1, <2>1, <2>3 DEF files
<1>7. (HeldTokens /\ TokensCounted /\ SignersJustified /\ PermitIsJustified)'
  BY <1>1 DEF PermitInv, HeldTokens, TokensCounted, SignersJustified, PermitIsJustified,
              Issued, Spent, Justified, vault
<1> QED
  BY <1>4, <1>5, <1>6, <1>7 DEF PermitInv, ObservedInv


-----------------------------------------------------------------------------
(* The collector                                                            *)

\* Steps of the collector and the verifier leave Vault's side alone.
LEMMA VaultAside ==
  ASSUME PermitInv, UNCHANGED vault
  PROVE  (HeldTokens /\ TokensCounted /\ SignersJustified /\ PermitIsJustified)'
  BY DEF PermitInv, HeldTokens, TokensCounted, SignersJustified, PermitIsJustified,
         Issued, Spent, Justified, vault

LEMMA EvidenceAside ==
  ASSUME PermitInv, UNCHANGED <<now, world, evidence>>, evidence # Null
  PROVE  EvidenceOk(evidence)'
  BY DEF PermitInv, ObservedInv, EvidenceOk, MissedRow, RemedyBefore, PodFirst, RedisClean,
         Legacy, world

LEMMA StartKeepsInv ==
  ASSUME PermitInv, StartCollection
  PROVE  PermitInv'
<1>1. UNCHANGED <<now, world, files, vault>> /\ collected' = collected + 1
  BY DEF StartCollection
<1>2. WorldTypes' /\ IdsOk'
  BY <1>1 DEF PermitInv, ObservedInv, WorldTypes, IdsOk, world, files, vault
<1>3. CollectorOk(col)'
  BY DEF StartCollection, CollectorOk, PodFirst, PermitInv, ObservedInv, WorldTypes
<1>4. (evidence # Null => EvidenceOk(evidence))'
  BY <1>1, EvidenceAside DEF files
<1> QED
  BY <1>1, <1>2, <1>3, <1>4, VaultAside DEF PermitInv, ObservedInv

\* One observation more.
LEMMA CollectKeepsCollector ==
  ASSUME PermitInv, CollectNext
  PROVE  CollectorOk(col)'
<1>1. PICK st, n, dr, lv : col = [started |-> st, step |-> n, drained |-> dr, live |-> lv]
  BY DEF CollectNext, PermitInv, ObservedInv, CollectorOk
<1>2. /\ st \in Nat /\ st <= now /\ n \in 1..5 /\ dr \in BOOLEAN /\ now \in Nat
      /\ lv # Null =>
           /\ DOMAIN lv = Components
           /\ PodFirst(lv, n)
           /\ n > 1 => lv["transcriptPod"].at <= now
           /\ n > 3 /\ MissedRow(st, lv, dr) => outbox \cap Legacy # {}
           /\ n > 4 /\ MissedRow(st, lv, dr) => lv["postgresAfter"].seen \cap Legacy # {}
  BY <1>1, Ordered DEF CollectNext, PermitInv, ObservedInv, CollectorOk, WorldTypes
<1>3. PICK c, obs, lv2, dr2 :
        /\ c = CollectOrder[n]
        /\ obs \in [at : {now}, seen : Results(c)] \cup {Null}
        /\ lv2 = IF obs = Null \/ lv = Null THEN Null ELSE [lv EXCEPT ![c] = obs]
        /\ dr2 = IF c = "redis" THEN (outbox \cup InStream) \cap Of("legacy") = {} ELSE dr
        /\ col' = [started |-> st, step |-> n + 1, drained |-> dr2, live |-> lv2]
  BY <1>1 DEF CollectNext
<1>4. dr2 \in BOOLEAN /\ n + 1 \in 1..6
  <2>1. dr2 = ((outbox \cup InStream) \cap Of("legacy") = {}) \/ dr2 = dr
    BY <1>3
  <2>2. dr2 \in BOOLEAN
    BY <1>2, <2>1, Zenon
  <2> QED
    BY <1>2, <2>2
<1>5. UNCHANGED <<now, world>>
  BY DEF CollectNext
<1>6. ASSUME lv2 # Null
      PROVE  /\ DOMAIN lv2 = Components
             /\ PodFirst(lv2, n + 1)
             /\ lv2["transcriptPod"].at <= now
             /\ n + 1 > 3 /\ MissedRow(st, lv2, dr2) => outbox \cap Legacy # {}
             /\ n + 1 > 4 /\ MissedRow(st, lv2, dr2)
                  => lv2["postgresAfter"].seen \cap Legacy # {}
  <2>1. lv # Null /\ lv2 = [lv EXCEPT ![c] = obs] /\ obs.at = now /\ obs.seen \in Results(c)
    BY <1>3, <1>6
  <2>2. DOMAIN lv2 = Components /\ DOMAIN lv = Components
    BY <1>2, <2>1
  <2>3. c \in Components
    BY <1>2, <1>3, Ordered DEF Components
  <2>4. lv2[c] = obs /\ \A d \in Components : d # c => lv2[d] = lv[d]
    BY <2>1, <2>2, <2>3
  <2>5. PodFirst(lv2, n + 1) /\ lv2["transcriptPod"].at <= now
    <3>1. \A i \in 1..5 : i < n => lv2[CollectOrder[i]] = lv[CollectOrder[i]]
      BY <1>2, <1>3, <2>4, Ordered DEF Components
    <3>2. lv2["transcriptPod"].at \in Nat /\ lv2["transcriptPod"].at <= now
      BY <1>2, <1>3, <2>1, <2>4, <3>1, Ordered DEF PodFirst
    <3> QED
      BY <1>2, <1>3, <2>1, <2>4, <3>1, <3>2, Ordered DEF PodFirst
  <2>6. CASE n < 3
    BY <1>2, <2>2, <2>5, <2>6
  <2>7. CASE n = 3
    <3>1. c = "redis" /\ lv2["redis"].seen \in RedisSeen
      BY <1>3, <2>1, <2>4, <2>7, Ordered DEF Results
    <3>2. ASSUME MissedRow(st, lv2, dr2) PROVE outbox \cap Legacy # {}
      <4>1. PICK x \in Of("legacy") : x \in outbox \cup InStream
        BY <1>3, <3>1, <3>2 DEF MissedRow
      <4>2. lv2["redis"].seen # Null /\ RedisScanOk(lv2["redis"].seen)
        BY <3>2 DEF MissedRow, RedisClean
      <4>3. lv2["redis"].seen.rows = stream
        BY <3>1, <4>2 DEF RedisSeen
      <4>4. stream[x] = 0
        BY <4>1, <4>2, <4>3 DEF RedisScanOk
      <4> QED
        BY <4>1, <4>4 DEF InStream, Legacy
    <3> QED
      BY <2>2, <2>5, <2>7, <3>2
  <2>8. CASE n > 3
    <3>1. c # "redis" /\ dr2 = dr /\ (MissedRow(st, lv2, dr2) => MissedRow(st, lv, dr))
      BY <1>2, <1>3, <2>4, <2>8, Ordered DEF MissedRow, RedisClean, Components
    <3>2. n = 4 => lv2["postgresAfter"].seen = outbox
      BY <1>3, <2>1, <2>4, Ordered DEF Results, OutboxSeen
    <3>3. n = 5 => lv2["postgresAfter"] = lv["postgresAfter"]
      BY <1>3, <2>4, Ordered DEF Components
    <3> QED
      BY <1>2, <2>1, <2>2, <2>5, <2>8, <3>1, <3>2, <3>3
  <2> QED
    BY <1>2, <2>6, <2>7, <2>8
<1>7. PICK c2 : c2 = col'
  OBVIOUS
<1>8. CollectorOk(c2)'
  <2>1. c2.started = st /\ c2.step = n + 1 /\ c2.drained = dr2 /\ c2.live = lv2
        /\ c2 = [started |-> st, step |-> n + 1, drained |-> dr2, live |-> lv2]
    BY <1>3, <1>7
  <2>2. (MissedRow(st, lv2, dr2)' <=> MissedRow(st, lv2, dr2)) /\ (outbox \cap Legacy)' = outbox \cap Legacy
    BY <1>5 DEF MissedRow, RemedyBefore, world, Legacy
  <2> QED
    BY <1>2, <1>4, <1>5, <1>6, <2>1, <2>2 DEF CollectorOk, Legacy
<1> QED
  BY <1>7, <1>8


LEMMA CollectKeepsInv ==
  ASSUME PermitInv, CollectNext
  PROVE  PermitInv'
<1>1. UNCHANGED <<now, world, collected, files, vault>> /\ col # Null
  BY DEF CollectNext
<1>2. WorldTypes' /\ IdsOk'
  BY <1>1 DEF PermitInv, ObservedInv, WorldTypes, IdsOk, world, files, vault
<1>3. (evidence # Null => EvidenceOk(evidence))'
  BY <1>1, EvidenceAside DEF files
<1> QED
  BY <1>1, <1>2, <1>3, CollectKeepsCollector, VaultAside DEF PermitInv, ObservedInv

LEMMA WriteKeepsInv ==
  ASSUME PermitInv, WriteEvidence
  PROVE  PermitInv'
<1>1. PICK st, n, dr, lv : col = [started |-> st, step |-> n, drained |-> dr, live |-> lv]
  BY DEF WriteEvidence, PermitInv, ObservedInv, CollectorOk
<1>2. /\ st \in Nat /\ st <= now /\ n = 6 /\ dr \in BOOLEAN
      /\ lv # Null =>
           /\ PodFirst(lv, n)
           /\ MissedRow(st, lv, dr) => lv["postgresAfter"].seen \cap Legacy # {}
  BY <1>1, Ordered DEF WriteEvidence, PermitInv, ObservedInv, CollectorOk
<1>3. PICK e : /\ evidence' = e
               /\ e = [id |-> collected, generated |-> now, started |-> st, live |-> lv, drained |-> dr]
  BY <1>1 DEF WriteEvidence
<1>4. UNCHANGED <<now, world, collected, verdict, root, vault>> /\ col' = Null /\ col # Null
  BY DEF WriteEvidence
<1>5. EvidenceOk(e)'
  <2>1. MissedRow(st, lv, dr)' <=> MissedRow(st, lv, dr)
    BY <1>4 DEF MissedRow, RemedyBefore, world
  <2> QED
    BY <1>2, <1>3, <1>4, <2>1 DEF EvidenceOk, Legacy
<1>6. WorldTypes' /\ IdsOk'
  BY <1>3, <1>4 DEF PermitInv, ObservedInv, WorldTypes, IdsOk, world, vault
<1> QED
  BY <1>3, <1>4, <1>5, <1>6, VaultAside DEF PermitInv, ObservedInv

\* The verdict is about the evidence file that is there.
LEMMA VerifyKeepsInv ==
  ASSUME PermitInv, Verify
  PROVE  PermitInv'
<1>1. UNCHANGED <<now, world, col, collected, evidence, root, vault>> /\ evidence # Null
  BY DEF Verify
<1>2. WorldTypes' /\ (col # Null => CollectorOk(col))' /\ (evidence # Null => EvidenceOk(evidence))'
  <2>1. (evidence # Null => EvidenceOk(evidence))'
    BY <1>1, EvidenceAside
  <2>2. WorldTypes'
    BY <1>1 DEF PermitInv, ObservedInv, WorldTypes, world, vault
  <2>3. (col # Null => CollectorOk(col))'
    BY <1>1 DEF PermitInv, ObservedInv, CollectorOk, MissedRow, RemedyBefore, RedisClean,
                PodFirst, Legacy, world
  <2> QED
    BY <2>1, <2>2, <2>3
<1>3. IdsOk'
  <2>1. PICK v : /\ verdict' = v
                 /\ \/ /\ v.accepted = FALSE
                    \/ /\ v.of = evidence.id
                       /\ v.podAt = evidence.live["transcriptPod"].at
    BY DEF Verify
  <2> QED
    BY <1>1, <2>1 DEF PermitInv, ObservedInv, IdsOk
<1> QED
  BY <1>1, <1>2, <1>3, VaultAside DEF PermitInv, ObservedInv

\* Vault's side leaves the observed side alone.
LEMMA ObservedAside ==
  ASSUME ObservedInv, UNCHANGED <<now, world, col, collected, evidence, verdict>>,
         DOMAIN sign' = Signers
  PROVE  ObservedInv'
<1>1. WorldTypes' /\ IdsOk'
  BY DEF ObservedInv, WorldTypes, IdsOk, world
<1>2. (col # Null => CollectorOk(col))'
  BY DEF ObservedInv, CollectorOk, MissedRow, RemedyBefore, RedisClean, PodFirst, Legacy, world
<1>3. (evidence # Null => EvidenceOk(evidence))'
  BY DEF ObservedInv, EvidenceOk, MissedRow, RemedyBefore, RedisClean, PodFirst, Legacy, world
<1> QED
  BY <1>1, <1>2, <1>3 DEF ObservedInv

-----------------------------------------------------------------------------
(* Tokens and signatures                                                    *)

\* A token that loses its last use becomes one of the spent ones.
LEMMA SpentGrows ==
  ASSUME TokensCounted, NEW k \in Issued, token' \in {token, [token EXCEPT ![k] = 0]}
  PROVE  /\ token' \in [Tokens -> {Null, 0, 1}]
         /\ Issued' = Issued
         /\ IsFiniteSet(Spent') /\ Cardinality(Spent) <= Cardinality(Spent')
         /\ Cardinality(Spent) \in Nat /\ Cardinality(Spent') \in Nat
         /\ \A h \in Tokens : token[h] # Null <=> token'[h] # Null
         /\ token[k] = 1 /\ token'[k] = 0 => Cardinality(Spent') = Cardinality(Spent) + 1
<1>1. token' \in [Tokens -> {Null, 0, 1}]
  BY DEF TokensCounted
<1>2. \A h \in Tokens : token[h] # Null <=> token'[h] # Null
  BY PermitConstants DEF TokensCounted, Issued
<1>3. Issued' = Issued
  BY <1>2 DEF Issued
<1>4. Spent \subseteq Issued /\ Spent' \subseteq Issued /\ Spent \subseteq Spent'
  BY <1>2, PermitConstants DEF Spent, Issued, TokensCounted
<1>5. IsFiniteSet(Spent) /\ IsFiniteSet(Spent')
  BY <1>4, FS_Subset DEF TokensCounted
<1>6. Cardinality(Spent) <= Cardinality(Spent') /\ Cardinality(Spent) \in Nat
      /\ Cardinality(Spent') \in Nat
  BY <1>4, <1>5, FS_Subset, FS_CardinalityType
<1>7. ASSUME token[k] = 1, token'[k] = 0
      PROVE  Cardinality(Spent') = Cardinality(Spent) + 1
  <2>1. Spent' = Spent \cup {k} /\ k \notin Spent
    BY <1>7 DEF Spent, Issued, TokensCounted
  <2> QED
    BY <1>5, <2>1, FS_AddElement
<1> QED
  BY <1>1, <1>2, <1>3, <1>5, <1>6, <1>7


\* A token that is issued, and every use of a token, keeps what is held.
LEMMA CreateKeepsInv ==
  ASSUME PermitInv, NEW k \in Tokens, CreateToken(k)
  PROVE  PermitInv'
<1>1. /\ token[k] = Null /\ token' = [token EXCEPT ![k] = 1] /\ issuing' = k
      /\ UNCHANGED <<now, world, col, collected, files, tokenFile, sign, permits>>
  BY DEF CreateToken, SignerTokenUses
<1>2. ObservedInv'
  BY <1>1, ObservedAside DEF PermitInv, ObservedInv, WorldTypes, files
<1>3. token \in [Tokens -> {Null, 0, 1}] /\ token' \in [Tokens -> {Null, 0, 1}]
  BY <1>1 DEF PermitInv, TokensCounted
<1>4. TokensCounted'
  <2>1. Issued' = Issued \cup {k} /\ Spent' = Spent
    BY <1>1, <1>3, PermitConstants DEF Issued, Spent
  <2>2. IsFiniteSet(Issued')
    BY <2>1, FS_AddElement DEF PermitInv, TokensCounted
  <2> QED
    BY <1>1, <1>3, <2>1, <2>2 DEF PermitInv, TokensCounted
<1>5. \A h \in Tokens : token[h] # Null => token'[h] # Null
  BY <1>1, <1>3, PermitConstants
<1>6. HeldTokens'
  BY <1>1, <1>3, <1>5, PermitConstants DEF PermitInv, HeldTokens
<1>7. SignersJustified' /\ PermitIsJustified'
  BY <1>1 DEF PermitInv, SignersJustified, PermitIsJustified, Justified
<1> QED
  BY <1>2, <1>4, <1>6, <1>7 DEF PermitInv

\* Losing uses, outside a signature.
LEMMA SpendKeepsInv ==
  ASSUME PermitInv, NEW k \in Issued, token' \in {token, [token EXCEPT ![k] = 0]},
         UNCHANGED <<now, world, col, collected, files, permits>>,
         tokenFile' \in {tokenFile, issuing, Null}, issuing' \in {issuing, Null},
         DOMAIN sign' = Signers,
         \A q \in Signers : sign'[q] = sign[q] \/ sign'[q].pc = "done"
  PROVE  PermitInv'
<1>1. ObservedInv'
  BY ObservedAside DEF PermitInv, files
<1>2. TokensCounted'
  <2>1. Cardinality(permits) \in Nat
    BY FS_CardinalityType DEF PermitInv, TokensCounted
  <2>2. /\ token' \in [Tokens -> {Null, 0, 1}] /\ Issued' = Issued
        /\ Cardinality(Spent) <= Cardinality(Spent')
        /\ Cardinality(Spent) \in Nat /\ Cardinality(Spent') \in Nat
    BY SpentGrows DEF PermitInv
  <2> QED
    BY <2>1, <2>2 DEF PermitInv, TokensCounted
<1>3. \A h \in Tokens : token[h] # Null => token'[h] # Null
  BY SpentGrows DEF PermitInv
<1>4. HeldTokens'
  BY <1>3 DEF PermitInv, HeldTokens
<1>5. SignersJustified'
  BY DEF PermitInv, SignersJustified, Justified
<1>6. PermitIsJustified'
  BY DEF PermitInv, PermitIsJustified
<1> QED
  BY <1>1, <1>2, <1>4, <1>5, <1>6 DEF PermitInv


LEMMA ExpiryKeepsInv ==
  ASSUME PermitInv, (\E k \in Tokens : Expire(k)) \/ DeliverToken \/ BuildTrustRoot
  PROVE  PermitInv'
<1>1. CASE \E k \in Tokens : Expire(k)
  <2>1. PICK k \in Tokens : Expire(k)
    BY <1>1
  <2>2. k \in Issued
    BY <2>1 DEF Expire, Issued
  <2> QED
    BY <2>1, <2>2, SpendKeepsInv DEF Expire, PermitInv, ObservedInv, WorldTypes
<1>2. CASE DeliverToken
  <2>1. issuing \in Issued
    BY <1>2 DEF DeliverToken, PermitInv, HeldTokens, Issued
  <2>2. token' \in {token, [token EXCEPT ![issuing] = 0]}
    BY <1>2 DEF DeliverToken
  <2> QED
    BY <1>2, <2>1, <2>2, SpendKeepsInv DEF DeliverToken, PermitInv, ObservedInv, WorldTypes
<1>3. CASE BuildTrustRoot
  <2>1. UNCHANGED <<now, world, col, collected, evidence, verdict, vault>>
    BY <1>3 DEF BuildTrustRoot
  <2>2. ObservedInv'
    BY <2>1, ObservedAside DEF PermitInv, ObservedInv, WorldTypes, vault
  <2> QED
    BY <2>1, <2>2, VaultAside DEF PermitInv
<1> QED
  BY <1>1, <1>2, <1>3

\* What the signer checks makes the permit true, and fresh in all its parts.
LEMMA CheckJustifies ==
  ASSUME ObservedInv, VerdictSignable, Recomputed
  PROVE  Justified(now, evidence)
<1>1. /\ evidence # Null /\ evidence.id = verdict.of /\ Accepts(evidence, verdict.at)
      /\ verdict # Null /\ verdict.accepted /\ now - verdict.podAt <= MaxAge
  BY DEF VerdictSignable, Recomputed
<1>2. evidence.live # Null /\ EvidenceOk(evidence) /\ now \in Nat
  BY <1>1 DEF ObservedInv, Accepts, EnvelopeOk, WorldTypes
<1>3. evidence.drained
  <2>1. RemedyBefore(evidence.started)
    BY <1>1 DEF Accepts, ArtifactsOk, Stores, RemedyBefore
  <2>2. RedisClean(evidence.live)
    BY <1>1 DEF Accepts, RedisOk, RedisClean
  <2>3. evidence.live["postgresAfter"].seen \cap Legacy = {}
    BY <1>1 DEF Accepts, PostgresOk, Legacy
  <2> QED
    BY <1>2, <2>1, <2>2, <2>3 DEF EvidenceOk, MissedRow
<1>4. now - evidence.live["transcriptPod"].at <= MaxAge
  BY <1>1 DEF ObservedInv, IdsOk
<1>5. ASSUME NEW c \in Components PROVE now - evidence.live[c].at <= MaxAge
  <2>1. PICK i \in 1..5 : c = CollectOrder[i]
    BY Listed
  <2>2. /\ evidence.live[c].at \in Nat /\ evidence.live["transcriptPod"].at \in Nat
        /\ evidence.live["transcriptPod"].at <= evidence.live[c].at
    BY <1>2, <2>1, Ordered DEF EvidenceOk, PodFirst
  <2>3. MaxAge \in Nat
    BY PermitConstants
  <2> QED
    BY <1>2, <1>4, <2>2, <2>3
<1> QED
  BY <1>3, <1>5 DEF Justified

LEMMA CheckKeepsInv ==
  ASSUME PermitInv, NEW s \in Signers, SignCheck(s)
  PROVE  PermitInv'
<1>1. /\ tokenFile # Null
      /\ UNCHANGED <<now, world, col, collected, files, token, tokenFile, issuing, permits>>
  BY DEF SignCheck
<1>2. PICK r : /\ sign' = [sign EXCEPT ![s] = r] /\ r.tok = tokenFile
               /\ r.pc = "vault" => Justified(r.at, r.evidence)
  <2>1. CASE VerdictSignable /\ Recomputed
             /\ sign' = [sign EXCEPT ![s] = [pc |-> "vault", tok |-> tokenFile,
                                             at |-> now, evidence |-> evidence]]
    <3>1. Justified(now, evidence)
      BY <2>1, CheckJustifies DEF PermitInv
    <3>2. PICK r : r = [pc |-> "vault", tok |-> tokenFile, at |-> now, evidence |-> evidence]
                   /\ sign' = [sign EXCEPT ![s] = r]
      BY <2>1
    <3>3. r.tok = tokenFile /\ Justified(r.at, r.evidence)
      BY <3>1, <3>2
    <3> QED
      BY <3>2, <3>3
  <2>2. CASE sign' = [sign EXCEPT ![s] = [pc |-> "cleanup", tok |-> tokenFile]]
    <3>1. PICK r : r = [pc |-> "cleanup", tok |-> tokenFile] /\ sign' = [sign EXCEPT ![s] = r]
      BY <2>2
    <3>2. r.tok = tokenFile /\ r.pc # "vault"
      BY <3>1
    <3> QED
      BY <3>1, <3>2
  <2> QED
    BY <2>1, <2>2 DEF SignCheck
<1>3. DOMAIN sign = Signers /\ DOMAIN sign' = Signers
      /\ \A q \in Signers : sign'[q] = IF q = s THEN r ELSE sign[q]
  BY <1>2 DEF PermitInv, ObservedInv, WorldTypes
<1>4. ObservedInv'
  BY <1>1, <1>3, ObservedAside DEF PermitInv, files
<1>5. HeldTokens' /\ TokensCounted'
  BY <1>1, <1>2, <1>3 DEF PermitInv, HeldTokens, TokensCounted, Issued, Spent
<1>6. SignersJustified'
  BY <1>2, <1>3 DEF PermitInv, SignersJustified, Justified
<1>7. PermitIsJustified'
  BY <1>1 DEF PermitInv, PermitIsJustified
<1> QED
  BY <1>4, <1>5, <1>6, <1>7 DEF PermitInv

\* Vault counts the use that pays for the permit.
LEMMA VaultKeepsInv ==
  ASSUME PermitInv, NEW s \in Signers, SignVault(s)
  PROVE  PermitInv'
<1>1. PICK k : /\ k = sign[s].tok /\ k \in Issued /\ sign[s] # Null /\ sign[s].pc = "vault"
  BY DEF SignVault, PermitInv, HeldTokens, Issued
<1>2. UNCHANGED <<now, world, col, collected, files, tokenFile, issuing>>
  BY DEF SignVault
<1>3. PICK r : sign' = [sign EXCEPT ![s] = r] /\ r.tok = k /\ r.pc = "cleanup"
  <2>1. PICK r : r = [pc |-> "cleanup", tok |-> sign[s].tok] /\ sign' = [sign EXCEPT ![s] = r]
    BY DEF SignVault
  <2>2. r.tok = k /\ r.pc = "cleanup"
    BY <1>1, <2>1
  <2> QED
    BY <2>1, <2>2
<1>4. DOMAIN sign = Signers /\ DOMAIN sign' = Signers
      /\ \A q \in Signers : sign'[q] = IF q = s THEN r ELSE sign[q]
  BY <1>3 DEF PermitInv, ObservedInv, WorldTypes
<1>5. PICK p : /\ p = [by |-> s, at |-> sign[s].at, evidence |-> sign[s].evidence]
               /\ \/ token' = token /\ permits' = permits
                  \/ /\ token[k] = 1 /\ token' = [token EXCEPT ![k] = 0]
                     /\ permits' = permits \cup {p}
  <2>1. token \in [Tokens -> {Null, 0, 1}] /\ token[k] \in {0, 1}
    BY <1>1 DEF PermitInv, TokensCounted, Issued
  <2>2. PICK p : p = [by |-> s, at |-> sign[s].at, evidence |-> sign[s].evidence]
    OBVIOUS
  <2>3. CASE token[k] = 0
    <3>1. token' = token /\ permits' = permits
      BY <1>1, <2>3 DEF SignVault
    <3> QED
      BY <2>2, <3>1
  <2>4. CASE token[k] = 1
    <3>1. token' = [token EXCEPT ![k] = token[k] - 1] /\ permits' = permits \cup {p}
      BY <1>1, <2>2, <2>4 DEF SignVault
    <3>2. token' = [token EXCEPT ![k] = 0]
      BY <2>4, <3>1
    <3> QED
      BY <2>2, <2>4, <3>1, <3>2
  <2> QED
    BY <2>1, <2>3, <2>4
<1>6. ObservedInv'
  BY <1>2, <1>4, ObservedAside DEF PermitInv, files
<1>7. token' \in {token, [token EXCEPT ![k] = 0]}
  BY <1>5
<1>8. \A h \in Tokens : token[h] # Null => token'[h] # Null
  BY <1>1, <1>7, SpentGrows DEF PermitInv
<1>9. HeldTokens'
  BY <1>1, <1>2, <1>3, <1>4, <1>8 DEF PermitInv, HeldTokens, Issued
<1>10. TokensCounted'
  <2>1. /\ token' \in [Tokens -> {Null, 0, 1}] /\ Issued' = Issued
        /\ Cardinality(Spent) \in Nat /\ Cardinality(Spent') \in Nat
        /\ Cardinality(Spent) <= Cardinality(Spent')
        /\ token[k] = 1 /\ token'[k] = 0 => Cardinality(Spent') = Cardinality(Spent) + 1
    BY <1>1, <1>7, SpentGrows DEF PermitInv
  <2>2. IsFiniteSet(permits) /\ Cardinality(permits) \in Nat
        /\ Cardinality(permits) <= Cardinality(Spent) /\ IsFiniteSet(Issued)
    BY FS_CardinalityType DEF PermitInv, TokensCounted
  <2>3. CASE token' = token /\ permits' = permits
    BY <2>1, <2>2, <2>3 DEF TokensCounted
  <2>4. CASE token[k] = 1 /\ token' = [token EXCEPT ![k] = 0] /\ permits' = permits \cup {p}
    <3>1. IsFiniteSet(permits') /\ Cardinality(permits') \in {Cardinality(permits), Cardinality(permits) + 1}
      BY <2>2, <2>4, FS_AddElement
    <3>2. token'[k] = 0
      BY <1>1, <2>4 DEF PermitInv, TokensCounted, Issued
    <3> QED
      BY <2>1, <2>2, <2>4, <3>1, <3>2 DEF TokensCounted
  <2> QED
    BY <1>5, <2>3, <2>4
<1>11. SignersJustified'
  BY <1>3, <1>4 DEF PermitInv, SignersJustified, Justified
<1>12. PermitIsJustified'
  <2>1. Justified(sign[s].at, sign[s].evidence)
    BY <1>1 DEF PermitInv, SignersJustified
  <2>2. p.evidence.drained /\ \A c \in Components : p.at - p.evidence.live[c].at <= MaxAge
    BY <1>5, <2>1 DEF Justified
  <2> QED
    BY <1>5, <2>2 DEF PermitInv, PermitIsJustified
<1> QED
  BY <1>6, <1>9, <1>10, <1>11, <1>12 DEF PermitInv

LEMMA CleanupKeepsInv ==
  ASSUME PermitInv, NEW s \in Signers, SignCleanup(s)
  PROVE  PermitInv'
<1>1. PICK k : k = sign[s].tok /\ k \in Issued
  BY DEF SignCleanup, PermitInv, HeldTokens, Issued
<1>2. DOMAIN sign' = Signers /\ \A q \in Signers : sign'[q] = sign[q] \/ sign'[q].pc = "done"
  BY DEF SignCleanup, PermitInv, ObservedInv, WorldTypes
<1>3. token' \in {token, [token EXCEPT ![k] = 0]}
  BY <1>1 DEF SignCleanup
<1> QED
  BY <1>1, <1>2, <1>3, SpendKeepsInv DEF SignCleanup

LEMMA PermitStep == PermitInv /\ [Next]_vars => PermitInv'
<1> SUFFICES ASSUME PermitInv, [Next]_vars PROVE PermitInv'
  OBVIOUS
<1>1. CASE \/ Tick \/ Rollout \/ \E e \in Events : Emit(e)
           \/ (\E r \in Rows : Relay(r))
           \/ \E s \in Stores, rs \in SUBSET Of("legacy") : Remediate(s, rs)
  BY <1>1, WorldKeepsInv
<1>2. CASE StartCollection \/ CollectNext \/ WriteEvidence \/ Verify
  BY <1>2, StartKeepsInv, CollectKeepsInv, WriteKeepsInv, VerifyKeepsInv
<1>3. CASE \E k \in Tokens : CreateToken(k)
  BY <1>3, CreateKeepsInv
<1>4. CASE (\E k \in Tokens : Expire(k)) \/ DeliverToken \/ BuildTrustRoot
  BY <1>4, ExpiryKeepsInv
<1>5. CASE \E s \in Signers : SignCheck(s) \/ SignVault(s) \/ SignCleanup(s)
  BY <1>5, CheckKeepsInv, VaultKeepsInv, CleanupKeepsInv
<1>6. CASE UNCHANGED vars
  <2>1. UNCHANGED <<now, world, col, collected, evidence, verdict, vault>>
    BY <1>6 DEF vars, files
  <2>2. ObservedInv'
    BY <2>1, ObservedAside DEF PermitInv, ObservedInv, WorldTypes, vault
  <2> QED
    BY <2>1, <2>2, VaultAside DEF PermitInv
<1> QED
  BY <1>1, <1>2, <1>3, <1>4, <1>5, <1>6 DEF Next

\* The invariant of the permit chain, from the collector's partial observations
\* to the tokens behind the permits.
THEOREM PermitInvariant == Spec => []PermitInv
<1> QED
  BY PermitInit, PermitStep, PTL DEF Spec

\* Whatever the deployments, relays and remediations do meanwhile, a signed
\* permit rests on a moment at which both stores were drained, and on
\* observations none of which was older than MaxAge when the signer checked.
THEOREM PermitsJustified == Spec => []PermitIsJustified
<1>1. PermitInv => PermitIsJustified
  BY DEF PermitInv
<1> QED
  BY <1>1, PermitInvariant, PTL

\* However many signers read the token file, there are no more permits than
\* tokens the bootstrap issued.
THEOREM PermitPerToken == Spec => []OneTokenOnePermit
<1>1. PermitInv => OneTokenOnePermit
  <2> SUFFICES ASSUME PermitInv PROVE OneTokenOnePermit
    OBVIOUS
  <2>1. IsFiniteSet(Issued) /\ Spent \subseteq Issued /\ IsFiniteSet(permits)
        /\ Cardinality(permits) <= Cardinality(Spent)
    BY PermitConstants DEF PermitInv, TokensCounted, Spent, Issued
  <2>2. Cardinality(Spent) <= Cardinality(Issued) /\ Cardinality(Spent) \in Nat
        /\ Cardinality(Issued) \in Nat /\ Cardinality(permits) \in Nat
    BY <2>1, FS_Subset, FS_CardinalityType
  <2> QED
    BY <2>1, <2>2 DEF OneTokenOnePermit, Issued
<1> QED
  BY <1>1, PermitInvariant, PTL
=============================================================================
