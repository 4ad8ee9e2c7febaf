---------------------------- MODULE ReviewBundle ----------------------------
(***************************************************************************)
(* The signed evidence of one deployment, as contract.py verifies it: the  *)
(* reviews that AI providers issued about a subject, chained round by      *)
(* round, the closure that answers their findings, the consensus that      *)
(* counts one final AGREE per provider family, the runner lease and the    *)
(* grant.  Pure operators: a digest is the identity of what it digests, so *)
(* the digest of a review is its position in the order of issue and a      *)
(* closure root is the pair of subject and entries.                        *)
(***************************************************************************)
EXTENDS Integers, FiniteSets, Sequences

CONSTANTS
  Families,      \* requiredProviderFamilies of the trust root
  Findings,      \* finding IDs
  TrustKeys,     \* key ID -> [role, family, route, from, until]
  RootUntil,     \* expiresAt of the trust root
  Skew,          \* maxClockSkewSeconds
  MaxGrantTtl    \* MAX_GRANT_TTL, in ticks

ASSUME LifetimesAssumption ==
  /\ Skew \in Nat
  /\ RootUntil \in Nat
  /\ MaxGrantTtl \in Nat \ {0}

None == "none"
Roles == {"provider-review", "coordinator", "revocation", "runner-management"}

(***************************************************************************)
(* The trust root and the revocation list                                  *)
(***************************************************************************)

\* Every role has a key, the provider families are the required ones, a
\* provider key is on its family's direct route and no other key names one.
ParseTrustKeys ==
  LET Providers == {k \in DOMAIN TrustKeys : TrustKeys[k].role = "provider-review"}
  IN /\ Roles \subseteq {TrustKeys[k].role : k \in DOMAIN TrustKeys}
     /\ {TrustKeys[k].family : k \in Providers} = Families
     /\ \A k \in DOMAIN TrustKeys :
          /\ TrustKeys[k].from < TrustKeys[k].until
          /\ IF k \in Providers THEN TrustKeys[k].route = "direct"
             ELSE TrustKeys[k].family = None /\ TrustKeys[k].route = None

TrustRootAlive(now) == RootUntil >= now - Skew

\* Only keys whose own lifetime covers the moment of verification count.
ActiveKey(k, role, now) ==
  /\ k \in DOMAIN TrustKeys
  /\ TrustKeys[k].role = role
  /\ TrustKeys[k].from <= now + Skew
  /\ TrustKeys[k].until >= now - Skew

\* Mutant: the entry counts only for what was signed after it took effect.
IsRevokedSinceIssue(kind, id, at, list) ==
  \E e \in list.entries : e[1] = kind /\ e[2] = id /\ e[3] <= at

\* An entry is <<type, id, effectiveAt>>; it revokes what it names, whenever
\* that was issued.
IsRevoked(kind, id, at, list) ==
  \E e \in list.entries : e[1] = kind /\ e[2] = id

\* What a key signed was signed in the key's lifetime, and the key stands.
KeyValidAt(k, at, list) ==
  /\ TrustKeys[k].from - Skew <= at
  /\ at <= TrustKeys[k].until + Skew
  /\ ~ IsRevoked("key", k, at, list)

RevocationsFresh(list, now) ==
  /\ \E k \in DOMAIN TrustKeys : ActiveKey(k, "revocation", now)
  /\ list.at <= now + Skew
  /\ list.nextUpdate >= now - Skew
  /\ list.at < list.nextUpdate

\* A verifier exists only for a sound, living trust root and a fresh list.
VerifierReady(list, now) ==
  /\ ParseTrustKeys
  /\ TrustRootAlive(now)
  /\ RevocationsFresh(list, now)

(***************************************************************************)
(* The subject, the grant and the runner lease                             *)
(***************************************************************************)

SubjectAndGrantOk(b, now) ==
  /\ b.grant.notBefore < b.grant.expiresAt
  /\ b.grant.expiresAt - b.grant.notBefore <= MaxGrantTtl
  /\ b.grant.notBefore <= now + Skew
  /\ b.grant.expiresAt >= now - Skew
  /\ b.stages = <<"apply", "browser-evidence", "compensating-rollback">>

\* The lease names this subject and covers the grant.
RunnerLeaseOk(b, now, list) ==
  /\ ActiveKey(b.lease.key, "runner-management", now)
  /\ b.lease.subject = b.subject
  /\ b.lease.issuedAt <= now + Skew
  /\ b.lease.expiresAt >= now - Skew
  /\ b.lease.issuedAt < b.lease.expiresAt
  /\ b.lease.issuedAt >= b.grant.notBefore - Skew
  /\ b.lease.expiresAt >= b.grant.expiresAt
  /\ KeyValidAt(b.lease.key, b.lease.issuedAt, list)
  /\ ~ IsRevoked("runner-lease", b.lease.id, b.lease.issuedAt, list)

(***************************************************************************)
(* The reviews                                                             *)
(***************************************************************************)

FamilyOf(r) == TrustKeys[r.key].family

\* Every review was issued for this subject by the route its key stands for,
\* is alive, and neither it nor its key is revoked.
ReviewsOk(b, now, list) ==
  \A r \in b.reviews :
    /\ ActiveKey(r.key, "provider-review", now)
    /\ r.family = FamilyOf(r)
    /\ r.route = TrustKeys[r.key].route
    /\ r.subject = b.subject
    /\ r.issuedAt <= now + Skew
    /\ r.expiresAt >= now - Skew
    /\ r.issuedAt < r.expiresAt
    /\ KeyValidAt(r.key, r.issuedAt, list)
    /\ ~ IsRevoked("review", r.digest, r.issuedAt, list)

\* A verdict and the finding transitions it carries go together.
TransitionsOk(r) ==
  /\ r.verdict = "AGREE" => r.raised \cup r.resolved \cup r.acknowledged = {}
  /\ r.verdict \in {"REVISE", "RED"} => r.raised # {}
  /\ r.verdict = "PARTIAL" => r.raised \cup r.resolved \cup r.acknowledged # {}
  /\ r.raised \cap (r.resolved \cup r.acknowledged) = {}
  /\ r.acknowledged \subseteq r.resolved

\* A finding is raised once, resolved and acknowledged at most once, and the
\* acknowledgement is the raiser's own, issued later.
FindingsOk(reviews) ==
  LET Raisers(f) == {r \in reviews : f \in r.raised}
      Resolvers(f) == {r \in reviews : f \in r.resolved}
      Acknowledgers(f) == {r \in reviews : f \in r.acknowledged}
  IN \A f \in Findings :
       /\ Cardinality(Raisers(f)) <= 1
       /\ Resolvers(f) \cup Acknowledgers(f) # {} => Raisers(f) # {}
       /\ Cardinality(Resolvers(f)) <= 1
       /\ Cardinality(Acknowledgers(f)) <= 1
       /\ \A x \in Raisers(f), y \in Acknowledgers(f) :
            FamilyOf(x) = FamilyOf(y) /\ x.issuedAt < y.issuedAt

Chain(reviews, c) == {r \in reviews : r.chain = c}

\* A chain is one provider's, its rounds are 1, 2, ... and each names the
\* digest of the round before it.
ChainsOk(reviews) ==
  \A c \in {r.chain : r \in reviews} :
    LET chain == Chain(reviews, c)
    IN /\ \A r, q \in chain : FamilyOf(r) = FamilyOf(q)
       /\ {r.round : r \in chain} = 1..Cardinality(chain)
       /\ \A r \in chain : r.round = 1 => r.previous = 0
       /\ \A r, q \in chain : q.round = r.round + 1 => q.previous = r.digest

(***************************************************************************)
(* The closure and the consensus                                           *)
(***************************************************************************)

ClosureRoot(subject, entries) == [subject |-> subject, entries |-> entries]

\* The closure answers every finding of the bundle: it names the review that
\* raised it and the later one in which the raiser's family acknowledged it.
ClosureOk(b) ==
  LET Named(d) == {r \in b.reviews : r.digest = d}
  IN /\ \A e \in b.closure :
          /\ Cardinality({x \in b.closure : x.finding = e.finding}) = 1
          /\ \E x \in Named(e.raisedBy), y \in Named(e.acknowledgedBy) :
               /\ x.verdict # "AGREE" /\ e.finding \in x.raised
               /\ FamilyOf(x) = FamilyOf(y)
               /\ e.finding \in y.resolved \cap y.acknowledged
               /\ x.issuedAt < y.issuedAt
     /\ {e.finding : e \in b.closure} =
          UNION {r.raised : r \in {x \in b.reviews : x.verdict # "AGREE"}}

Tips(reviews) ==
  {r \in reviews : \A q \in Chain(reviews, r.chain) : q.round <= r.round}

\* Mutant: the counted review agrees, to whichever closure it saw.
ConsensusOnAnyClosure(b) ==
  /\ \A r \in b.final : r \in Tips(b.reviews) /\ r.verdict = "AGREE"
  /\ Tips(b.reviews) = b.final
  /\ {FamilyOf(r) : r \in b.final} = Families

\* The tip of every chain agrees to this subject with this very closure, and
\* the families of the tips are the required ones, each on its direct route.
ConsensusOk(b) ==
  /\ \A r \in b.final :
       /\ r \in Tips(b.reviews)
       /\ r.verdict = "AGREE"
       /\ r.subject = b.subject
       /\ r.closureRoot = ClosureRoot(b.subject, b.closure)
  /\ Tips(b.reviews) = b.final
  /\ {FamilyOf(r) : r \in b.final} = Families
  /\ {FamilyOf(r) : r \in {x \in b.final : TrustKeys[x.key].route = "direct"}} = Families

\* EvidenceVerifier(...).verify_bundle(envelope) at time now.
VerifyBundle(b, now, list) ==
  /\ VerifierReady(list, now)
  /\ ActiveKey(b.key, "coordinator", now)
  /\ KeyValidAt(b.key, b.grant.notBefore, list)
  /\ SubjectAndGrantOk(b, now)
  /\ RunnerLeaseOk(b, now, list)
  /\ ReviewsOk(b, now, list)
  /\ \A r \in b.reviews : TransitionsOk(r)
  /\ FindingsOk(b.reviews)
  /\ ChainsOk(b.reviews)
  /\ ClosureOk(b)
  /\ ConsensusOk(b)
  /\ ~ IsRevoked("bundle", b.id, b.grant.notBefore, list)
  /\ ~ IsRevoked("subject", b.subject, b.grant.notBefore, list)
  /\ ~ IsRevoked("grant", b.grant.id, b.grant.notBefore, list)

=============================================================================
