------------------------ MODULE ViewerEvidenceProofs ------------------------
(***************************************************************************)
(* A marker of the viewer pilot speaks of one pilot under one              *)
(* authorization, and a passed termination case ended its own session, for *)
(* any number of attempts, cases, activations and frames and any windows.  *)
(*                                                                         *)
(* Runs may be repeated between any two reads.  What holds the argument    *)
(* together is what no re-run changes: a settled attempt's record and its  *)
(* session, an issued authorization, a finished collector.  And the order  *)
(* of a run's two uploads: where the snapshots of an attempt were listed,  *)
(* an older attempt's browser child is never again the only one.           *)
(***************************************************************************)
EXTENDS ViewerEvidence, FiniteSetTheorems, WellFoundedInduction, TLAPS

Phases == {"none", "before", "live", "ended", "after", "uploaded", "done", "failed"}
Counts == [started : Nat, ended : Nat, sent : Nat, others : Nat]
Flights == [started : Int, ended : Nat, before : Counts, after : Counts \cup {Nothing}]

WorldTypes ==
  /\ now \in Nat
  /\ acts \in Seq(Nat)
  /\ sess \in [Sessions -> [st : {"idle", "open", "ended"}, frames : Nat, stop : BOOLEAN]]
  /\ meter \in [sent : Nat, others : [Range(Pilots) -> Nat]]

BrowserTypes ==
  /\ browser \in [attempt : 0..Len(Pilots), pc : Phases, started : Int,
                  before : Counts \cup {Nothing}]
  /\ IF browser.pc = "none" THEN browser.attempt = 0 ELSE browser.attempt \in Attempts
  /\ flown \in [Attempts -> Flights \cup {Nothing}]
  /\ childShelf \subseteq Attempts /\ snapShelf \subseteq Attempts

CollectorTypes ==
  /\ coll \in [Collectors -> [pc : {"idle", "open", "observed", "done", "failed"},
                              auth : Int, root : Int, ended : Int, sent : Int, observed : Int]]
  /\ \A c \in Collectors : Collected(c) => coll[c].observed \in 0..now

\* A stop on record is the end of the session, and a finished case has one.
CasesEnd ==
  \A c \in Cases : /\ sess[c].stop => sess[c].st = "ended"
                   /\ Collected(c) => sess[c].stop

\* The sessions of attempts to come are untouched, those of attempts that are
\* over have ended, and the counter is what it says.
SessionsFollow ==
  /\ browser.pc = "live" => sess[Pilots[browser.attempt]].st = "open"
  /\ \A a \in Attempts :
       a > browser.attempt \/ (a = browser.attempt /\ browser.pc = "before") =>
         sess[Pilots[a]].st = "idle" /\ sess[Pilots[a]].frames = 0
  /\ \A a \in Attempts :
       (a < browser.attempt
          \/ (a = browser.attempt /\ browser.pc \notin {"none", "before", "live"})) =>
         sess[Pilots[a]].st = "ended"
  /\ \A p \in Range(Pilots) : meter.sent = meter.others[p] + sess[p].frames

\* The first read of the counters came before any frame of the pilot, the
\* second one after the last.
FirstRead(s) == s \in Counts /\ s.sent = s.others
Measured(a) ==
  /\ flown[a] \in Flights /\ FirstRead(flown[a].before)
  /\ flown[a].after \in Counts
  /\ flown[a].after.sent = flown[a].after.others + sess[Pilots[a]].frames

\* What nothing changes any more.
Settled(a) ==
  /\ a \in Attempts
  /\ \/ a < browser.attempt
     \/ a = browser.attempt /\ browser.pc \in {"uploaded", "done", "failed"}

ReadsInOrder ==
  /\ browser.pc \in {"before", "live"} => FirstRead(browser.before)
  /\ browser.pc = "ended" =>
       flown[browser.attempt] \in Flights /\ FirstRead(flown[browser.attempt].before)
  /\ browser.pc \in {"after", "uploaded", "done"} => Measured(browser.attempt)
  /\ \A a \in childShelf \cup snapShelf : Settled(a) /\ Measured(a)

\* A run lists its browser child before its snapshots.
ShelvesInOrder ==
  /\ browser.pc \in {"uploaded", "done"} => browser.attempt \in childShelf
  /\ browser.pc = "done" => browser.attempt \in snapShelf
  /\ \A a \in Attempts, b \in snapShelf : a < b => childShelf # {a}

\* A producer between its two reads finds the snapshots of the attempt whose
\* child it read, or of a later one.
HalvesOk ==
  /\ half \in [SnapshotTypes -> Attempts \cup {Never}]
  /\ \A t \in SnapshotTypes : half[t] # Never =>
       Settled(half[t]) /\ \A b \in Attempts : snapShelf = {b} => half[t] <= b

\* A child made from two attempts no longer fits the run: the browser child it
\* names is never again the only one.
KidOk(t) ==
  LET k == kids[t]
  IN  /\ Settled(k.from) /\ k.of \in Attempts /\ k.of <= k.from
      /\ t # "d30" => k.of = k.from
      /\ k.of < k.from => childShelf # {k.of}
      /\ t = "broker" => flown[k.from].after.others = flown[k.from].before.others
      /\ t = "operator" => k.auth \in DOMAIN acts
KidsOk ==
  /\ DOMAIN kids = PilotTypes
  /\ \A t \in PilotTypes : kids[t] # Nothing => KidOk(t)

MatrixOf(c) == IF c = Negative THEN "negative" ELSE "termination"

\* What an assembled root says of its pilot and its collectors.
RootOk(r) ==
  /\ Settled(r.attempt) /\ flown[r.attempt] \in Flights
  /\ \A t \in PilotTypes : r.kids[t].from = r.attempt
  /\ flown[r.attempt].after.others = flown[r.attempt].before.others
  /\ r.kids["operator"].auth \in DOMAIN acts
  /\ \A c \in Collectors :
       /\ Collected(c)
       /\ coll[c].auth = r.kids[MatrixOf(c)].auth
       /\ coll[c].observed \in Int /\ r.kids[MatrixOf(c)].observed \in Int
       /\ coll[c].observed <= r.kids[MatrixOf(c)].observed

EvidenceOk ==
  /\ root # Nothing => RootOk(root)
  /\ marker # Nothing => RootOk(marker)
  /\ UnderOneAuthorization

ViewerInv ==
  /\ WorldTypes /\ BrowserTypes /\ CollectorTypes /\ CasesEnd
  /\ SessionsFollow /\ ReadsInOrder /\ ShelvesInOrder
  /\ HalvesOk /\ KidsOk /\ EvidenceOk

-----------------------------------------------------------------------------
(* Pilots, sessions and counters                                            *)

LEMMA PilotFacts ==
  /\ Len(Pilots) \in Nat /\ Attempts = 1..Len(Pilots)
  /\ \A a \in Attempts : /\ Pilots[a] \in Range(Pilots) /\ Pilots[a] \in Sessions
                         /\ Pilots[a] \notin Collectors
  /\ \A a, b \in Attempts : Pilots[a] = Pilots[b] => a = b
  /\ Collectors \subseteq Sessions /\ Negative \in Collectors /\ Cases \subseteq Collectors
  /\ Never \notin Nat /\ Never \in Int
<1>1. Len(Pilots) \in Nat /\ Attempts = 1..Len(Pilots)
  BY ViewerConstants DEF Attempts
<1>2. \A a \in Attempts : Pilots[a] \in Range(Pilots)
  BY DEF Range, Attempts
<1>3. \A a \in Attempts : Pilots[a] \notin Collectors
  BY <1>2, ViewerConstants
<1> QED
  BY <1>1, <1>2, <1>3, ViewerConstants DEF Sessions, Collectors, Never

LEMMA SessionsFinite == IsFiniteSet(Sessions)
<1>1. IsFiniteSet(Attempts)
  BY PilotFacts, FS_Interval
<1>2. Pilots \in Surjection(Attempts, Range(Pilots))
  <2>1. Pilots \in [Attempts -> Range(Pilots)]
    BY ViewerConstants, PilotFacts
  <2> QED
    BY <2>1 DEF Surjection, Range, Attempts
<1>3. IsFiniteSet(Range(Pilots))
  BY <1>1, <1>2, FS_Surjection
<1>4. IsFiniteSet(Collectors)
  BY ViewerConstants, FS_AddElement DEF Collectors
<1> QED
  BY <1>3, <1>4, FS_Union DEF Sessions

\* A read of the counters is made of naturals.
LEMMA CountersAreNaturals ==
  ASSUME WorldTypes
  PROVE  /\ EndedTotal \in Nat
         /\ \A p \in Range(Pilots) : Snapshot(p) \in Counts
<1>1. IsFiniteSet({s \in Sessions : sess[s].st # "idle"})
  BY SessionsFinite, FS_Subset
<1>2. IsFiniteSet({s \in Sessions : sess[s].st = "ended"})
  BY SessionsFinite, FS_Subset
<1>3. StartedTotal \in Nat /\ EndedTotal \in Nat
  BY <1>1, <1>2, FS_CardinalityType DEF StartedTotal, EndedTotal
<1>4. \A p \in Range(Pilots) : meter.sent \in Nat /\ meter.others[p] \in Nat
  BY DEF WorldTypes
<1> QED
  BY <1>3, <1>4 DEF Snapshot, Counts

LEMMA ViewerInitInv == ViewerInit => ViewerInv
<1> SUFFICES ASSUME ViewerInit PROVE ViewerInv
  OBVIOUS
<1> USE PilotFacts
<1>1. WorldTypes
  BY DEF ViewerInit, WorldTypes
<1>2. BrowserTypes
  BY DEF ViewerInit, BrowserTypes, Phases
<1>3. CollectorTypes /\ CasesEnd
  BY DEF ViewerInit, CollectorTypes, CasesEnd, Collected, Idle
<1>4. SessionsFollow
  <2>1. \A p \in Range(Pilots) : p \in Sessions
    BY DEF Sessions
  <2> QED
    BY <2>1 DEF ViewerInit, SessionsFollow
<1>5. ReadsInOrder /\ ShelvesInOrder
  BY DEF ViewerInit, ReadsInOrder, ShelvesInOrder
<1>6. HalvesOk
  BY DEF ViewerInit, HalvesOk
<1>7. KidsOk /\ EvidenceOk
  BY DEF ViewerInit, KidsOk, EvidenceOk, UnderOneAuthorization
<1> QED
  BY <1>1, <1>2, <1>3, <1>4, <1>5, <1>6, <1>7 DEF ViewerInv

-----------------------------------------------------------------------------
(* What no step changes                                                     *)

Keeps ==
  /\ \A a : Settled(a) => Settled(a)' /\ flown'[a] = flown[a]
  /\ \A i \in DOMAIN acts : i \in DOMAIN acts' /\ acts'[i] = acts[i]
  /\ \A c \in Collectors : Collected(c) => coll'[c] = coll[c]

\* The only browser child listed is never one that a settled attempt overtook.
ShelfMovesOn ==
  \A a : childShelf # {a} /\ (\E b : Settled(b) /\ a < b) => childShelf' # {a}

LEMMA RootStays ==
  ASSUME Keeps, NEW r, RootOk(r)
  PROVE  RootOk(r)'
<1>1. Settled(r.attempt)' /\ flown'[r.attempt] = flown[r.attempt]
  BY DEF Keeps, RootOk
<1>2. \A c \in Collectors : Collected(c) /\ coll'[c] = coll[c]
  BY DEF Keeps, RootOk
<1>3. \A c \in Collectors : Collected(c)'
  BY <1>2 DEF Collected
<1>4. r.kids["operator"].auth \in DOMAIN acts'
  BY DEF Keeps, RootOk
<1> QED
  BY <1>1, <1>2, <1>3, <1>4 DEF RootOk

LEMMA EvidenceStays ==
  ASSUME EvidenceOk, Keeps, UNCHANGED <<root, marker>>
  PROVE  EvidenceOk'
<1>1. root' # Nothing => RootOk(root)'
  <2>1. ASSUME root # Nothing PROVE RootOk(root)'
    <3>1. PICK r : r = root
      OBVIOUS
    <3>2. RootOk(r)'
      BY <2>1, <3>1, RootStays DEF EvidenceOk
    <3> QED
      BY <3>1, <3>2 DEF RootOk
  <2> QED
    BY <2>1
<1>2. marker' # Nothing => RootOk(marker)'
  <2>1. ASSUME marker # Nothing PROVE RootOk(marker)'
    <3>1. PICK r : r = marker
      OBVIOUS
    <3>2. RootOk(r)'
      BY <2>1, <3>1, RootStays DEF EvidenceOk
    <3> QED
      BY <3>1, <3>2 DEF RootOk
  <2> QED
    BY <2>1
<1>3. UnderOneAuthorization'
  <2> SUFFICES ASSUME marker # Nothing PROVE UnderOneAuthorization'
    BY DEF UnderOneAuthorization
  <2>1. RootOk(marker)
    BY DEF EvidenceOk
  <2>2. flown'[marker.attempt] = flown[marker.attempt]
    BY <2>1 DEF Keeps, RootOk
  <2>3. acts'[marker.kids["operator"].auth] = acts[marker.kids["operator"].auth]
    BY <2>1 DEF Keeps, RootOk
  <2>4. \A c \in Collectors : coll'[c] = coll[c]
    BY <2>1 DEF Keeps, RootOk
  <2> QED
    BY <2>2, <2>3, <2>4 DEF EvidenceOk, UnderOneAuthorization, Expires
<1> QED
  BY <1>1, <1>2, <1>3 DEF EvidenceOk

LEMMA KidStays ==
  ASSUME Keeps, ShelfMovesOn, NEW t \in PilotTypes, KidOk(t), kids'[t] = kids[t]
  PROVE  KidOk(t)'
<1>1. Settled(kids[t].from)' /\ flown'[kids[t].from] = flown[kids[t].from]
  BY DEF Keeps, KidOk
<1>2. t = "operator" => kids[t].auth \in DOMAIN acts'
  BY DEF Keeps, KidOk
<1>3. kids[t].of < kids[t].from => childShelf' # {kids[t].of}
  BY DEF ShelfMovesOn, KidOk
<1> QED
  BY <1>1, <1>2, <1>3 DEF KidOk

LEMMA KidsStay ==
  ASSUME KidsOk, Keeps, ShelfMovesOn, kids' = kids
  PROVE  KidsOk'
  BY KidStays DEF KidsOk

-----------------------------------------------------------------------------
(* Steps that leave sessions and runs alone                                 *)

PlantOk ==
  /\ WorldTypes /\ BrowserTypes /\ CollectorTypes /\ CasesEnd
  /\ SessionsFollow /\ ReadsInOrder /\ ShelvesInOrder

LEMMA PlantStays ==
  ASSUME PlantOk, now' \in Nat, now <= now', acts' \in Seq(Nat),
         UNCHANGED <<sess, meter, runs>>
  PROVE  PlantOk'
<1> USE DEF PlantOk, runs
<1>1. WorldTypes' /\ BrowserTypes'
  BY DEF WorldTypes, BrowserTypes
<1>2. CollectorTypes'
  BY DEF WorldTypes, CollectorTypes, Collected
<1>3. CasesEnd' /\ SessionsFollow'
  BY DEF CasesEnd, SessionsFollow, Collected
<1>4. ReadsInOrder' /\ ShelvesInOrder'
  BY DEF ReadsInOrder, ShelvesInOrder, Measured, FirstRead, Settled
<1> QED
  BY <1>1, <1>2, <1>3, <1>4

LEMMA RunsStay ==
  ASSUME UNCHANGED runs,
         \A i \in DOMAIN acts : i \in DOMAIN acts' /\ acts'[i] = acts[i]
  PROVE  Keeps /\ ShelfMovesOn /\ \A a : Settled(a) <=> Settled(a)'
  BY DEF Keeps, ShelfMovesOn, Settled, Collected, runs

LEMMA HalvesStay ==
  ASSUME HalvesOk, \A a : Settled(a) => Settled(a)',
         \A b \in Attempts : snapShelf' = {b} => snapShelf = {b} \/ \A a : Settled(a) => a <= b,
         half' = half
  PROVE  HalvesOk'
  BY DEF HalvesOk

LEMMA TickKeepsInv ==
  ASSUME ViewerInv, ViewerTick \/ Activate
  PROVE  ViewerInv'
<1>1. /\ now' \in Nat /\ now <= now' /\ acts' \in Seq(Nat)
      /\ UNCHANGED <<sess, meter, runs, evidence>>
      /\ \A i \in DOMAIN acts : i \in DOMAIN acts' /\ acts'[i] = acts[i]
  <2>1. CASE ViewerTick
    BY <2>1 DEF ViewerTick, ViewerInv, WorldTypes, world
  <2>2. CASE Activate
    <3>1. now \in Nat /\ acts \in Seq(Nat)
      BY DEF ViewerInv, WorldTypes
    <3> QED
      BY <2>2, <3>1 DEF Activate
  <2> QED
    BY <2>1, <2>2
<1>2. PlantOk'
  BY <1>1, PlantStays DEF ViewerInv, PlantOk
<1>3. Keeps /\ ShelfMovesOn /\ \A a : Settled(a) <=> Settled(a)'
  BY <1>1, RunsStay
<1>4. HalvesOk' /\ KidsOk' /\ EvidenceOk'
  <2>1. UNCHANGED <<half, kids, root, marker, snapShelf>>
    BY <1>1 DEF evidence, runs
  <2> QED
    BY <2>1, <1>3, HalvesStay, KidsStay, EvidenceStays DEF ViewerInv
<1> QED
  BY <1>2, <1>4 DEF ViewerInv, PlantOk

\* A step of the evidence alone.
LEMMA EvidenceStep ==
  ASSUME ViewerInv, UNCHANGED <<now, world, runs>>, HalvesOk', KidsOk', EvidenceOk'
  PROVE  ViewerInv'
<1>1. now \in Nat /\ acts \in Seq(Nat)
  BY DEF ViewerInv, WorldTypes
<1>2. PlantOk'
  BY <1>1, PlantStays DEF ViewerInv, PlantOk, world
<1> QED
  BY <1>2 DEF ViewerInv, PlantOk

-----------------------------------------------------------------------------
(* The broker                                                               *)

\* The evidence and the settled attempts are out of reach of a session step.
LEMMA SessionStep ==
  ASSUME ViewerInv, PlantOk', UNCHANGED <<now, acts, runs, evidence>>
  PROVE  ViewerInv'
<1>1. Keeps /\ ShelfMovesOn /\ \A a : Settled(a) <=> Settled(a)'
  BY RunsStay
<1>2. UNCHANGED <<half, kids, root, marker, snapShelf>>
  BY DEF evidence, runs
<1>3. HalvesOk' /\ KidsOk' /\ EvidenceOk'
  BY <1>1, <1>2, HalvesStay, KidsStay, EvidenceStays DEF ViewerInv
<1> QED
  BY <1>3 DEF ViewerInv, PlantOk

\* A settled pilot has ended, and an ended session gets no frames.
LEMMA SettledEnded ==
  ASSUME ViewerInv, NEW a, Settled(a) \/ (a = browser.attempt /\ browser.pc \in {"after", "ended"})
  PROVE  a \in Attempts /\ sess[Pilots[a]].st = "ended"
  BY DEF ViewerInv, BrowserTypes, SessionsFollow, Settled

LEMMA MeasuredStays ==
  ASSUME NEW a, Measured(a), flown'[a] = flown[a],
         sess'[Pilots[a]].frames = sess[Pilots[a]].frames
  PROVE  Measured(a)'
  BY DEF Measured, FirstRead

LEMMA ReadsStay ==
  ASSUME ViewerInv, UNCHANGED runs,
         \A a \in Attempts : sess[Pilots[a]].st = "ended" =>
           sess'[Pilots[a]].frames = sess[Pilots[a]].frames
  PROVE  ReadsInOrder' /\ ShelvesInOrder'
<1>1. \A a : Settled(a) <=> Settled(a)'
  BY DEF Settled, runs
<1>2. ASSUME NEW a, Settled(a) \/ (a = browser.attempt /\ browser.pc \in {"after", "uploaded", "done"}),
             Measured(a)
      PROVE  Measured(a)'
  <2>1. a \in Attempts /\ sess[Pilots[a]].st = "ended"
    BY <1>2, SettledEnded DEF Settled, ViewerInv, BrowserTypes
  <2> QED
    BY <1>2, <2>1, MeasuredStays DEF runs
<1>3. ASSUME browser.pc \in {"after", "uploaded", "done"} PROVE Measured(browser.attempt)'
  <2>1. PICK a : a = browser.attempt
    OBVIOUS
  <2>2. Measured(a)'
    BY <1>2, <1>3, <2>1 DEF ViewerInv, ReadsInOrder
  <2> QED
    BY <2>1, <2>2 DEF runs
<1>4. \A a \in childShelf \cup snapShelf : Settled(a)' /\ Measured(a)'
  BY <1>1, <1>2 DEF ViewerInv, ReadsInOrder
<1>5. UNCHANGED <<browser, flown, childShelf, snapShelf>>
  BY DEF runs
<1>6. ReadsInOrder'
  BY <1>3, <1>4, <1>5 DEF ViewerInv, ReadsInOrder, FirstRead
<1>7. ShelvesInOrder'
  BY <1>5 DEF ViewerInv, ShelvesInOrder
<1> QED
  BY <1>6, <1>7


LEMMA DeliverKeepsInv ==
  ASSUME ViewerInv, NEW s \in Sessions, Deliver(s)
  PROVE  ViewerInv'
<1> USE DEF ViewerInv
<1>0. /\ sess[s].st = "open" /\ UNCHANGED <<now, acts, runs, evidence>>
      /\ sess' = [sess EXCEPT ![s].frames = @ + 1]
      /\ meter' = [sent |-> meter.sent + 1,
                   others |-> [p \in Range(Pilots) |->
                                 meter.others[p] + (IF p = s THEN 0 ELSE 1)]]
  BY DEF Deliver
<1>1. /\ \A x \in Sessions : sess'[x].st = sess[x].st /\ sess'[x].stop = sess[x].stop
      /\ \A x \in Sessions : sess'[x].frames = IF x = s THEN sess[x].frames + 1 ELSE sess[x].frames
  BY <1>0 DEF WorldTypes
<1>2. WorldTypes'
  <2>1. sess' \in [Sessions -> [st : {"idle", "open", "ended"}, frames : Nat, stop : BOOLEAN]]
    <3>1. sess[s] \in [st : {"idle", "open", "ended"}, frames : Nat, stop : BOOLEAN]
          /\ sess[s].frames \in Nat
      BY DEF WorldTypes
    <3>2. PICK n : n \in Nat /\ n = sess[s].frames + 1
      BY <3>1
    <3>3. sess' = [sess EXCEPT ![s].frames = n]
      BY <1>0, <3>2
    <3> QED
      BY <3>1, <3>2, <3>3 DEF WorldTypes
  <2>2. meter' \in [sent : Nat, others : [Range(Pilots) -> Nat]]
    <3>1. meter.sent \in Nat /\ \A p \in Range(Pilots) : meter.others[p] \in Nat
      BY DEF WorldTypes
    <3>2. \A p \in Range(Pilots) : meter.others[p] + (IF p = s THEN 0 ELSE 1) \in Nat
      BY <3>1
    <3> QED
      BY <1>0, <3>1, <3>2
  <2> QED
    BY <1>0, <2>1, <2>2 DEF WorldTypes
<1>3. BrowserTypes' /\ CollectorTypes'
  BY <1>0 DEF BrowserTypes, CollectorTypes, Collected, runs
<1>4. CasesEnd'
  BY <1>0, <1>1, PilotFacts DEF CasesEnd, Collected, runs
<1>5. SessionsFollow'
  <2>1. \A a \in Attempts : Pilots[a] \in Sessions
    BY PilotFacts
  <2>2. \A p \in Range(Pilots) : meter'.sent = meter'.others[p] + sess'[p].frames
    <3> TAKE p \in Range(Pilots)
    <3>1. p \in Sessions /\ meter.sent = meter.others[p] + sess[p].frames
          /\ meter.others[p] \in Nat /\ sess[p].frames \in Nat
      BY DEF Sessions, SessionsFollow, WorldTypes
    <3>2. meter'.sent = meter.sent + 1 /\ meter'.others[p] = meter.others[p] + (IF p = s THEN 0 ELSE 1)
      BY <1>0
    <3> QED
      BY <3>1, <3>2, <1>1
  <2>3. browser' = browser
    BY <1>0 DEF runs
  <2>4. \A a \in Attempts : sess[Pilots[a]].st = "idle" => sess'[Pilots[a]] = sess[Pilots[a]]
    BY <1>0, <2>1 DEF WorldTypes
  <2>5. \A a \in Attempts : sess'[Pilots[a]].st = sess[Pilots[a]].st
    BY <1>1, <2>1
  <2>6. \A a \in Attempts :
         a > browser'.attempt \/ (a = browser'.attempt /\ browser'.pc = "before") =>
           sess'[Pilots[a]].st = "idle" /\ sess'[Pilots[a]].frames = 0
    BY <2>3, <2>4 DEF SessionsFollow
  <2>7. \A a \in Attempts :
         (a < browser'.attempt
            \/ (a = browser'.attempt /\ browser'.pc \notin {"none", "before", "live"})) =>
           sess'[Pilots[a]].st = "ended"
    BY <2>3, <2>5 DEF SessionsFollow
  <2>8. browser.pc = "live" => browser.attempt \in Attempts
    BY DEF BrowserTypes
  <2> QED
    BY <2>2, <2>3, <2>5, <2>6, <2>7, <2>8 DEF SessionsFollow
<1>6. ReadsInOrder' /\ ShelvesInOrder'
  <2>1. \A a \in Attempts : sess[Pilots[a]].st = "ended" =>
           sess'[Pilots[a]].frames = sess[Pilots[a]].frames
    BY <1>0, <1>1, PilotFacts
  <2> QED
    BY <1>0, <2>1, ReadsStay
<1> QED
  BY <1>0, <1>2, <1>3, <1>4, <1>5, <1>6, SessionStep DEF PlantOk

\* The end of a collector's session and its record leave the pilots alone.
LEMMA EndKeepsInv ==
  ASSUME ViewerInv, NEW c \in Collectors, EndSession(c) \/ AuditStop(c)
  PROVE  ViewerInv'
<1> USE DEF ViewerInv
<1>0. PICK x : /\ x \in [st : {"idle", "open", "ended"}, frames : Nat, stop : BOOLEAN]
               /\ x.st = "ended" /\ x.frames = sess[c].frames
               /\ sess[c].stop => x.stop
               /\ sess' = [sess EXCEPT ![c] = x]
               /\ UNCHANGED <<now, acts, meter, runs, evidence>>
  <2>1. c \in Sessions
    BY PilotFacts
  <2>2. CASE EndSession(c)
    <3>1. PICK x : x = [sess[c] EXCEPT !.st = "ended", !.stop = (c = Negative)]
      OBVIOUS
    <3>2. sess' = [sess EXCEPT ![c] = x]
      BY <2>2, <3>1 DEF EndSession
    <3>3. sess[c].st = "open" /\ UNCHANGED <<now, acts, meter, runs, evidence>>
      BY <2>2 DEF EndSession
    <3>4. sess[c].stop => x.stop
      <4>1. c = Negative => x.stop
        BY <3>1, <2>1 DEF WorldTypes
      <4>2. c # Negative => ~sess[c].stop
        BY <3>3 DEF Collectors, CasesEnd
      <4> QED
        BY <4>1, <4>2
    <3>5. /\ x \in [st : {"idle", "open", "ended"}, frames : Nat, stop : BOOLEAN]
          /\ x.st = "ended" /\ x.frames = sess[c].frames
      BY <2>1, <3>1 DEF WorldTypes
    <3> QED
      BY <3>2, <3>3, <3>4, <3>5
  <2>3. CASE AuditStop(c)
    <3>1. PICK x : x = [sess[c] EXCEPT !.stop = TRUE]
      OBVIOUS
    <3>2. sess' = [sess EXCEPT ![c] = x] /\ sess[c].st = "ended"
          /\ UNCHANGED <<now, acts, meter, runs, evidence>>
      BY <2>3, <3>1 DEF AuditStop
    <3>3. /\ x \in [st : {"idle", "open", "ended"}, frames : Nat, stop : BOOLEAN]
          /\ x.st = "ended" /\ x.frames = sess[c].frames /\ x.stop
      BY <2>1, <3>1, <3>2 DEF WorldTypes
    <3> QED
      BY <3>2, <3>3
  <2> QED
    BY <2>2, <2>3
<1>1. /\ c \in Sessions /\ sess'[c] = x
      /\ \A y \in Sessions : y # c => sess'[y] = sess[y]
  BY <1>0, PilotFacts DEF WorldTypes
<1>2. \A a \in Attempts : sess'[Pilots[a]] = sess[Pilots[a]]
  BY <1>1, PilotFacts
<1>3. \A p \in Range(Pilots) : sess'[p] = sess[p]
  BY <1>1, ViewerConstants DEF Sessions
<1>4. WorldTypes'
  BY <1>0, <1>1 DEF WorldTypes
<1>5. BrowserTypes' /\ CollectorTypes'
  BY <1>0 DEF BrowserTypes, CollectorTypes, Collected, runs
<1>6. CasesEnd'
  <2> SUFFICES ASSUME NEW d \in Cases
               PROVE  (sess'[d].stop => sess'[d].st = "ended") /\ (Collected(d)' => sess'[d].stop)
    BY DEF CasesEnd
  <2>1. Collected(d)' => Collected(d)
    BY <1>0 DEF Collected, runs
  <2> QED
    BY <1>0, <1>1, <2>1, PilotFacts DEF CasesEnd
<1>7. SessionsFollow'
  <2>1. browser.pc = "live" => browser.attempt \in Attempts
    BY DEF BrowserTypes
  <2> QED
    BY <1>0, <1>2, <1>3, <2>1 DEF SessionsFollow, runs
<1>8. ReadsInOrder' /\ ShelvesInOrder'
  BY <1>0, <1>2, ReadsStay
<1> QED
  BY <1>0, <1>4, <1>5, <1>6, <1>7, <1>8, SessionStep DEF PlantOk


-----------------------------------------------------------------------------
(* The browser run                                                          *)

\* A step of the browser run keeps the evidence when it keeps what settled and
\* lists newer artifacts only.
LEMMA BrowserStep ==
  ASSUME ViewerInv, PlantOk', UNCHANGED <<now, acts, coll, evidence>>,
         \A a : Settled(a) => Settled(a)' /\ flown'[a] = flown[a],
         ShelfMovesOn,
         \A b \in Attempts : snapShelf' = {b} => snapShelf = {b} \/ \A a : Settled(a) => a <= b
  PROVE  ViewerInv'
<1>1. Keeps
  BY DEF Keeps
<1>2. UNCHANGED <<half, kids, root, marker>>
  BY DEF evidence
<1>3. HalvesOk' /\ KidsOk' /\ EvidenceOk'
  BY <1>1, <1>2, HalvesStay, KidsStay, EvidenceStays DEF ViewerInv
<1> QED
  BY <1>3 DEF ViewerInv, PlantOk

LEMMA StartBrowserKeepsInv ==
  ASSUME ViewerInv, NEW i, StartBrowser(i)
  PROVE  ViewerInv'
<1> USE DEF ViewerInv
<1> DEFINE b == browser.attempt + 1
<1>0. /\ browser.pc \in {"none", "done", "failed"} /\ browser.attempt < Len(Pilots)
      /\ browser' = [attempt |-> b, pc |-> "before", started |-> Never,
                     before |-> Snapshot(Pilots[b])]
      /\ childShelf' \in {childShelf, {}} /\ snapShelf' \in {snapShelf, {}}
      /\ UNCHANGED <<now, acts, sess, meter, flown, coll, evidence>>
  BY DEF StartBrowser, world
<1>1. browser.attempt \in 0..Len(Pilots) /\ b \in Attempts /\ b > browser.attempt
  BY <1>0, PilotFacts DEF BrowserTypes
<1>2. /\ Snapshot(Pilots[b]) \in Counts
      /\ Snapshot(Pilots[b]).sent = Snapshot(Pilots[b]).others
  <2>1. Snapshot(Pilots[b]) \in Counts
    BY <1>1, PilotFacts, CountersAreNaturals
  <2>2. sess[Pilots[b]].frames = 0 /\ meter.sent = meter.others[Pilots[b]] + sess[Pilots[b]].frames
    BY <1>1, PilotFacts DEF SessionsFollow
  <2>3. meter.others[Pilots[b]] \in Nat
    BY <1>1, PilotFacts DEF WorldTypes
  <2> QED
    BY <2>1, <2>2, <2>3 DEF Snapshot
<1> HIDE DEF b
<1>3. browser'.attempt = b /\ browser'.pc = "before" /\ browser'.before = Snapshot(Pilots[b])
  BY <1>0
<1>4. \A a : Settled(a) => Settled(a)'
  BY <1>1, <1>3, PilotFacts DEF Settled
<1>5. WorldTypes' /\ CollectorTypes' /\ CasesEnd'
  BY <1>0 DEF WorldTypes, CollectorTypes, CasesEnd, Collected
<1>6. BrowserTypes'
  <2>1. browser' \in [attempt : 0..Len(Pilots), pc : Phases, started : Int,
                      before : Counts \cup {Nothing}]
    BY <1>0, <1>1, <1>2, PilotFacts DEF Phases
  <2> QED
    BY <1>0, <1>1, <1>3, <2>1 DEF BrowserTypes
<1>7. SessionsFollow'
  <2>1. \A a \in Attempts : a > b \/ a = b => a > browser.attempt
    BY <1>1, PilotFacts
  <2>2. \A a \in Attempts : a < b => a < browser.attempt \/ a = browser.attempt
    BY <1>1, PilotFacts DEF b
  <2>3. \A a \in Attempts : a < b => sess[Pilots[a]].st = "ended"
    <3> TAKE a \in Attempts
    <3>1. a = browser.attempt => browser.pc \notin {"none", "before", "live"}
                                 \/ sess[Pilots[a]].st = "ended"
      <4>1. browser.pc = "none" => browser.attempt = 0
        BY DEF BrowserTypes
      <4> QED
        BY <4>1, <1>0, PilotFacts
    <3> QED
      BY <2>2, <3>1 DEF SessionsFollow
  <2> QED
    BY <1>0, <1>3, <2>1, <2>3 DEF SessionsFollow
<1>8. ReadsInOrder'
  <2>1. \A a \in childShelf' \cup snapShelf' : a \in childShelf \cup snapShelf
    BY <1>0
  <2>2. \A a : Measured(a) => Measured(a)'
    BY <1>0 DEF Measured, FirstRead
  <2>3. \A a \in childShelf' \cup snapShelf' : Settled(a)' /\ Measured(a)'
    BY <2>1, <2>2, <1>4 DEF ReadsInOrder
  <2> QED
    BY <1>2, <1>3, <2>3 DEF ReadsInOrder, FirstRead
<1>9. ShelvesInOrder'
  BY <1>0, <1>3 DEF ShelvesInOrder
<1>10. ShelfMovesOn
  BY <1>0 DEF ShelfMovesOn
<1>11. \A a \in Attempts : snapShelf' = {a} => snapShelf = {a}
  BY <1>0
<1>12. PlantOk'
  BY <1>5, <1>6, <1>7, <1>8, <1>9 DEF PlantOk
<1> QED
  BY <1>0, <1>4, <1>10, <1>11, <1>12, BrowserStep


LEMMA OpenPilotKeepsInv ==
  ASSUME ViewerInv, OpenPilot
  PROVE  ViewerInv'
<1> USE DEF ViewerInv
<1> DEFINE b == browser.attempt    new == [st |-> "open", frames |-> 0, stop |-> FALSE]
<1>0. /\ browser.pc = "before" /\ b \in Attempts
      /\ browser' = [browser EXCEPT !.pc = "live", !.started = now]
      /\ sess' = [sess EXCEPT ![Pilots[b]] = new]
      /\ UNCHANGED <<now, acts, meter, flown, childShelf, snapShelf, coll, evidence>>
  BY DEF OpenPilot, Opened, Pilot, BrowserTypes
<1> HIDE DEF b
<1>1. /\ sess'[Pilots[b]] = new
      /\ \A x \in Sessions : x # Pilots[b] => sess'[x] = sess[x]
  BY <1>0, PilotFacts DEF WorldTypes
<1>2. \A a \in Attempts : a # b => sess'[Pilots[a]] = sess[Pilots[a]]
  BY <1>0, <1>1, PilotFacts
<1>3. browser'.attempt = b /\ browser'.pc = "live" /\ browser'.before = browser.before
      /\ browser.attempt = b
  BY <1>0 DEF BrowserTypes, b
<1>4. \A a : Settled(a) <=> Settled(a)'
  BY <1>0, <1>3 DEF Settled
<1>5. WorldTypes'
  BY <1>0, PilotFacts DEF WorldTypes
<1>6. BrowserTypes'
  <2>1. browser' \in [attempt : 0..Len(Pilots), pc : Phases, started : Int,
                      before : Counts \cup {Nothing}]
    <3>1. now \in Int /\ "live" \in Phases
      BY DEF WorldTypes, Phases
    <3>2. browser \in [attempt : 0..Len(Pilots), pc : Phases, started : Int,
                       before : Counts \cup {Nothing}]
      BY DEF BrowserTypes
    <3> QED
      BY <1>0, <3>1, <3>2
  <2> QED
    BY <1>0, <1>3, <2>1 DEF BrowserTypes
<1>7. CollectorTypes'
  BY <1>0 DEF CollectorTypes, Collected
<1>8. CasesEnd'
  <2>1. \A c \in Cases : sess'[c] = sess[c]
    BY <1>0, <1>1, PilotFacts
  <2> QED
    BY <1>0, <2>1 DEF CasesEnd, Collected
<1>9. SessionsFollow'
  <2>1. sess[Pilots[b]].frames = 0
    BY <1>0, <1>3 DEF SessionsFollow
  <2>2. \A p \in Range(Pilots) : sess'[p].frames = sess[p].frames
    BY <1>1, <2>1 DEF Sessions
  <2>3. \A a \in Attempts : a > b \/ a < b => a # b
    BY PilotFacts
  <2>4. sess'[Pilots[browser'.attempt]].st = "open"
    BY <1>1, <1>3
  <2> QED
    BY <1>0, <1>2, <1>3, <2>2, <2>3, <2>4 DEF SessionsFollow
<1>10. ReadsInOrder'
  <2>1. \A a : Settled(a) => a # b
    BY <1>0, <1>3, PilotFacts DEF Settled
  <2>2. \A a : Settled(a) => a \in Attempts
    BY DEF Settled
  <2>3. \A a : Settled(a) /\ Measured(a) => Measured(a)'
    BY <1>0, <1>2, <2>1, <2>2, MeasuredStays
  <2>4. \A a \in childShelf' \cup snapShelf' : Settled(a)' /\ Measured(a)'
    BY <1>0, <1>4, <2>3 DEF ReadsInOrder
  <2> QED
    BY <1>0, <1>3, <2>4 DEF ReadsInOrder, FirstRead
<1>11. ShelvesInOrder'
  BY <1>0, <1>3 DEF ShelvesInOrder
<1>12. ShelfMovesOn
  BY <1>0 DEF ShelfMovesOn
<1>13. PlantOk'
  BY <1>5, <1>6, <1>7, <1>8, <1>9, <1>10, <1>11 DEF PlantOk
<1> QED
  BY <1>0, <1>4, <1>12, <1>13, BrowserStep

\* The pilot's session ends, with the run going on or not.
LEMMA PilotEnds ==
  ASSUME ViewerInv, browser.pc \in {"live", "uploaded"},
         NEW x \in [st : {"idle", "open", "ended"}, frames : Nat, stop : BOOLEAN],
         x.st = "ended", x.frames = sess[Pilot].frames,
         sess' = [sess EXCEPT ![Pilot] = x],
         browser'.attempt = browser.attempt, browser'.pc \in {"ended", "failed"},
         UNCHANGED <<now, acts, meter, coll>>
  PROVE  /\ WorldTypes' /\ CollectorTypes' /\ CasesEnd' /\ SessionsFollow'
         /\ \A a \in Attempts : sess'[Pilots[a]].frames = sess[Pilots[a]].frames
<1> USE DEF ViewerInv
<1>0. browser.attempt \in Attempts /\ Pilot = Pilots[browser.attempt]
  BY DEF BrowserTypes, Pilot
<1>1. /\ Pilot \in Sessions /\ sess'[Pilot] = x
      /\ \A y \in Sessions : y # Pilot => sess'[y] = sess[y]
  BY <1>0, PilotFacts DEF WorldTypes
<1>2. \A a \in Attempts : a # browser.attempt => sess'[Pilots[a]] = sess[Pilots[a]]
  BY <1>0, <1>1, PilotFacts
<1>3. \A y \in Sessions : sess'[y].frames = sess[y].frames
  BY <1>1
<1>4. WorldTypes'
  BY <1>1 DEF WorldTypes
<1>5. CollectorTypes'
  BY DEF CollectorTypes, Collected
<1>6. CasesEnd'
  <2>1. \A c \in Cases : sess'[c] = sess[c]
    BY <1>0, <1>1, PilotFacts
  <2> QED
    BY <2>1 DEF CasesEnd, Collected
<1>7. SessionsFollow'
  <2>1. \A p \in Range(Pilots) : sess'[p].frames = sess[p].frames
    BY <1>3 DEF Sessions
  <2>2. \A a \in Attempts : a > browser.attempt \/ a < browser.attempt => a # browser.attempt
    BY PilotFacts DEF BrowserTypes
  <2>3. sess'[Pilots[browser.attempt]].st = "ended"
    BY <1>0, <1>1
  <2> QED
    BY <1>2, <2>1, <2>2, <2>3 DEF SessionsFollow
<1> QED
  BY <1>3, <1>4, <1>5, <1>6, <1>7, PilotFacts


LEMMA EndPilotKeepsInv ==
  ASSUME ViewerInv, EndPilot
  PROVE  ViewerInv'
<1> USE DEF ViewerInv
<1> DEFINE f == [started |-> browser.started, ended |-> now,
                 before |-> browser.before, after |-> Nothing]
<1>0. /\ browser.pc = "live" /\ browser.attempt \in Attempts
      /\ browser' = [browser EXCEPT !.pc = "ended"]
      /\ sess' = [sess EXCEPT ![Pilot].st = "ended", ![Pilot].stop = TRUE]
      /\ flown' = [flown EXCEPT ![browser.attempt] = f]
      /\ UNCHANGED <<now, acts, meter, childShelf, snapShelf, coll, evidence>>
  BY DEF EndPilot, BrowserTypes
<1>1. Pilot \in Sessions /\ Pilot = Pilots[browser.attempt]
  BY <1>0, PilotFacts DEF Pilot
<1>2. PICK x \in [st : {"idle", "open", "ended"}, frames : Nat, stop : BOOLEAN] :
        x.st = "ended" /\ x.frames = sess[Pilot].frames /\ sess' = [sess EXCEPT ![Pilot] = x]
  <2>1. PICK x : x = [sess[Pilot] EXCEPT !.st = "ended", !.stop = TRUE]
    OBVIOUS
  <2>2. /\ x \in [st : {"idle", "open", "ended"}, frames : Nat, stop : BOOLEAN]
        /\ x.st = "ended" /\ x.frames = sess[Pilot].frames
    BY <1>1, <2>1 DEF WorldTypes
  <2>3. sess' = [sess EXCEPT ![Pilot] = x]
    BY <1>0, <2>1
  <2> QED
    BY <2>2, <2>3
<1>3. browser'.attempt = browser.attempt /\ browser'.pc = "ended"
      /\ browser' \in [attempt : 0..Len(Pilots), pc : Phases, started : Int,
                       before : Counts \cup {Nothing}]
  BY <1>0 DEF BrowserTypes, Phases
<1>4. /\ WorldTypes' /\ CollectorTypes' /\ CasesEnd' /\ SessionsFollow'
      /\ \A a \in Attempts : sess'[Pilots[a]].frames = sess[Pilots[a]].frames
  BY <1>0, <1>2, <1>3, PilotEnds
<1>5. f \in Flights /\ FirstRead(f.before)
  <2>1. FirstRead(browser.before) /\ browser.started \in Int /\ now \in Nat
    BY <1>0 DEF ReadsInOrder, BrowserTypes, WorldTypes
  <2>2. browser.before \in Counts
    BY <2>1 DEF FirstRead
  <2> QED
    BY <2>1, <2>2 DEF Flights
<1> HIDE DEF f
<1>6. BrowserTypes'
  BY <1>0, <1>3, <1>5 DEF BrowserTypes
<1>7. \A a : Settled(a) => Settled(a)' /\ flown'[a] = flown[a] /\ a \in Attempts
  <2>1. \A a : Settled(a) => a # browser.attempt
    BY <1>0, PilotFacts DEF Settled
  <2>2. \A a \in Attempts : a # browser.attempt => flown'[a] = flown[a]
    BY <1>0 DEF BrowserTypes
  <2>3. \A a : Settled(a) => Settled(a)'
    BY <1>0, <1>3 DEF Settled
  <2> QED
    BY <2>1, <2>2, <2>3 DEF Settled
<1>8. ReadsInOrder'
  <2>1. \A a : Settled(a) /\ Measured(a) => Measured(a)'
    BY <1>4, <1>7, MeasuredStays
  <2>2. \A a \in childShelf' \cup snapShelf' : Settled(a)' /\ Measured(a)'
    BY <1>0, <1>7, <2>1 DEF ReadsInOrder
  <2>3. flown'[browser'.attempt] = f
    BY <1>0, <1>3 DEF BrowserTypes
  <2> QED
    BY <1>3, <1>5, <2>2, <2>3 DEF ReadsInOrder, FirstRead
<1>9. ShelvesInOrder'
  BY <1>0, <1>3 DEF ShelvesInOrder
<1>10. ShelfMovesOn
  BY <1>0 DEF ShelfMovesOn
<1>11. PlantOk'
  BY <1>4, <1>6, <1>8, <1>9 DEF PlantOk
<1> QED
  BY <1>0, <1>7, <1>10, <1>11, BrowserStep

LEMMA FailBrowserKeepsInv ==
  ASSUME ViewerInv, FailBrowser
  PROVE  ViewerInv'
<1> USE DEF ViewerInv
<1>0. /\ browser.pc \in {"live", "uploaded"} /\ browser.attempt \in Attempts
      /\ browser' = [browser EXCEPT !.pc = "failed", !.started = Never, !.before = Nothing]
      /\ UNCHANGED <<now, acts, meter, flown, childShelf, snapShelf, coll, evidence>>
  BY DEF FailBrowser, BrowserTypes
<1>1. Pilot \in Sessions /\ Pilot = Pilots[browser.attempt]
  BY <1>0, PilotFacts DEF Pilot
<1>2. PICK x \in [st : {"idle", "open", "ended"}, frames : Nat, stop : BOOLEAN] :
        x.st = "ended" /\ x.frames = sess[Pilot].frames /\ sess' = [sess EXCEPT ![Pilot] = x]
  <2>1. PICK y : y = sess[Pilot]
    OBVIOUS
  <2>2. y \in [st : {"idle", "open", "ended"}, frames : Nat, stop : BOOLEAN]
    BY <1>1, <2>1 DEF WorldTypes
  <2>3. PICK x : x = IF y.st = "open" THEN [y EXCEPT !.st = "ended", !.stop = TRUE] ELSE y
    OBVIOUS
  <2>4. sess' = [sess EXCEPT ![Pilot] = x]
    BY <2>1, <2>3 DEF FailBrowser
  <2>5. y.st # "idle"
    BY <1>0, <1>1, <2>1 DEF SessionsFollow
  <2>6. /\ x \in [st : {"idle", "open", "ended"}, frames : Nat, stop : BOOLEAN]
        /\ x.st = "ended" /\ x.frames = sess[Pilot].frames
    BY <2>1, <2>2, <2>3, <2>5
  <2> QED
    BY <2>4, <2>6
<1>3. browser'.attempt = browser.attempt /\ browser'.pc = "failed"
      /\ browser' \in [attempt : 0..Len(Pilots), pc : Phases, started : Int,
                       before : Counts \cup {Nothing}]
  BY <1>0, PilotFacts DEF BrowserTypes, Phases
<1>4. /\ WorldTypes' /\ CollectorTypes' /\ CasesEnd' /\ SessionsFollow'
      /\ \A a \in Attempts : sess'[Pilots[a]].frames = sess[Pilots[a]].frames
  BY <1>0, <1>2, <1>3, PilotEnds
<1>5. BrowserTypes'
  BY <1>0, <1>3 DEF BrowserTypes
<1>6. \A a : Settled(a) => Settled(a)' /\ flown'[a] = flown[a] /\ a \in Attempts
  BY <1>0, <1>3 DEF Settled
<1>7. ReadsInOrder'
  <2>1. \A a : Settled(a) /\ Measured(a) => Measured(a)'
    BY <1>4, <1>6, MeasuredStays
  <2>2. \A a \in childShelf' \cup snapShelf' : Settled(a)' /\ Measured(a)'
    BY <1>0, <1>6, <2>1 DEF ReadsInOrder
  <2> QED
    BY <1>3, <2>2 DEF ReadsInOrder
<1>8. ShelvesInOrder'
  BY <1>0, <1>3 DEF ShelvesInOrder
<1>9. ShelfMovesOn
  BY <1>0 DEF ShelfMovesOn
<1>10. PlantOk'
  BY <1>4, <1>5, <1>7, <1>8 DEF PlantOk
<1> QED
  BY <1>0, <1>6, <1>9, <1>10, BrowserStep


LEMMA SnapshotAfterKeepsInv ==
  ASSUME ViewerInv, SnapshotAfter
  PROVE  ViewerInv'
<1> USE DEF ViewerInv
<1> DEFINE b == browser.attempt
<1>0. /\ browser.pc = "ended" /\ b \in Attempts
      /\ browser' = [browser EXCEPT !.pc = "after", !.started = Never, !.before = Nothing]
      /\ flown' = [flown EXCEPT ![b].after = Snapshot(Pilots[b])]
      /\ UNCHANGED <<now, acts, sess, meter, childShelf, snapShelf, coll, evidence>>
  BY DEF SnapshotAfter, BrowserTypes, world, Pilot
<1>1. browser'.attempt = b /\ browser'.pc = "after"
      /\ browser' \in [attempt : 0..Len(Pilots), pc : Phases, started : Int,
                       before : Counts \cup {Nothing}]
  BY <1>0, PilotFacts DEF BrowserTypes, Phases
<1>2. /\ Snapshot(Pilots[b]) \in Counts
      /\ Snapshot(Pilots[b]).sent = Snapshot(Pilots[b]).others + sess[Pilots[b]].frames
  <2>1. Pilots[b] \in Range(Pilots)
    BY <1>0, PilotFacts
  <2> QED
    BY <2>1, CountersAreNaturals DEF Snapshot, SessionsFollow
<1>3. flown[b] \in Flights /\ FirstRead(flown[b].before)
  BY <1>0 DEF ReadsInOrder
<1>4. PICK f : f = [flown[b] EXCEPT !.after = Snapshot(Pilots[b])]
  OBVIOUS
<1>5. /\ f \in Flights /\ f.before = flown[b].before /\ f.after = Snapshot(Pilots[b])
  BY <1>2, <1>3, <1>4 DEF Flights
<1>6. flown' = [flown EXCEPT ![b] = f]
  BY <1>0, <1>4
<1> HIDE DEF b
<1>7. flown'[b] = f /\ \A a \in Attempts : a # b => flown'[a] = flown[a]
  BY <1>0, <1>6 DEF BrowserTypes
<1>8. browser.attempt = b
  BY DEF b
<1>9. BrowserTypes'
  BY <1>0, <1>1, <1>5, <1>6 DEF BrowserTypes
<1>10. WorldTypes' /\ CollectorTypes' /\ CasesEnd'
  BY <1>0 DEF WorldTypes, CollectorTypes, CasesEnd, Collected
<1>11. SessionsFollow'
  BY <1>0, <1>1, <1>8 DEF SessionsFollow
<1>12. \A a : Settled(a) => Settled(a)' /\ flown'[a] = flown[a] /\ a \in Attempts
  <2>1. \A a : Settled(a) => a # b /\ a \in Attempts
    BY <1>0, <1>8, PilotFacts DEF Settled
  <2>2. \A a : Settled(a) => Settled(a)'
    BY <1>0, <1>1, <1>8 DEF Settled
  <2> QED
    BY <2>1, <2>2, <1>7
<1>13. ReadsInOrder'
  <2>1. \A a : Settled(a) /\ Measured(a) => Measured(a)'
    BY <1>0, <1>12, MeasuredStays
  <2>2. \A a \in childShelf' \cup snapShelf' : Settled(a)' /\ Measured(a)'
    BY <1>0, <1>12, <2>1 DEF ReadsInOrder
  <2>3. Measured(browser.attempt)'
    BY <1>0, <1>1, <1>2, <1>3, <1>5, <1>7 DEF Measured, FirstRead
  <2> QED
    BY <1>1, <2>2, <2>3 DEF ReadsInOrder
<1>14. ShelvesInOrder'
  BY <1>0, <1>1 DEF ShelvesInOrder
<1>15. ShelfMovesOn
  BY <1>0 DEF ShelfMovesOn
<1>16. PlantOk'
  BY <1>9, <1>10, <1>11, <1>13, <1>14 DEF PlantOk
<1> QED
  BY <1>0, <1>12, <1>15, <1>16, BrowserStep

LEMMA UploadChildKeepsInv ==
  ASSUME ViewerInv, UploadChild
  PROVE  ViewerInv'
<1> USE DEF ViewerInv
<1> DEFINE b == browser.attempt
<1>0. /\ browser.pc = "after" /\ b \in Attempts
      /\ browser' = [browser EXCEPT !.pc = "uploaded"]
      /\ childShelf' = childShelf \cup {b}
      /\ UNCHANGED <<now, acts, sess, meter, flown, snapShelf, coll, evidence>>
  BY DEF UploadChild, BrowserTypes, world
<1>1. browser'.attempt = b /\ browser'.pc = "uploaded"
      /\ browser' \in [attempt : 0..Len(Pilots), pc : Phases, started : Int,
                       before : Counts \cup {Nothing}]
  BY <1>0 DEF BrowserTypes, Phases
<1>2. \A a : Settled(a) => a \in Attempts /\ a < b /\ Settled(a)'
  BY <1>0, <1>1 DEF Settled
<1>3. BrowserTypes'
  BY <1>0, <1>1 DEF BrowserTypes
<1>4. WorldTypes' /\ CollectorTypes' /\ CasesEnd'
  BY <1>0 DEF WorldTypes, CollectorTypes, CasesEnd, Collected
<1>5. SessionsFollow'
  BY <1>0, <1>1 DEF SessionsFollow
<1>6. ReadsInOrder'
  <2>1. \A a : Measured(a) => Measured(a)'
    BY <1>0 DEF Measured, FirstRead
  <2>2. Measured(b) /\ Settled(b)'
    BY <1>0, <1>1 DEF ReadsInOrder, Settled
  <2>3. \A a \in childShelf' \cup snapShelf' : Settled(a)' /\ Measured(a)'
    BY <1>0, <1>2, <2>1, <2>2 DEF ReadsInOrder
  <2>4. b \in childShelf'
    BY <1>0
  <2> QED
    BY <1>1, <2>3, <2>4 DEF ReadsInOrder
<1> HIDE DEF b
<1>7. ShelvesInOrder'
  <2>1. \A d \in snapShelf : Settled(d)
    BY DEF ReadsInOrder
  <2>2. \A a \in Attempts, d \in snapShelf : a < d => a # b
    BY <1>0, <1>2, <2>1, PilotFacts
  <2> QED
    BY <1>0, <1>1, <2>2 DEF ShelvesInOrder
<1>8. ShelfMovesOn
  <2> SUFFICES ASSUME NEW a, childShelf # {a}, NEW d, Settled(d), a < d, childShelf' = {a}
               PROVE  FALSE
    BY DEF ShelfMovesOn
  <2>1. a = b
    BY <1>0
  <2> QED
    BY <1>0, <1>2, <2>1, PilotFacts
<1>9. PlantOk'
  BY <1>3, <1>4, <1>5, <1>6, <1>7 DEF PlantOk
<1> QED
  BY <1>0, <1>2, <1>8, <1>9, BrowserStep

LEMMA UploadSnapshotsKeepsInv ==
  ASSUME ViewerInv, UploadSnapshots
  PROVE  ViewerInv'
<1> USE DEF ViewerInv
<1> DEFINE b == browser.attempt
<1>0. /\ browser.pc = "uploaded" /\ b \in Attempts
      /\ browser' = [browser EXCEPT !.pc = "done"]
      /\ snapShelf' = snapShelf \cup {b}
      /\ UNCHANGED <<now, acts, sess, meter, flown, childShelf, coll, evidence>>
  BY DEF UploadSnapshots, BrowserTypes, world
<1>1. browser'.attempt = b /\ browser'.pc = "done"
      /\ browser' \in [attempt : 0..Len(Pilots), pc : Phases, started : Int,
                       before : Counts \cup {Nothing}]
  BY <1>0 DEF BrowserTypes, Phases
<1>2. \A a : Settled(a) => a \in Attempts /\ a <= b /\ Settled(a)'
  BY <1>0, <1>1, PilotFacts DEF Settled
<1>3. BrowserTypes'
  BY <1>0, <1>1 DEF BrowserTypes
<1>4. WorldTypes' /\ CollectorTypes' /\ CasesEnd'
  BY <1>0 DEF WorldTypes, CollectorTypes, CasesEnd, Collected
<1>5. SessionsFollow'
  BY <1>0, <1>1 DEF SessionsFollow
<1>6. ReadsInOrder'
  <2>1. \A a : Measured(a) => Measured(a)'
    BY <1>0 DEF Measured, FirstRead
  <2>2. Measured(b) /\ Settled(b)'
    BY <1>0, <1>1 DEF ReadsInOrder, Settled
  <2>3. \A a \in childShelf' \cup snapShelf' : Settled(a)' /\ Measured(a)'
    BY <1>0, <1>2, <2>1, <2>2 DEF ReadsInOrder
  <2>4. b \in snapShelf'
    BY <1>0
  <2> QED
    BY <1>1, <2>3, <2>4 DEF ReadsInOrder
<1> HIDE DEF b
<1>7. ShelvesInOrder'
  <2>1. b \in childShelf
    BY <1>0 DEF ShelvesInOrder, b
  <2>2. \A a \in Attempts : a < b => childShelf # {a}
    BY <1>0, <2>1, PilotFacts
  <2> QED
    BY <1>0, <1>1, <2>1, <2>2 DEF ShelvesInOrder
<1>8. ShelfMovesOn
  BY <1>0 DEF ShelfMovesOn
<1>9. \A d \in Attempts : snapShelf' = {d} => snapShelf = {d} \/ \A a : Settled(a) => a <= d
  BY <1>0, <1>2
<1>10. PlantOk'
  BY <1>3, <1>4, <1>5, <1>6, <1>7 DEF PlantOk
<1> QED
  BY <1>0, <1>2, <1>8, <1>9, <1>10, BrowserStep


-----------------------------------------------------------------------------
(* The collectors                                                           *)

CollectorRuns == [pc : {"idle", "open", "observed", "done", "failed"},
                  auth : Int, root : Int, ended : Int, sent : Int, observed : Int]

\* A step of a collector that has not finished.
LEMMA CollectorStep ==
  ASSUME ViewerInv, NEW c \in Collectors, ~Collected(c), NEW r \in CollectorRuns,
         coll' = [coll EXCEPT ![c] = r],
         r.pc = "done" => r.observed = now,
         WorldTypes', CasesEnd',
         \A a \in Attempts : sess'[Pilots[a]] = sess[Pilots[a]],
         UNCHANGED <<now, acts, meter, browser, flown, childShelf, snapShelf, evidence>>
  PROVE  ViewerInv'
<1> USE DEF ViewerInv
<1>1. coll'[c] = r /\ \A d \in Collectors : d # c => coll'[d] = coll[d]
  BY DEF CollectorTypes
<1>2. Keeps
  BY <1>1 DEF Keeps, Settled, Collected
<1>3. UNCHANGED <<half, kids, root, marker>>
  BY DEF evidence
<1>4. ShelfMovesOn
  BY DEF ShelfMovesOn
<1>5. HalvesOk' /\ KidsOk' /\ EvidenceOk'
  BY <1>2, <1>3, <1>4, HalvesStay, KidsStay, EvidenceStays DEF Keeps
<1>6. CollectorTypes'
  <2>1. coll' \in [Collectors -> CollectorRuns]
    BY DEF CollectorTypes, CollectorRuns
  <2>2. \A d \in Collectors : Collected(d)' => coll'[d].observed \in 0..now
    BY <1>1 DEF CollectorTypes, Collected, WorldTypes
  <2> QED
    BY <2>1, <2>2 DEF CollectorTypes, CollectorRuns
<1>7. BrowserTypes' /\ ShelvesInOrder'
  BY DEF BrowserTypes, ShelvesInOrder
<1>8. SessionsFollow'
  <2>1. \A p \in Range(Pilots) : \E a \in Attempts : p = Pilots[a]
    BY DEF Range, Attempts
  <2>2. browser.pc = "live" => browser.attempt \in Attempts
    BY DEF BrowserTypes
  <2> QED
    BY <2>1, <2>2 DEF SessionsFollow
<1>9. ReadsInOrder'
  <2>1. \A a \in Attempts : Measured(a) => Measured(a)'
    BY DEF Measured, FirstRead
  <2>2. \A a : Settled(a) => a \in Attempts /\ Settled(a)'
    BY DEF Settled
  <2>3. \A a \in childShelf' \cup snapShelf' : Settled(a)' /\ Measured(a)'
    BY <2>1, <2>2 DEF ReadsInOrder
  <2>4. browser.pc \in {"after", "uploaded", "done"} => Measured(browser.attempt)'
    BY <2>1 DEF ReadsInOrder, BrowserTypes
  <2> QED
    BY <2>3, <2>4 DEF ReadsInOrder
<1> QED
  BY <1>5, <1>6, <1>7, <1>8, <1>9

LEMMA StartCollectorKeepsInv ==
  ASSUME ViewerInv, NEW c \in Collectors, NEW a \in Attempts, StartCollector(c, a)
  PROVE  ViewerInv'
<1> USE DEF ViewerInv
<1> DEFINE new == [st |-> "open", frames |-> 0, stop |-> FALSE]
<1>0. /\ coll[c].pc = "idle" /\ sess' = [sess EXCEPT ![c] = new]
      /\ UNCHANGED <<now, acts, meter, browser, flown, childShelf, snapShelf, evidence>>
  BY DEF StartCollector, Opened
<1>1. PICK r : /\ r = [coll[c] EXCEPT !.pc = "open", !.auth = Len(acts), !.root = a,
                                      !.ended = EndedTotal]
               /\ coll' = [coll EXCEPT ![c] = r]
  BY DEF StartCollector
<1>2. r \in CollectorRuns /\ r.pc = "open"
  <2>1. EndedTotal \in Int /\ Len(acts) \in Int /\ a \in Int
    BY CountersAreNaturals, PilotFacts DEF WorldTypes
  <2>2. coll[c] \in CollectorRuns
    BY DEF CollectorTypes, CollectorRuns
  <2> QED
    BY <1>1, <2>1, <2>2 DEF CollectorRuns
<1>3. c \in Sessions /\ \A x \in Sessions : x # c => sess'[x] = sess[x]
  BY <1>0, PilotFacts DEF WorldTypes
<1>4. \A b \in Attempts : sess'[Pilots[b]] = sess[Pilots[b]]
  BY <1>3, PilotFacts
<1>5. WorldTypes'
  BY <1>0, <1>3 DEF WorldTypes
<1>6. CasesEnd'
  <2> SUFFICES ASSUME NEW d \in Cases
               PROVE  (sess'[d].stop => sess'[d].st = "ended") /\ (Collected(d)' => sess'[d].stop)
    BY DEF CasesEnd
  <2>1. CASE d = c
    <3>1. sess'[d] = new /\ coll'[d] = r
      BY <1>0, <1>1, <1>3, <2>1 DEF WorldTypes, CollectorTypes
    <3> QED
      BY <1>2, <3>1 DEF Collected
  <2>2. CASE d # c
    <3>1. sess'[d] = sess[d] /\ coll'[d] = coll[d]
      BY <1>1, <1>3, <2>2, PilotFacts DEF CollectorTypes
    <3> QED
      BY <3>1 DEF CasesEnd, Collected
  <2> QED
    BY <2>1, <2>2
<1>7. ~Collected(c)
  BY <1>0 DEF Collected
<1> QED
  BY <1>0, <1>1, <1>2, <1>4, <1>5, <1>6, <1>7, CollectorStep

\* A case finishes only when its own session's stop is on record.
LEMMA CollectorKeepsInv ==
  ASSUME ViewerInv, NEW c \in Collectors, ObserveEnd(c) \/ FinishCollector(c)
  PROVE  ViewerInv'
<1> USE DEF ViewerInv
<1>0. /\ ~Collected(c)
      /\ UNCHANGED <<now, acts, sess, meter, browser, flown, childShelf, snapShelf, evidence>>
  BY DEF ObserveEnd, FinishCollector, Collected, world
<1>1. coll[c] \in CollectorRuns /\ Failed \in CollectorRuns /\ Failed.pc = "failed"
  BY PilotFacts DEF CollectorTypes, CollectorRuns, Failed, Idle
<1>2. PICK r \in CollectorRuns :
        /\ coll' = [coll EXCEPT ![c] = r]
        /\ r.pc = "done" => r.observed = now /\ EnvelopeOk(c)
  <2>1. CASE ObserveEnd(c)
    <3>1. PICK r : /\ r = IF EndedTotal = coll[c].ended + 1
                          THEN [coll[c] EXCEPT !.pc = "observed", !.sent = meter.sent]
                          ELSE Failed
                   /\ coll' = [coll EXCEPT ![c] = r]
      BY <2>1 DEF ObserveEnd
    <3>2. meter.sent \in Int
      BY DEF WorldTypes
    <3>3. r \in CollectorRuns /\ r.pc # "done"
      BY <1>1, <3>1, <3>2 DEF CollectorRuns
    <3> QED
      BY <3>1, <3>3
  <2>2. CASE FinishCollector(c)
    <3>1. PICK r : /\ r = IF EnvelopeOk(c)
                          THEN [coll[c] EXCEPT !.pc = "done", !.ended = Never, !.sent = Never,
                                               !.observed = now]
                          ELSE Failed
                   /\ coll' = [coll EXCEPT ![c] = r]
      BY <2>2 DEF FinishCollector
    <3>2. now \in Int /\ Never \in Int
      BY PilotFacts DEF WorldTypes
    <3>3. r \in CollectorRuns /\ (r.pc = "done" => r.observed = now /\ EnvelopeOk(c))
      BY <1>1, <3>1, <3>2 DEF CollectorRuns
    <3> QED
      BY <3>1, <3>3
  <2> QED
    BY <2>1, <2>2
<1>3. WorldTypes'
  BY <1>0 DEF WorldTypes
<1>4. CasesEnd'
  <2>1. \A d \in Cases : Collected(d)' => Collected(d) \/ EnvelopeOk(d)
    BY <1>2, PilotFacts DEF CollectorTypes, Collected
  <2> QED
    BY <1>0, <2>1 DEF CasesEnd, EnvelopeOk, StopRecorded
<1> QED
  BY <1>0, <1>2, <1>3, <1>4, CollectorStep

-----------------------------------------------------------------------------
(* The producers                                                            *)

\* A run that is done lists its own child and snapshots: a single child is the
\* current attempt's.
LEMMA ChildIsCurrent ==
  ASSUME ViewerInv, NEW a \in Attempts, BrowserChild(a)
  PROVE  a = browser.attempt /\ a \in snapShelf /\ Settled(a)
  BY DEF ViewerInv, BrowserChild, ShelvesInOrder, ReadsInOrder

LEMMA ReadChildKeepsInv ==
  ASSUME ViewerInv, NEW t \in SnapshotTypes, NEW a \in Attempts \cup {Never},
         half' = [half EXCEPT ![t] = a], a # Never => BrowserChild(a),
         UNCHANGED <<now, world, runs, kids, root, marker>>
  PROVE  ViewerInv'
<1> USE DEF ViewerInv
<1>1. Keeps /\ ShelfMovesOn /\ \A b : Settled(b) <=> Settled(b)'
  BY RunsStay DEF world
<1>2. KidsOk' /\ EvidenceOk'
  BY <1>1, KidsStay, EvidenceStays
<1>3. HalvesOk'
  <2>1. a # Never => Settled(a) /\ \A b \in Attempts : snapShelf = {b} => a <= b
    <3> SUFFICES ASSUME a # Never
                 PROVE  Settled(a) /\ \A b \in Attempts : snapShelf = {b} => a <= b
      OBVIOUS
    <3>1. Settled(a) /\ a \in snapShelf
      BY ChildIsCurrent
    <3>2. \A b \in Attempts : snapShelf = {b} => b = a
      BY <3>1
    <3> QED
      BY <3>1, <3>2, PilotFacts
  <2>2. snapShelf' = snapShelf
    BY DEF runs
  <2> QED
    BY <1>1, <2>1, <2>2 DEF HalvesOk
<1> QED
  BY <1>2, <1>3, EvidenceStep

LEMMA ProduceKeepsInv ==
  ASSUME ViewerInv, NEW t \in SnapshotTypes, NEW b \in Attempts, ProduceFromSnapshots(t, b)
  PROVE  ViewerInv'
<1> USE DEF ViewerInv
<1>0. /\ half[t] # Never /\ snapShelf = {b} /\ SameSession(t, half[t], b)
      /\ t = "broker" => FlowOk(b)
      /\ kids' = [kids EXCEPT ![t] = [of |-> half[t], from |-> b, observed |-> flown[b].ended]]
      /\ half' = [half EXCEPT ![t] = Never]
      /\ UNCHANGED <<now, world, runs, root, marker>>
  BY DEF ProduceFromSnapshots
<1>1. Keeps /\ ShelfMovesOn /\ \A a : Settled(a) <=> Settled(a)'
  BY <1>0, RunsStay DEF world
<1>2. EvidenceOk'
  BY <1>0, <1>1, EvidenceStays
<1>3. HalvesOk'
  BY <1>0, <1>1 DEF HalvesOk, runs
<1>4. t \in PilotTypes /\ t # "operator"
  BY DEF PilotTypes, SnapshotTypes
<1>5. kids'[t].of = half[t] /\ kids'[t].from = b /\ \A u \in PilotTypes : u # t => kids'[u] = kids[u]
  BY <1>0, <1>4 DEF KidsOk
<1>6. half[t] \in Attempts /\ half[t] <= b
  BY <1>0 DEF HalvesOk
<1>7. Settled(b) /\ Measured(b)
  BY <1>0 DEF ReadsInOrder
<1>8. half[t] < b => childShelf # {half[t]}
  BY <1>0, <1>6 DEF ShelvesInOrder
<1>9. t = "broker" => flown[b].after.others = flown[b].before.others
  <2> SUFFICES ASSUME FlowOk(b) PROVE flown[b].after.others = flown[b].before.others
    BY <1>0
  <2>1. flown[b].after.sent - flown[b].before.sent = sess[Pilots[b]].frames
    BY DEF FlowOk
  <2>2. /\ flown[b].before.sent = flown[b].before.others
        /\ flown[b].after.sent = flown[b].after.others + sess[Pilots[b]].frames
        /\ flown[b].before \in Counts /\ flown[b].after \in Counts
    BY <1>7 DEF Measured, FirstRead
  <2>3. sess[Pilots[b]].frames \in Nat
    BY PilotFacts DEF WorldTypes
  <2> QED
    BY <2>1, <2>2, <2>3 DEF Counts
<1>10. KidOk(t)'
  BY <1>0, <1>1, <1>4, <1>5, <1>6, <1>7, <1>8, <1>9 DEF KidOk, SameSession, runs
<1>11. KidsOk'
  <2>1. \A u \in PilotTypes : u # t /\ kids[u] # Nothing => KidOk(u)'
    BY <1>1, <1>5, KidStays DEF KidsOk
  <2>2. DOMAIN kids' = PilotTypes
    BY <1>0 DEF KidsOk
  <2> QED
    BY <1>5, <1>10, <2>1, <2>2 DEF KidsOk
<1> QED
  BY <1>0, <1>2, <1>3, <1>11, EvidenceStep

LEMMA ProduceOperatorKeepsInv ==
  ASSUME ViewerInv, NEW i, NEW a \in Attempts, ProduceOperator(i, a)
  PROVE  ViewerInv'
<1> USE DEF ViewerInv
<1>0. /\ BrowserChild(a) /\ i \in DOMAIN acts
      /\ kids' = [kids EXCEPT !["operator"] =
                    [of |-> a, from |-> a, auth |-> i, observed |-> flown[a].started]]
      /\ UNCHANGED <<now, world, runs, half, root, marker>>
  BY DEF ProduceOperator, MayProduce
<1>1. Keeps /\ ShelfMovesOn /\ \A b : Settled(b) <=> Settled(b)'
  BY <1>0, RunsStay DEF world
<1>2. EvidenceOk' /\ HalvesOk'
  BY <1>0, <1>1, EvidenceStays, HalvesStay DEF runs
<1>3. "operator" \in PilotTypes /\ Settled(a)
  BY <1>0, ChildIsCurrent DEF PilotTypes
<1>4. /\ kids'["operator"].of = a /\ kids'["operator"].from = a /\ kids'["operator"].auth = i
      /\ \A u \in PilotTypes : u # "operator" => kids'[u] = kids[u]
  BY <1>0, <1>3 DEF KidsOk
<1>5. KidOk("operator")'
  BY <1>0, <1>1, <1>3, <1>4, PilotFacts DEF KidOk, world
<1>6. KidsOk'
  <2>1. \A u \in PilotTypes : u # "operator" /\ kids[u] # Nothing => KidOk(u)'
    BY <1>1, <1>4, KidStays DEF KidsOk
  <2>2. DOMAIN kids' = PilotTypes
    BY <1>0 DEF KidsOk
  <2> QED
    BY <1>4, <1>5, <2>1, <2>2 DEF KidsOk
<1> QED
  BY <1>0, <1>2, <1>6, EvidenceStep


-----------------------------------------------------------------------------
(* The root and the marker                                                  *)

\* The greatest of a set of naturals that is bounded and not empty.
LEMMA MaxOfBounded ==
  ASSUME NEW n \in Nat, NEW S, S \subseteq 0..n, S # {}
  PROVE  Max(S) \in S /\ \A y \in S : y <= Max(S)
<1> DEFINE gaps == {n - x : x \in S}
<1>0. \A x \in S : x \in Int /\ 0 <= x /\ x <= n
  OBVIOUS
<1>1. gaps \subseteq Nat /\ gaps # {}
  <2>1. \A x \in S : n - x \in Nat
    BY <1>0
  <2> QED
    BY <2>1
<1> DEFINE below == {ss \in Nat \X Nat : ss[1] < ss[2]}
<1> HIDE DEF gaps
<1>a. IsWellFoundedOn(below, Nat)
  BY NatLessThanWellFounded, Zenon DEF OpToRel
<1> HIDE DEF below
<1>2. PICK g \in gaps : \A y \in gaps : ~(<<y, g>> \in below)
  BY <1>1, <1>a, WFMin
<1>3. \A y \in gaps : g <= y
  <2>1. \A k, m \in Nat : k < m => <<k, m>> \in below
    BY DEF below
  <2>2. g \in Nat /\ \A y \in gaps : y \in Nat /\ ~(y < g)
    BY <1>1, <1>2, <2>1
  <2> QED
    BY <2>2
<1>4. PICK x \in S : g = n - x
  BY <1>2 DEF gaps
<1>5. \A y \in S : x >= y
  <2> TAKE y \in S
  <2>1. n - y \in gaps
    BY DEF gaps
  <2>2. n - x <= n - y
    BY <1>3, <1>4, <2>1
  <2> QED
    BY <2>2, <1>0
<1>6. Max(S) \in S /\ \A y \in S : Max(S) >= y
  BY <1>5 DEF Max
<1> QED
  BY <1>0, <1>6

LEMMA MinOfTwo ==
  ASSUME NEW x \in Int, NEW y \in Int
  PROVE  Min({x, y}) \in Int /\ Min({x, y}) <= y
<1>1. \E m \in {x, y} : \A z \in {x, y} : m <= z
  <2>1. CASE x <= y
    BY <2>1
  <2>2. CASE y <= x
    BY <2>2
  <2> QED
    BY <2>1, <2>2
<1>2. Min({x, y}) \in {x, y} /\ \A z \in {x, y} : Min({x, y}) <= z
  BY <1>1 DEF Min
<1> QED
  BY <1>2

\* A matrix child stands for all its collector runs: one authorization, and
\* the time of the last of them.
LEMMA MatrixSpeaksForAll ==
  ASSUME ViewerInv, NEW cs, cs \subseteq Collectors, IsFiniteSet(cs), MatrixChild(cs) # Nothing
  PROVE  \A c \in cs : /\ Collected(c) /\ coll[c].auth = MatrixChild(cs).auth
                       /\ MatrixChild(cs).observed \in Int /\ coll[c].observed \in Int
                       /\ coll[c].observed <= MatrixChild(cs).observed
<1> USE DEF ViewerInv
<1> DEFINE times == {coll[c].observed : c \in cs}
           ctxs == {Context(c) : c \in cs}
           one == CHOOSE c \in cs : TRUE
<1>1. (\A c \in cs : Collected(c)) /\ Cardinality(ctxs) = 1
  BY DEF MatrixChild
<1>2. MatrixChild(cs) = [of |-> Context(one).of, auth |-> Context(one).auth,
                         first |-> Min(times), observed |-> Max(times)]
  BY <1>1 DEF MatrixChild
<1>3. IsFiniteSet(ctxs)
  <2>1. [c \in cs |-> Context(c)] \in Surjection(cs, ctxs)
    BY DEF Surjection
  <2> QED
    BY <2>1, FS_Surjection
<1>4. PICK x : ctxs = {x}
  BY <1>1, <1>3, FS_Singleton
<1>5. \A c \in cs : Context(c) = x
  BY <1>4
<1>6. cs # {} /\ one \in cs
  BY <1>4
<1>7. \A c \in cs : coll[c].auth = Context(one).auth
  <2>1. \A c \in cs : Context(c).auth = coll[c].auth
    BY DEF Context
  <2> QED
    BY <1>5, <1>6, <2>1
<1>8. times \subseteq 0..now /\ times # {} /\ now \in Nat
  BY <1>1, <1>6 DEF CollectorTypes, WorldTypes
<1>9. Max(times) \in times /\ \A y \in times : y <= Max(times)
  BY <1>8, MaxOfBounded
<1>10. \A c \in cs : coll[c].observed \in times
  OBVIOUS
<1> HIDE DEF times, ctxs, one
<1>11. MatrixChild(cs).auth = Context(one).auth /\ MatrixChild(cs).observed = Max(times)
  BY <1>2
<1>12. \A y \in times : y \in Int
  BY <1>8
<1>13. Max(times) \in Int
  BY <1>9, <1>12
<1> QED
  BY <1>1, <1>7, <1>9, <1>10, <1>11, <1>12, <1>13

LEMMA AssembledRootOk ==
  ASSUME ViewerInv, NEW a \in Attempts, Assemble(a)
  PROVE  RootOk([attempt |-> a, current |-> browser.attempt, kids |-> Children])
<1> USE DEF ViewerInv
<1> DEFINE r == [attempt |-> a, current |-> browser.attempt, kids |-> Children]
<1>0. /\ BrowserChild(a) /\ childShelf = {a}
      /\ \A t \in Types : Children[t] # Nothing /\ Children[t].of = a
  BY DEF Assemble, SameBinding, BrowserChild
<1>1. r.attempt = a /\ r.kids = Children
  OBVIOUS
<1>2. /\ \A t \in PilotTypes : t \in Types /\ Children[t] = kids[t]
      /\ Children["negative"] = MatrixChild({Negative}) /\ Children["termination"] = MatrixChild(Cases)
      /\ "negative" \in Types /\ "termination" \in Types /\ "operator" \in PilotTypes
      /\ "broker" \in PilotTypes
  BY DEF Children, Types, PilotTypes, MatrixTypes, SnapshotTypes
<1>3. Settled(a) /\ flown[a] \in Flights
  BY <1>0, ChildIsCurrent DEF ReadsInOrder, Measured
<1>4. \A t \in PilotTypes : KidOk(t) /\ kids[t].from = a
  <2> TAKE t \in PilotTypes
  <2>1. KidOk(t) /\ kids[t].of = a
    BY <1>0, <1>2 DEF KidsOk
  <2>2. ~(a < kids[t].from) /\ a <= kids[t].from /\ kids[t].from \in Attempts
    BY <1>0, <2>1 DEF KidOk, Settled
  <2> QED
    BY <2>1, <2>2, PilotFacts
<1>5. flown[a].after.others = flown[a].before.others /\ kids["operator"].auth \in DOMAIN acts
  BY <1>2, <1>4 DEF KidOk
<1>6. \A c \in Collectors :
        /\ Collected(c) /\ coll[c].auth = Children[MatrixOf(c)].auth
        /\ coll[c].observed \in Int /\ Children[MatrixOf(c)].observed \in Int
        /\ coll[c].observed <= Children[MatrixOf(c)].observed
  <2>1. MatrixChild({Negative}) # Nothing /\ MatrixChild(Cases) # Nothing
    BY <1>0, <1>2
  <2>2. IsFiniteSet({Negative}) /\ IsFiniteSet(Cases) /\ {Negative} \subseteq Collectors
        /\ Cases \subseteq Collectors
    BY FS_Singleton, ViewerConstants, PilotFacts
  <2>3. \A c \in {Negative} :
          /\ Collected(c) /\ coll[c].auth = MatrixChild({Negative}).auth
          /\ MatrixChild({Negative}).observed \in Int /\ coll[c].observed \in Int
          /\ coll[c].observed <= MatrixChild({Negative}).observed
    BY <2>1, <2>2, MatrixSpeaksForAll
  <2>4. \A c \in Cases :
          /\ Collected(c) /\ coll[c].auth = MatrixChild(Cases).auth
          /\ MatrixChild(Cases).observed \in Int /\ coll[c].observed \in Int
          /\ coll[c].observed <= MatrixChild(Cases).observed
    BY <2>1, <2>2, MatrixSpeaksForAll
  <2> QED
    BY <1>2, <2>3, <2>4 DEF MatrixOf, Collectors
<1> HIDE DEF r
<1>7. RootOk(r)
  BY <1>1, <1>2, <1>3, <1>4, <1>5, <1>6 DEF RootOk
<1> QED
  BY <1>7 DEF r

LEMMA AssembleKeepsInv ==
  ASSUME ViewerInv, NEW a \in Attempts, Assemble(a)
  PROVE  ViewerInv'
<1> USE DEF ViewerInv
<1>0. UNCHANGED <<now, world, runs, half, kids, marker>>
  BY DEF Assemble
<1>1. Keeps /\ ShelfMovesOn /\ \A b : Settled(b) <=> Settled(b)'
  BY <1>0, RunsStay DEF world
<1>2. HalvesOk' /\ KidsOk'
  BY <1>0, <1>1, HalvesStay, KidsStay DEF runs
<1>3. RootOk(root)'
  <2>1. PICK r : r = [attempt |-> a, current |-> browser.attempt, kids |-> Children]
    OBVIOUS
  <2>2. RootOk(r)' /\ root' = r
    BY <1>1, <2>1, AssembledRootOk, RootStays DEF Assemble
  <2> QED
    BY <2>2 DEF RootOk
<1>4. ASSUME marker # Nothing PROVE RootOk(marker)'
  <2>1. PICK r : r = marker
    OBVIOUS
  <2>2. RootOk(r)'
    BY <1>1, <1>4, <2>1, RootStays DEF EvidenceOk
  <2> QED
    BY <1>0, <2>1, <2>2 DEF RootOk
<1>5. UnderOneAuthorization'
  BY <1>0 DEF EvidenceOk, UnderOneAuthorization, Expires, world, runs
<1> QED
  BY <1>0, <1>2, <1>3, <1>4, <1>5, EvidenceStep DEF EvidenceOk

\* validate_semantics compares the matrices with the operator's authorization.
LEMMA VerifyKeepsInv ==
  ASSUME ViewerInv, Verify
  PROVE  ViewerInv'
<1> USE DEF ViewerInv
<1> DEFINE i == root.kids["operator"].auth
<1>0. /\ root # Nothing /\ Semantics(root.kids, root.attempt) /\ marker' = root
      /\ UNCHANGED <<now, world, runs, half, kids, root>>
  BY DEF Verify
<1>1. Keeps /\ ShelfMovesOn /\ \A b : Settled(b) <=> Settled(b)'
  BY <1>0, RunsStay DEF world
<1>2. HalvesOk' /\ KidsOk'
  BY <1>0, <1>1, HalvesStay, KidsStay DEF runs
<1>3. RootOk(root)
  BY <1>0 DEF EvidenceOk
<1>4. PICK r : r = root
  OBVIOUS
<1>5. RootOk(r)'
  BY <1>1, <1>3, <1>4, RootStays
<1>6. RootOk(root)' /\ RootOk(marker)'
  BY <1>0, <1>4, <1>5 DEF RootOk
<1>10. /\ flown[root.attempt].ended \in Int /\ flown[root.attempt].started \in Int
       /\ Expires(i) \in Int
  <2>1. flown[root.attempt] \in Flights
    BY <1>3 DEF RootOk
  <2>2. acts[i] \in Nat /\ AuthTtl \in Nat
    BY <1>3, ViewerConstants DEF RootOk, WorldTypes
  <2> QED
    BY <2>1, <2>2 DEF Flights, Expires
<1>7. /\ acts[i] <= flown[root.attempt].started + RunSkew
      /\ flown[root.attempt].ended <= Expires(i)
  <2>1. AuthorizationCovers(i, root.attempt)
    BY <1>0 DEF Semantics
  <2>2. flown[root.attempt].ended \in Int /\ Expires(i) \in Int
    BY <1>10
  <2> QED
    BY <2>1, <2>2 DEF AuthorizationCovers
<1>8. \A c \in Collectors : coll[c].observed <= Expires(i) /\ coll[c].auth = i
  <2> TAKE c \in Collectors
  <2>1. /\ coll[c].auth = root.kids[MatrixOf(c)].auth
        /\ coll[c].observed \in Int /\ root.kids[MatrixOf(c)].observed \in Int
        /\ coll[c].observed <= root.kids[MatrixOf(c)].observed
    BY <1>3 DEF RootOk
  <2>2. MatrixOf(c) \in MatrixTypes
    BY DEF MatrixOf, MatrixTypes
  <2>3. /\ root.kids[MatrixOf(c)].auth = i
        /\ root.kids[MatrixOf(c)].observed <= Min({flown[root.attempt].started + MatrixWindow, Expires(i)})
    BY <1>0, <2>2 DEF Semantics, MatrixAuthorized
  <2>4. flown[root.attempt].started + MatrixWindow \in Int /\ Expires(i) \in Int
    BY <1>10, ViewerConstants
  <2>5. /\ Min({flown[root.attempt].started + MatrixWindow, Expires(i)}) \in Int
        /\ Min({flown[root.attempt].started + MatrixWindow, Expires(i)}) <= Expires(i)
    BY <2>4, MinOfTwo
  <2> QED
    BY <2>1, <2>3, <2>4, <2>5
<1>9. UnderOneAuthorization'
  BY <1>0, <1>7, <1>8 DEF UnderOneAuthorization, Expires, world, runs
<1> QED
  BY <1>0, <1>2, <1>6, <1>9, EvidenceStep DEF EvidenceOk


-----------------------------------------------------------------------------
(* The specification                                                        *)

LEMMA ViewerNextInv ==
  ASSUME ViewerInv, [ViewerNext]_viewerVars
  PROVE  ViewerInv'
<1>1. CASE ViewerTick \/ Activate
  BY <1>1, TickKeepsInv
<1>2. CASE \E s \in Sessions : Deliver(s)
  BY <1>2, DeliverKeepsInv
<1>3. CASE \E c \in Collectors : EndSession(c) \/ AuditStop(c)
  BY <1>3, EndKeepsInv
<1>4. CASE \E i \in 1..MaxActivations : StartBrowser(i)
  BY <1>4, StartBrowserKeepsInv
<1>5. CASE OpenPilot
  BY <1>5, OpenPilotKeepsInv
<1>6. CASE EndPilot
  BY <1>6, EndPilotKeepsInv
<1>7. CASE SnapshotAfter
  BY <1>7, SnapshotAfterKeepsInv
<1>8. CASE UploadChild
  BY <1>8, UploadChildKeepsInv
<1>9. CASE UploadSnapshots
  BY <1>9, UploadSnapshotsKeepsInv
<1>10. CASE FailBrowser
  BY <1>10, FailBrowserKeepsInv
<1>11. CASE \E c \in Collectors, a \in Attempts : StartCollector(c, a)
  BY <1>11, StartCollectorKeepsInv
<1>12. CASE \E c \in Collectors : ObserveEnd(c) \/ FinishCollector(c)
  BY <1>12, CollectorKeepsInv
<1>13. CASE \E t \in SnapshotTypes, a \in Attempts : ReadBrowserChild(t, a)
  <2>1. PICK t \in SnapshotTypes, a \in Attempts : ReadBrowserChild(t, a)
    BY <1>13
  <2>2. /\ half' = [half EXCEPT ![t] = a] /\ BrowserChild(a)
        /\ UNCHANGED <<now, world, runs, kids, root, marker>>
    BY <2>1 DEF ReadBrowserChild, MayProduce
  <2> QED
    BY <2>2, ReadChildKeepsInv
<1>14. CASE \E t \in SnapshotTypes, b \in Attempts : ProduceFromSnapshots(t, b)
  BY <1>14, ProduceKeepsInv
<1>15. CASE \E i \in 1..MaxActivations, a \in Attempts : ProduceOperator(i, a)
  BY <1>15, ProduceOperatorKeepsInv
<1>16. CASE \E t \in SnapshotTypes : AbandonChild(t)
  <2>1. PICK t \in SnapshotTypes : AbandonChild(t)
    BY <1>16
  <2>2. /\ half' = [half EXCEPT ![t] = Never]
        /\ UNCHANGED <<now, world, runs, kids, root, marker>>
    BY <2>1 DEF AbandonChild
  <2>3. Never \in Attempts \cup {Never}
    OBVIOUS
  <2> QED
    BY <2>2, <2>3, ReadChildKeepsInv
<1>17. CASE \E a \in Attempts : Assemble(a)
  BY <1>17, AssembleKeepsInv
<1>18. CASE Verify
  BY <1>18, VerifyKeepsInv
<1>19. CASE UNCHANGED viewerVars
  <2>1. now' = now /\ UNCHANGED <<acts, sess, meter, runs, evidence>>
    BY <1>19 DEF viewerVars, world
  <2>2. PlantOk'
    <3>1. now \in Nat /\ acts \in Seq(Nat) /\ PlantOk
      BY DEF ViewerInv, WorldTypes, PlantOk
    <3> QED
      BY <2>1, <3>1, PlantStays
  <2>3. Keeps /\ ShelfMovesOn /\ \A a : Settled(a) <=> Settled(a)'
    BY <2>1, RunsStay
  <2>4. half' = half /\ kids' = kids /\ UNCHANGED <<root, marker>> /\ snapShelf' = snapShelf
    BY <2>1 DEF evidence, runs
  <2>5. HalvesOk' /\ KidsOk' /\ EvidenceOk'
    BY <2>3, <2>4, HalvesStay, KidsStay, EvidenceStays DEF ViewerInv
  <2> QED
    BY <2>2, <2>5 DEF ViewerInv, PlantOk
<1> QED
  BY <1>1, <1>2, <1>3, <1>4, <1>5, <1>6, <1>7, <1>8, <1>9, <1>10, <1>11, <1>12,
     <1>13, <1>14, <1>15, <1>16, <1>17, <1>18, <1>19 DEF ViewerNext

\* Every reachable state of the evidence chain satisfies ViewerInv: types, the
\* order in which a browser run reads the counters and lists its two artifacts,
\* and what producers, assembler and verifier hold of settled attempts.
THEOREM ViewerInvariant == ViewerSpec => []ViewerInv
  BY ViewerInitInv, ViewerNextInv, PTL DEF ViewerSpec

\* A marker of verify_product_evidence speaks of one pilot: all its pilot children
\* were made from the attempt it names, and the broker sent no frame to anybody
\* else between that attempt's two reads of the counters.
THEOREM MarkerOnePilot == ViewerSpec => []OnePilot
<1>1. ViewerInv => OnePilot
  BY DEF ViewerInv, EvidenceOk, RootOk, OnePilot
<1> QED
  BY <1>1, ViewerInvariant, PTL

\* A marker's pilot and every session its matrices ended lay inside the one
\* authorization that the operator's child names (validate_semantics and
\* validate_negative_and_termination).
THEOREM MarkerAuthorized == ViewerSpec => []UnderOneAuthorization
<1>1. ViewerInv => UnderOneAuthorization
  BY DEF ViewerInv, EvidenceOk
<1> QED
  BY <1>1, ViewerInvariant, PTL

\* A termination case that passed ended its own session, whatever else the
\* broker's counter of ended sessions counted while the collector waited.
THEOREM CasesTerminate == ViewerSpec => []TerminationProven
<1>1. ViewerInv => TerminationProven
  BY DEF ViewerInv, CasesEnd, TerminationProven, Collected
<1> QED
  BY <1>1, ViewerInvariant, PTL
=============================================================================
