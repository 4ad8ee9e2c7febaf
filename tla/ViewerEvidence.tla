------------------------------ MODULE ViewerEvidence ------------------------------
(***************************************************************************)
(* The evidence chain of the VIEW_ONLY viewer pilot                        *)
(* (scripts/faz22-remote-ops).                                             *)
(*                                                                         *)
(* An activation run issues a protected authorization; a browser run views *)
(* one pilot session between two reads of the broker's counters and        *)
(* uploads two artifacts; collectors end sessions of their own; child      *)
(* producers turn the artifacts into child evidence, an assembler joins    *)
(* the children into a root and a verifier turns the root into a marker.   *)
(* Every step is a workflow run of its own, dispatched by hand in any      *)
(* order, and the browser run may be re-run at any time: its attempt       *)
(* number rises and GitHub may list the artifacts of both attempts.        *)
(*                                                                         *)
(* Digests, bindings and run IDs are modelled by what they identify: the   *)
(* pilot session of attempt a is Pilots[a], and a child's binding is the   *)
(* attempt it was read from.  Field sets, schemas and the owner policy are *)
(* the same for every run of one commit and are left out, as is the        *)
(* revocation ledger, a file of that commit.                               *)
(***************************************************************************)
EXTENDS Integers, Sequences, FiniteSets, FiniteSetsExt, SequencesExt, Functions

CONSTANTS
    Pilots,         \* the pilot session of each attempt of the browser run
    Cases,          \* TERMINATION_CASES; each case has a session of its own
    Negative,       \* the negative matrix collector, and its session
    CollectorFiles, \* the --expected-file list of the collectors' workflows
    Nothing,        \* no run, no record
    AuthTtl,        \* lifetime of an authorization (at most 120 minutes)
    RunSkew,        \* RUN_CLOCK_SKEW
    ActivationDelay,\* MAX_ACTIVATION_TO_PILOT_DELAY
    MinPilot,       \* MIN_PILOT_SECONDS
    MaxPilot,       \* MAX_PILOT_SECONDS
    MatrixWindow,   \* MAX_MATRIX_WINDOW
    MaxAge,         \* MAX_EVIDENCE_AGE
    MaxActivations, \* bound on activation runs
    MaxFrames,      \* bound on frames per session
    MaxNow          \* bound on the clock

Attempts == DOMAIN Pilots
BrowserFiles == {"browser", "consent", "consent-source"}
Collectors == Cases \cup {Negative}
Sessions == Range(Pilots) \cup Collectors
SnapshotTypes == {"broker", "audit", "d30"}
PilotTypes == SnapshotTypes \cup {"operator"}
MatrixTypes == {"negative", "termination"}
Types == PilotTypes \cup MatrixTypes

ASSUME ViewerConstants ==
    /\ {AuthTtl, RunSkew, ActivationDelay, MinPilot, MaxPilot, MatrixWindow, MaxAge,
        MaxActivations, MaxFrames, MaxNow} \subseteq Nat
    /\ CollectorFiles \subseteq BrowserFiles
    /\ IsFiniteSet(Cases) /\ Negative \notin Cases
    /\ Range(Pilots) \cap Collectors = {}
    /\ Pilots \in Seq(Range(Pilots))
    /\ \A a, b \in Attempts : Pilots[a] = Pilots[b] => a = b

VARIABLES
    now,
    acts,       \* completed activation runs: when each authorization was issued
    sess,       \* the broker's view of every session
    meter,      \* the broker's counter of frames sent, and the history of those
                \* sent to others than each pilot
    browser,    \* the browser run: attempt, phase, authorization, first snapshot
    flown,      \* what each attempt recorded about its pilot
    childShelf, \* attempts whose browser artifact GitHub lists
    snapShelf,  \* attempts whose runtime-snapshots artifact GitHub lists
    coll,       \* progress of each collector run
    half,       \* the browser child each child producer has read
    kids,       \* the newest child each of these producers uploaded
    root,       \* the assembled root evidence
    marker      \* the acceptance marker

world == <<acts, sess, meter>>
runs == <<browser, flown, childShelf, snapShelf, coll>>
evidence == <<half, kids, root, marker>>
viewerVars == <<now, world, runs, evidence>>

\* Times, counters and authorizations are naturals: -1 stands for none.
Never == -1

Expires(i) == acts[i] + AuthTtl

\* A collector run that is not under way, and one that gave up.
Idle == [pc |-> "idle", auth |-> Never, root |-> Never, ended |-> Never, sent |-> Never,
         observed |-> Never]
Failed == [Idle EXCEPT !.pc = "failed"]

ViewerInit ==
    /\ now = 0 /\ acts = <<>>
    /\ sess = [s \in Sessions |-> [st |-> "idle", frames |-> 0, stop |-> FALSE]]
    /\ meter = [sent |-> 0, others |-> [p \in Range(Pilots) |-> 0]]
    /\ browser = [attempt |-> 0, pc |-> "none", started |-> Never, before |-> Nothing]
    /\ flown = [a \in Attempts |-> Nothing]
    /\ childShelf = {} /\ snapShelf = {}
    /\ coll = [c \in Collectors |-> Idle]
    /\ half = [t \in SnapshotTypes |-> Never]
    /\ kids = [t \in PilotTypes |-> Nothing]
    /\ root = Nothing /\ marker = Nothing

-----------------------------------------------------------------------------
(***************************************************************************)
(* The broker, as its Prometheus counters and its audit chain show it.     *)
(* The broker does not restart: its process start time is one of the       *)
(* counters, and a pilot whose two reads differ in it yields no child.     *)
(***************************************************************************)
StartedTotal == Cardinality({s \in Sessions : sess[s].st # "idle"})
EndedTotal == Cardinality({s \in Sessions : sess[s].st = "ended"})
\* A read of the counters; others is what nobody reads, the frames ever sent to
\* sessions other than p.
Snapshot(p) == [started |-> StartedTotal, ended |-> EndedTotal,
                sent |-> meter.sent, others |-> meter.others[p]]

ViewerTick ==
    /\ now < MaxNow
    /\ now' = now + 1
    /\ UNCHANGED <<world, runs, evidence>>

\* apply-view-only-viewer-pilot-enable.yml: the watchdog carries the newest
\* authorization.  The run completes in the time unit in which it
\* issues, and the workflow's concurrency group lets one activation run at a time.
Activate ==
    /\ Len(acts) < MaxActivations
    /\ acts # <<>> => Last(acts) < now
    /\ acts' = Append(acts, now)
    /\ UNCHANGED <<now, sess, meter, runs, evidence>>

Deliver(s) ==
    /\ sess[s].st = "open" /\ sess[s].frames < MaxFrames
    /\ sess' = [sess EXCEPT ![s].frames = @ + 1]
    /\ meter' = [sent |-> meter.sent + 1,
                 others |-> [p \in Range(Pilots) |->
                               meter.others[p] + (IF p = s THEN 0 ELSE 1)]]
    /\ UNCHANGED <<now, acts, runs, evidence>>

Opened(s) == [sess EXCEPT ![s] = [st |-> "open", frames |-> 0, stop |-> FALSE]]

\* The trigger of a collector's case fires once its stream carries frames.  The broker
\* then ends the session, and writes VIEW_STOP with the session's frame count
\* later.  Nothing reads the negative session's.
Triggered(c) == coll[c].pc \in {"open", "observed"} /\ sess[c].frames > 0

EndSession(c) ==
    /\ Triggered(c) /\ sess[c].st = "open"
    /\ sess' = [sess EXCEPT ![c].st = "ended", ![c].stop = (c = Negative)]
    /\ UNCHANGED <<now, acts, meter, runs, evidence>>

AuditStop(c) ==
    /\ sess[c].st = "ended" /\ ~sess[c].stop
    /\ sess' = [sess EXCEPT ![c].stop = TRUE]
    /\ UNCHANGED <<now, acts, meter, runs, evidence>>

-----------------------------------------------------------------------------
(***************************************************************************)
(* The browser run.                                                        *)
(***************************************************************************)
Pilot == Pilots[browser.attempt]

\* verify-view-only-pilot-authorization-receipt.py
ReceiptLive(i) == now < Expires(i)

\* A run or a re-run: it verifies the receipt of the authorization it is given
\* and reads the counters.  GitHub keeps or expires the artifacts of the last attempt.
StartBrowser(i) ==
    /\ browser.pc \in {"none", "done", "failed"}
    /\ browser.attempt < Len(Pilots)
    /\ i \in DOMAIN acts /\ ReceiptLive(i)
    /\ browser' = [attempt |-> browser.attempt + 1, pc |-> "before", started |-> Never,
                   before |-> Snapshot(Pilots[browser.attempt + 1])]
    /\ childShelf' \in {childShelf, {}} /\ snapShelf' \in {snapShelf, {}}
    /\ UNCHANGED <<now, world, flown, coll, evidence>>

OpenPilot ==
    /\ browser.pc = "before"
    /\ browser' = [browser EXCEPT !.pc = "live", !.started = now]
    /\ sess' = Opened(Pilot)
    /\ UNCHANGED <<now, acts, meter, flown, childShelf, snapShelf, coll, evidence>>

\* The viewer closes its stream: the pilot ends, is counted and is audited
\* before the second read of the counters.
EndPilot ==
    /\ browser.pc = "live" /\ sess[Pilot].st = "open"
    /\ browser' = [browser EXCEPT !.pc = "ended"]
    /\ sess' = [sess EXCEPT ![Pilot].st = "ended", ![Pilot].stop = TRUE]
    /\ flown' = [flown EXCEPT ![browser.attempt] =
                   [started |-> browser.started, ended |-> now,
                    before |-> browser.before, after |-> Nothing]]
    /\ UNCHANGED <<now, acts, meter, childShelf, snapShelf, coll, evidence>>

\* build-view-only-viewer-audit-summary.py: the tenant's chain holds the VIEW_STOP of
\* this session; build-view-only-viewer-frame-flow-summary.py: a frame was delivered.
AuditSummaryOk == sess[Pilot].stop
FrameFlowOk == sess[Pilot].frames > 0

SnapshotAfter ==
    /\ browser.pc = "ended" /\ AuditSummaryOk /\ FrameFlowOk
    /\ browser' = [browser EXCEPT !.pc = "after", !.started = Never, !.before = Nothing]
    /\ flown' = [flown EXCEPT ![browser.attempt].after = Snapshot(Pilot)]
    /\ UNCHANGED <<now, world, childShelf, snapShelf, coll, evidence>>

UploadChild ==
    /\ browser.pc = "after"
    /\ browser' = [browser EXCEPT !.pc = "uploaded"]
    /\ childShelf' = childShelf \cup {browser.attempt}
    /\ UNCHANGED <<now, world, flown, snapShelf, coll, evidence>>

UploadSnapshots ==
    /\ browser.pc = "uploaded"
    /\ browser' = [browser EXCEPT !.pc = "done"]
    /\ snapShelf' = snapShelf \cup {browser.attempt}
    /\ UNCHANGED <<now, world, flown, childShelf, coll, evidence>>

\* Any step of the workflow may fail.  What differs afterwards is whether the pilot
\* was viewed and whether one of the two artifacts was uploaded.
FailBrowser ==
    /\ browser.pc \in {"live", "uploaded"}
    /\ browser' = [browser EXCEPT !.pc = "failed", !.started = Never, !.before = Nothing]
    /\ sess' = [sess EXCEPT ![Pilot] =
                  IF @.st = "open" THEN [@ EXCEPT !.st = "ended", !.stop = TRUE] ELSE @]
    /\ UNCHANGED <<now, acts, meter, flown, childShelf, snapShelf, coll, evidence>>

\* fetch_browser_child: the run's last attempt succeeded and the run lists exactly
\* one unexpired artifact of that name.
BrowserChild(a) == browser.pc = "done" /\ childShelf = {a}

-----------------------------------------------------------------------------
(***************************************************************************)
(* The collectors of the negative and termination matrices.                *)
(***************************************************************************)
\* extract-exact-zip.py refuses an archive with a member that is not expected.
ExactZip(members) == members = CollectorFiles

\* The newest authorization is the one the watchdog carries.
StartCollector(c, a) ==
    /\ coll[c].pc = "idle"
    /\ BrowserChild(a) /\ ExactZip(BrowserFiles)
    /\ acts # <<>> /\ ReceiptLive(Len(acts))
    /\ coll' = [coll EXCEPT ![c] = [@ EXCEPT !.pc = "open", !.auth = Len(acts), !.root = a,
                                             !.ended = EndedTotal]]
    /\ sess' = Opened(c)
    /\ UNCHANGED <<now, acts, meter, browser, flown, childShelf, snapShelf, evidence>>

\* wait_metric_gt on the broker's ended counter, which must have advanced by one;
\* then the frames sent so far.  A collector that gives up stays failed.
ObserveEnd(c) ==
    /\ coll[c].pc = "open" /\ Triggered(c) /\ EndedTotal > coll[c].ended
    /\ coll' = [coll EXCEPT ![c] =
                  IF EndedTotal = @.ended + 1
                  THEN [@ EXCEPT !.pc = "observed", !.sent = meter.sent]
                  ELSE Failed]
    /\ UNCHANGED <<now, world, browser, flown, childShelf, snapShelf, evidence>>

\* Three seconds later the broker has sent no frame to anybody.
Quiet(c) == meter.sent = coll[c].sent

\* Mutant: the tenant's chain only has to hold a VIEW_STOP of any session.
AnyStop(c) == \E s \in Sessions : sess[s].stop

\* build-view-only-viewer-termination-audit.py: the tenant's verified chain holds
\* exactly one VIEW_STOP of this session, with at least one frame.
StopRecorded(c) == sess[c].stop /\ sess[c].frames > 0

\* The workflow validates the envelope it uploads (validate_matrix_source_attestations).
EnvelopeOk(c) == Quiet(c) /\ (c \in Cases => StopRecorded(c))

FinishCollector(c) ==
    /\ coll[c].pc = "observed"
    /\ coll' = [coll EXCEPT ![c] =
                  IF EnvelopeOk(c)
                  THEN [@ EXCEPT !.pc = "done", !.ended = Never, !.sent = Never, !.observed = now]
                  ELSE Failed]
    /\ UNCHANGED <<now, world, browser, flown, childShelf, snapShelf, evidence>>

-----------------------------------------------------------------------------
(***************************************************************************)
(* The child producers.  They read the browser child first and the runtime *)
(* snapshots in a later call.  A producer is                               *)
(* dispatched again only for another attempt of the browser run.           *)
(* Collectors and producers read nothing of each other's steps, so the     *)
(* collectors go first.                                                    *)
(***************************************************************************)
\* A collector's artifact with its context: whose root binding and authorization it
\* names and when it was observed.
Collected(c) == coll[c].pc = "done"
Context(c) == [of |-> coll[c].root, auth |-> coll[c].auth]

\* When a producer is dispatched, and finds the browser run's artifact.
MayProduce(t, a) ==
    /\ \A c \in Collectors : Collected(c)
    /\ root = Nothing
    /\ BrowserChild(a)
    /\ kids[t] # Nothing => kids[t].of # a

ReadBrowserChild(t, a) ==
    /\ half[t] = Never /\ MayProduce(t, a)
    /\ half' = [half EXCEPT ![t] = a]
    /\ UNCHANGED <<now, world, runs, kids, root, marker>>

\* produce-view-only-viewer-broker-evidence.py: one viewer stream,
\* and as many frames sent as the session's audit and the browser count.
FlowOk(a) ==
    LET b == flown[a].before    e == flown[a].after
    IN  /\ e.started = b.started + 1 /\ e.ended = b.ended + 1
        /\ e.sent - b.sent = sess[Pilots[a]].frames

\* The frame-flow and audit summaries carry the binding of their session, the
\* D30 snapshot carries none: its child takes the browser's.
SameSession(t, a, b) == t # "d30" => a = b

\* fetch_runtime_snapshots looks at the artifact list alone, not at the run.
ProduceFromSnapshots(t, b) ==
    /\ half[t] # Never /\ snapShelf = {b}
    /\ SameSession(t, half[t], b)
    /\ t = "broker" => FlowOk(b)
    /\ kids' = [kids EXCEPT ![t] = [of |-> half[t], from |-> b, observed |-> flown[b].ended]]
    /\ half' = [half EXCEPT ![t] = Never]
    /\ UNCHANGED <<now, world, runs, root, marker>>

\* Mutant: an activation that completed after the pilot started is accepted.
CoversAnyOrder(i, a) == Expires(i) >= flown[a].ended

\* verify_activation_authorization
AuthorizationCovers(i, a) ==
    /\ acts[i] <= flown[a].started + RunSkew
    /\ flown[a].started - acts[i] <= ActivationDelay
    /\ Expires(i) >= flown[a].ended

\* produce-view-only-viewer-operator-evidence.py, given any activation run.  An
\* activation does not change and a later one cannot cover the pilot, so the two
\* reads are one step.
ProduceOperator(i, a) ==
    /\ MayProduce("operator", a)
    /\ i \in DOMAIN acts /\ AuthorizationCovers(i, a)
    /\ kids' = [kids EXCEPT !["operator"] =
                  [of |-> a, from |-> a, auth |-> i, observed |-> flown[a].started]]
    /\ UNCHANGED <<now, world, runs, half, root, marker>>

\* A producer that read the browser child and cannot go on fails.
AbandonChild(t) ==
    /\ half[t] # Never
    /\ half' = [half EXCEPT ![t] = Never]
    /\ UNCHANGED <<now, world, runs, kids, root, marker>>

\* The matrix child made from collector runs cs, which never change: all of them
\* under one authorization and one root binding.
MatrixChild(cs) ==
    LET times == {coll[c].observed : c \in cs}
    IN  IF (\A c \in cs : Collected(c)) /\ Cardinality({Context(c) : c \in cs}) = 1
        THEN LET x == Context(CHOOSE c \in cs : TRUE)
             IN  [of |-> x.of, auth |-> x.auth, first |-> Min(times), observed |-> Max(times)]
        ELSE Nothing

\* The newest child of each type.
Children ==
    [t \in Types |-> IF t = "negative" THEN MatrixChild({Negative})
                     ELSE IF t = "termination" THEN MatrixChild(Cases)
                     ELSE kids[t]]

-----------------------------------------------------------------------------
(***************************************************************************)
(* The root and the marker.  The first root is followed until its marker.  *)
(***************************************************************************)
\* Mutant: the children's bindings are not compared.
AnyBinding(ks, a) == TRUE

SameBinding(ks, a) == \A t \in Types : ks[t].of = a

PilotWindowOk(a) == flown[a].ended - flown[a].started \in MinPilot..MaxPilot

LatestObserved(t, a) ==
    IF t \in MatrixTypes THEN flown[a].started + MatrixWindow ELSE flown[a].ended + RunSkew

ObservedInWindow(ks, a) ==
    \A t \in Types : ks[t].observed \in (flown[a].started - RunSkew)..LatestObserved(t, a)

\* assemble: only the browser run can change between the reads of the seven
\* sources, and a source run that completes after the producer started is
\* refused, so the reads are one step.
Assemble(a) ==
    /\ root = Nothing /\ BrowserChild(a)
    /\ \A t \in Types : Children[t] # Nothing
    /\ SameBinding(Children, a) /\ PilotWindowOk(a) /\ ObservedInWindow(Children, a)
    /\ root' = [attempt |-> a, current |-> browser.attempt, kids |-> Children]
    /\ UNCHANGED <<now, world, runs, half, kids, marker>>

\* fetch_verified_source_child of the browser run: succeeded, still at the attempt
\* the root names, its artifact still listed.
SourceUnchanged ==
    /\ browser.pc = "done" /\ browser.attempt = root.current
    /\ root.attempt \in childShelf

\* validate_negative_and_termination: the matrices ran under the operator's
\* authorization, inside its lifetime and the matrix window.
MatrixAuthorized(ks, a) ==
    \A t \in MatrixTypes :
       /\ ks[t].auth = ks["operator"].auth
       /\ ks[t].first >= flown[a].started - RunSkew
       /\ ks[t].observed <= Min({flown[a].started + MatrixWindow, Expires(ks["operator"].auth)})

\* validate_semantics
Semantics(ks, a) ==
    /\ SameBinding(ks, a)
    /\ PilotWindowOk(a) /\ ObservedInWindow(ks, a)
    /\ now - flown[a].ended <= MaxAge
    /\ AuthorizationCovers(ks["operator"].auth, a)
    /\ MatrixAuthorized(ks, a)

\* verify_product_evidence
Verify ==
    /\ root # Nothing
    /\ SourceUnchanged
    /\ Semantics(root.kids, root.attempt)
    /\ marker' = root
    /\ UNCHANGED <<now, world, runs, half, kids, root>>

ViewerNext ==
    \/ ViewerTick
    \/ Activate
    \/ \E s \in Sessions : Deliver(s)
    \/ \E c \in Collectors : EndSession(c) \/ AuditStop(c)
    \/ \E i \in 1..MaxActivations : StartBrowser(i)
    \/ OpenPilot
    \/ EndPilot
    \/ SnapshotAfter
    \/ UploadChild
    \/ UploadSnapshots
    \/ FailBrowser
    \/ \E c \in Collectors, a \in Attempts : StartCollector(c, a)
    \/ \E c \in Collectors : ObserveEnd(c) \/ FinishCollector(c)
    \/ \E t \in SnapshotTypes, a \in Attempts : ReadBrowserChild(t, a)
    \/ \E t \in SnapshotTypes, b \in Attempts : ProduceFromSnapshots(t, b)
    \/ \E i \in 1..MaxActivations, a \in Attempts : ProduceOperator(i, a)
    \/ \E t \in SnapshotTypes : AbandonChild(t)
    \/ \E a \in Attempts : Assemble(a)
    \/ Verify

ViewerSpec == ViewerInit /\ [][ViewerNext]_viewerVars

-----------------------------------------------------------------------------
\* The marker speaks of one pilot: the children that carry no session of their own
\* (the D30 snapshot) and the ones that do come from the attempt whose session the
\* root names, though producers read in two calls and the browser run is re-run in
\* between; and no other session was sent a frame between the two reads of the
\* counters, so that the SLO figures of the root are the pilot's own.
OnePilot ==
    marker # Nothing =>
        LET f == flown[marker.attempt]
        IN  /\ \A t \in PilotTypes : marker.kids[t].from = marker.attempt
            /\ f.after.others = f.before.others

\* A marker's pilot, and every session its matrices ended, lay inside the
\* authorization the operator's child names: issued before the pilot started, in
\* force when the pilot and the last matrix observation ended.
UnderOneAuthorization ==
    marker # Nothing =>
        LET i == marker.kids["operator"].auth    a == marker.attempt
        IN  /\ acts[i] <= flown[a].started + RunSkew
            /\ flown[a].ended <= Expires(i)
            /\ \A c \in Collectors : coll[c].observed <= Expires(i) /\ coll[c].auth = i

\* A termination case that enters the evidence ended its own session, though the
\* ended counter it waited for counts everybody's: no session stays open behind a
\* passed case.
TerminationProven == \A c \in Cases : coll[c].pc = "done" => sess[c].st = "ended"
================================================================================
