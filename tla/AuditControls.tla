--------------------------- MODULE AuditControls ---------------------------
(***************************************************************************)
(* collect-wg-bplus-i3-evidence.py and its verifier: the audit controls of *)
(* the Windows host.  A scheduled task of that host writes a snapshot of   *)
(* six controls with the time of ITS clock; the collector fetches it over  *)
(* ssh, adds what the management runner sees (its own journal record, the  *)
(* WireGuard interface, the route), and the verifier judges the bundle     *)
(* later.  Three clocks matter: the snapshot's, the bundle's (taken before *)
(* the first command) and the verifier's.                                  *)
(***************************************************************************)
EXTENDS AcceptanceJob, Integers

Controls == {"powershell-transcription", "powershell-script-block", "failed-login",
             "wireguard-health", "eset-firewall-drift", "time-sync"}

CONSTANTS
  MaxAge, FutureSkew, Window,   \* 900 s, 300 s and 180 s of the code, in ticks
  BoundedSkew, Fast,            \* a synchronized and a runaway clock of the host
  MaxTime                       \* bound of the clock

ASSUME ControlsAssumption ==
  MaxAge \in Nat /\ FutureSkew \in Nat /\ Window \in Nat /\ BoundedSkew \in Nat /\ Fast \in Nat

NoSnapshot == [at |-> 0, real |-> 0, failed |-> {}, told |-> {}, maxAge |-> MaxAge, made |-> FALSE]

ControlsInit ==
  /\ lane = "controls"
  /\ \E skew \in {-BoundedSkew, BoundedSkew, Fast}, pinned \in BOOLEAN :
       env = [pinned |-> pinned, clock |-> 0, skew |-> skew, failing |-> {}, snap |-> NoSnapshot,
              writes |-> 0, faults |-> 0]
  /\ job = [pc |-> "start", now |-> 0, started |-> 0, snap |-> NoSnapshot, reached |-> FALSE,
            openssh |-> FALSE, tcp |-> FALSE, staging |-> FALSE, verdict |-> "none"]

(***************************************************************************)
(* The Windows host.  A clock that runs far ahead is what the time-sync    *)
(* control refuses; any control may fail and be mended.  The snapshot says *)
(* what was observed (failed) and gives a verdict of its own (told).       *)
(***************************************************************************)
Failing == env.failing \cup (IF env.skew = Fast THEN {"time-sync"} ELSE {})
WriteSnapshot ==
  /\ Live("controls") /\ env.writes < 2
  /\ \E maxAge \in {MaxAge, MaxAge + 3}, told \in {{}, Failing} :
       Step([env EXCEPT !.writes = @ + 1,
                        !.snap = [at |-> env.clock + env.skew, real |-> env.clock,
                                  failed |-> Failing, told |-> told, maxAge |-> maxAge, made |-> TRUE]], job)
ControlChanges ==
  /\ Live("controls") /\ env.faults < 2
  /\ \E f \in {{}, {"eset-firewall-drift"}} :
       /\ f # env.failing
       /\ Step([env EXCEPT !.failing = f, !.faults = @ + 1], job)
TimePasses ==
  /\ Live("controls") /\ env.clock < MaxTime
  /\ Step([env EXCEPT !.clock = @ + 1], job)

(***************************************************************************)
(* The collector.                                                          *)
(***************************************************************************)
Start ==
  /\ At("controls", "start")
  /\ Step(env, [job EXCEPT !.pc = "ssh", !.now = env.clock, !.started = env.clock])

(* collect_denetim_metadata: without pinned known_hosts there is no ssh; when
   ssh or its JSON fails, every Windows control is a fail. *)
KnownHostsPinned == env.pinned
FetchSnapshot ==
  /\ At("controls", "ssh")
  /\ \/ /\ KnownHostsPinned
        /\ \E openssh \in BOOLEAN :
             Step(env, [job EXCEPT !.pc = "journal", !.reached = TRUE, !.snap = env.snap,
                                   !.openssh = openssh])
     \/ Step(env, [job EXCEPT !.pc = "journal"])

(* collect_staging_metadata: a journal record with a fresh correlation ID
   and the outcome of the attempt, read back within the window. *)
WithinWindow == env.clock - job.started <= Window
CorrelateJournal ==
  /\ At("controls", "journal")
  /\ \E correlated \in BOOLEAN :
       Step(env, [job EXCEPT !.pc = "wireguard",
                             !.staging = job.reached /\ correlated /\ WithinWindow])

(* The first interface that answers all three queries is the selected one. *)
SelectInterface ==
  /\ At("controls", "wireguard")
  /\ \E peers \in BOOLEAN :
       Step(env, [job EXCEPT !.pc = "preflight", !.staging = @ /\ peers])

(* collect_denetim_ssh_preflight: the route must leave over that interface;
   whether tcp/22 answers now only the verifier looks at. *)
SshPreflight ==
  /\ At("controls", "preflight")
  /\ \E route, tcp \in BOOLEAN :
       Step(env, [job EXCEPT !.pc = "verify", !.staging = @ /\ route, !.tcp = tcp])

(* control_contract: fresh against the bundle, by the record's own maximum. *)
FreshIn(age, limit) == -FutureSkew <= age /\ age <= limit
SnapshotUsable == job.reached /\ job.snap.made
ControlPasses(c) ==
  SnapshotUsable /\ c \notin job.snap.told /\ FreshIn(job.now - job.snap.at, job.snap.maxAge)

(***************************************************************************)
(* The verifier.                                                           *)
(***************************************************************************)
BundleFresh == FreshIn(env.clock - job.now, MaxAge)
CollectorSemantics == job.reached /\ job.tcp
(* validate_control: the canonical maximum, and both ages once more. *)
(* Mutant: the age is only compared with the time of the bundle. *)
ControlFreshInBundle(snap) == snap.maxAge = MaxAge /\ FreshIn(job.now - snap.at, MaxAge)
ControlFresh(snap) ==
  /\ snap.maxAge = MaxAge
  /\ FreshIn(job.now - snap.at, MaxAge) /\ FreshIn(env.clock - snap.at, MaxAge)

(* validate_control_semantics: the verdict is derived again from what was
   observed, against the policy of the repository. *)
ControlSemantics(c) == c \notin job.snap.failed
ValidateControl(c) == ControlPasses(c) /\ ControlFresh(job.snap) /\ ControlSemantics(c)
ValidateChecks == (\A c \in Controls : ValidateControl(c)) /\ job.openssh /\ job.staging
VerifyControls ==
  /\ At("controls", "verify")
  /\ Step(env, Ends(job, IF BundleFresh /\ CollectorSemantics /\ ValidateChecks
                         THEN "accepted" ELSE "rejected"))

ControlsNext ==
  \/ WriteSnapshot \/ ControlChanges \/ TimePasses \/ Start \/ FetchSnapshot
  \/ CorrelateJournal \/ SelectInterface \/ SshPreflight \/ VerifyControls

(***************************************************************************)
(* When the I3 verifier accepts, the Windows host had all six controls in  *)
(* order at a moment that is really no longer ago than the maximum age and *)
(* the skew a synchronized clock may have, although the snapshot carries   *)
(* the time of the host it vouches for; and the collector's own attempt    *)
(* was recorded within its window.                                         *)
(***************************************************************************)
AcceptedControlsAreRecent ==
  lane = "controls" /\ job.verdict = "accepted" =>
    /\ job.snap.made /\ job.snap.failed = {}
    /\ env.clock - job.snap.real <= MaxAge + BoundedSkew
    /\ job.staging /\ env.pinned
=============================================================================
