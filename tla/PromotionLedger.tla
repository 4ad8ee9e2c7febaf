-------------------------- MODULE PromotionLedger --------------------------
(***************************************************************************)
(* The way of an image digest from the test overlay to the prod overlay:   *)
(* the smoke unit probes the test cluster, ledger-mark-verified.sh records *)
(* the result in the promotion ledger, gate-evidence-check.py lets a prod  *)
(* pull request pass when the digests it adds have evidence, and its lag   *)
(* check looks for evidence that prod does not follow.  Overlays, ledger   *)
(* and cluster change while units, pull requests and gates are under way.  *)
(***************************************************************************)
EXTENDS AcceptanceJob, Naturals, Sequences, FiniteSets, Functions

CONSTANTS LagDays,                      \* the window of the lag check
          MaxMoves, MaxSmokes, MaxPrs   \* bounds: changes of main, smoke runs, pull requests

ASSUME PromotionAssumption == LagDays \in Nat

(* api validates tokens itself, web does not (jwt_validates).  The services
   may run one image.  Digest 0 is in both overlays from the start, digest 1
   may be an image that does not work. *)
Services == {"api", "web"}
JwtValidates == {"api"}
Digests == 0..2
NewDigests == Digests \ {0}
ProbeOrder == <<"api", "web">>

NoEntry == [state |-> "none"]
BareEntry == [state |-> "entry"]

PromotionInit ==
  /\ lane = "promotion"
  /\ \E broken \in SUBSET {1} :
       env = [test |-> [s \in Services |-> 0], run |-> [s \in Services |-> 0],
              prod |-> [s \in Services |-> 0], broken |-> broken, day |-> 0, moves |-> 0,
              ledger |-> [s \in Services |-> [d \in NewDigests |-> NoEntry]],
              bases |-> {{0}}, gated |-> {}, prs |-> 0]
  /\ job = [pc |-> "idle", co |-> <<>>, todo |-> <<>>, insync |-> {}, red |-> FALSE,
            day |-> 0, smokes |-> 0, verdict |-> "none"]

(* The unit at rest: what a finished run leaves behind is not read again. *)
Idle(j) == [j EXCEPT !.pc = "idle", !.co = <<>>, !.todo = <<>>, !.insync = {}, !.red = FALSE, !.day = 0]

-----------------------------------------------------------------------------
(* The test overlay, Argo CD, the calendar and the ledger's other writers,
   MaxMoves changes of main or of the day together. *)

MayMove == Live("promotion") /\ env.moves < MaxMoves

TestBump ==
  /\ MayMove
  /\ \E s \in Services, d \in NewDigests :
       /\ d # env.test[s]
       /\ Step([env EXCEPT !.test[s] = d, !.moves = @ + 1], job)
ArgoSync ==
  /\ Live("promotion")
  /\ \E s \in Services : env.run[s] # env.test[s] /\ Step([env EXCEPT !.run[s] = env.test[s]], job)
NextDay == MayMove /\ env.day = 0 /\ Step([env EXCEPT !.day = 1, !.moves = @ + 1], job)

(* A ledger pull request adds an entry, without evidence, when its file name,
   service and digest agree (validate_one); a refused one changes nothing. *)
EntryAdded ==
  /\ MayMove
  /\ \E s \in Services, d \in NewDigests :
       /\ env.ledger[s][d] = NoEntry /\ d = env.test[s]
       /\ Step([env EXCEPT !.ledger[s][d] = BareEntry, !.moves = @ + 1], job)

-----------------------------------------------------------------------------
(* The smoke unit: check out overlay and ledger of main, probe the services
   one after the other, mark.  The report names no digest. *)

Checkout ==
  /\ At("promotion", "idle") /\ job.smokes < MaxSmokes
  /\ Step(env, [job EXCEPT !.pc = "probe", !.co = env.test, !.todo = ProbeOrder, !.day = env.day,
                           !.smokes = @ + 1])
ProbeService ==
  /\ At("promotion", "probe") /\ job.todo # <<>>
  /\ LET s == Head(job.todo)
     IN  Step(env, [job EXCEPT !.todo = Tail(@), !.red = @ \/ env.run[s] \in env.broken,
                               !.insync = IF env.run[s] = job.co[s] THEN @ \cup {s} ELSE @])

(* check_tiers: the Zanzibar tier may be AMBER for a service that validates
   no tokens, the others are GREEN. *)
CheckTiers(s, zanzibar) == zanzibar = "GREEN" \/ (zanzibar = "AMBER" /\ s \notin JwtValidates)

(* A digest outside the model's ledger is the one both overlays start with. *)
Markable(s, d) == d \in NewDigests /\ env.ledger[s][d].state # "verified"

Evidence(zanzibar, exact) ==
  [state |-> "verified", day |-> job.day, zanzibar |-> zanzibar, exact |-> exact]

(* Mutant: the exit code of the smoke is not looked at. *)
SmokePassedIgnored(zanzibar) == TRUE

(* exit_code 0: no tier is RED, AMBER or skipped. *)
SmokePassed(zanzibar) == ~ job.red /\ zanzibar = "GREEN"

(* The marker looks up an entry by service and by the digest of the rendered
   checkout; without one it derives it from the registry or skips.  Its pull
   request is merged before the unit runs again. *)
MarkVerified ==
  /\ At("promotion", "probe") /\ job.todo = <<>>
  /\ \E zanzibar \in {"GREEN", "AMBER"}, autogenerate \in BOOLEAN :
       LET marked == {s \in Services :
             /\ SmokePassed(zanzibar) /\ Markable(s, job.co[s]) /\ CheckTiers(s, zanzibar)
             /\ autogenerate \/ env.ledger[s][job.co[s]] # NoEntry}
           now == [s \in Services |-> [d \in NewDigests |->
             IF s \in marked /\ d = job.co[s]
             THEN Evidence(zanzibar, s \in job.insync) ELSE env.ledger[s][d]]]
       IN  Step([env EXCEPT !.ledger = now], Idle(job))

(* The frontend's prod variant is started by itself in the test cluster; its
   report names the digest of the pod. *)
VariantSmoke ==
  /\ At("promotion", "idle") /\ job.smokes < MaxSmokes
  /\ \E d \in NewDigests \ env.broken :
       /\ Markable("web", d) /\ CheckTiers("web", "AMBER")
       /\ Step([env EXCEPT !.ledger["web"][d] = [Evidence("AMBER", TRUE) EXCEPT !.day = env.day]],
               [job EXCEPT !.smokes = @ + 1])

-----------------------------------------------------------------------------
(* Prod pull requests and their gate. *)

(* check_evidence of an entry: tiers that pass and a verification time. *)
CheckEvidence(s, d) == env.ledger[s][d].state = "verified" /\ CheckTiers(s, env.ledger[s][d].zanzibar)

(* find_ledger_entries_by_digest: the first entry of the digest in directory
   order, whichever service it is of. *)
EntriesOf(d) == {s \in Services : d \in NewDigests /\ env.ledger[s][d] # NoEntry}

(* The digests of the merge of the pull request with main that its base, main
   when it was opened, did not have. *)
HeadDigests(s, d) == Range([env.prod EXCEPT ![s] = d])
AddedDigests(s, d, base) == HeadDigests(s, d) \ base

(* A pull request for any service and digest, opened on main as it is or as
   it once was.  A gate that fails leaves it open and may run again. *)
GatePasses ==
  /\ Live("promotion") /\ env.prs < MaxPrs
  /\ \E s \in Services, d \in Digests, base \in env.bases :
       /\ d # env.prod[s]
       /\ \A new \in AddedDigests(s, d, base) :
            \E first \in EntriesOf(new) : CheckEvidence(first, new)
       /\ Step([env EXCEPT !.gated = @ \cup {<<s, d>>}, !.prs = @ + 1], job)

(* Merged on main as it is by then, without another run of the gate. *)
MergePr ==
  /\ Live("promotion")
  /\ \E pr \in env.gated :
       LET prod == [env.prod EXCEPT ![pr[1]] = pr[2]]
       IN  Step([env EXCEPT !.prod = prod, !.gated = @ \ {pr}, !.bases = @ \cup {Range(prod)}], job)

-----------------------------------------------------------------------------
(* The daily lag check, of overlay and ledger of one commit. *)

VerifiedDigests(s) == {d \in NewDigests : CheckEvidence(s, d)}

(* latest_verified_per_service: the newest verification; of two at one time
   the first in directory order. *)
Latest(s) ==
  {d \in VerifiedDigests(s) : \A o \in VerifiedDigests(s) : env.ledger[s][o].day <= env.ledger[s][d].day}
Lags(s, d) == d # env.prod[s] /\ env.ledger[s][d].day + LagDays < env.day

LagCheck ==
  /\ At("promotion", "idle")
  /\ \E latest \in [{s \in Services : VerifiedDigests(s) # {}} -> NewDigests] :
       /\ \A s \in DOMAIN latest : latest[s] \in Latest(s)
       /\ Step(env, Ends(job, IF \E s \in DOMAIN latest : Lags(s, latest[s]) THEN "lag" ELSE "clean"))

PromotionNext ==
  \/ TestBump \/ ArgoSync \/ NextDay \/ EntryAdded \/ Checkout \/ ProbeService \/ MarkVerified
  \/ VariantSmoke \/ GatePasses \/ MergePr \/ LagCheck

-----------------------------------------------------------------------------
(***************************************************************************)
(* gate-evidence-check.py and ledger-mark-verified.sh: a digest that       *)
(* reached prod has an entry whose evidence passes the policy of the       *)
(* entry's service, also when the pull request was gated on an older main  *)
(* or its digest came to prod with another service; and a digest whose     *)
(* pods were the ones probed works.  After a clean lag check a service     *)
(* that is behind an overdue digest has newer evidence within the window.  *)
(***************************************************************************)
PromotedHasEvidence ==
  lane = "promotion" =>
    /\ \A s \in Services : env.prod[s] \in NewDigests =>
         \E e \in Services :
           LET entry == env.ledger[e][env.prod[s]]
           IN  /\ entry.state = "verified" /\ CheckTiers(e, entry.zanzibar)
               /\ entry.exact => env.prod[s] \notin env.broken
    /\ job.verdict = "clean" =>
         \A s \in Services : \A d \in VerifiedDigests(s) :
           Lags(s, d) => \E n \in VerifiedDigests(s) :
             env.ledger[s][n].day >= env.ledger[s][d].day /\ ~ Lags(s, n)
=============================================================================
