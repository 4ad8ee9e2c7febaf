-------------------------- MODULE AnalysisIngest ---------------------------
(***************************************************************************)
(* run_meeting_ai_private_runtime_smoke.py: the private ingest path of an  *)
(* analysis result.  Refusals first, then one result is written three      *)
(* times under a fresh one-use capability each: a first write (201), a     *)
(* replay (200) and a conflicting body (409).  A failed check is recorded  *)
(* and the phases go on.  The services are external and may have one of    *)
(* Faults; the analyzer may store its own result for the same run.         *)
(***************************************************************************)
EXTENDS AcceptanceJob, Naturals

IngestFaults == {"open-token", "wide-token", "open-ingest", "shared-capability",
                 "loose-capability", "rebinds", "creates-again", "overwrites"}

Phases == <<"first-write", "replay", "conflict">>
Expected == [p \in 1..3 |-> <<201, 200, 409>>[p]]

IngestInit ==
  /\ lane = "ingest"
  /\ \E f \in IngestFaults \cup {"sound"} :
       env = [fault |-> f, issued |-> 0, stored |-> "none", created |-> 0]
  /\ job = [pc |-> "setup", write |-> FALSE, phase |-> 1, ok |-> TRUE, ids |-> {}, binding |-> 0,
            body |-> FALSE, cap |-> FALSE, verdict |-> "none"]

Check(j, passed) == [j EXCEPT !.ok = @ /\ passed]

(* validate_test_target, the confirmation and the tuple raise without any
   evidence.  Without --write-synthetic-result (write) nothing is written. *)
SetupIngest ==
  /\ At("ingest", "setup")
  /\ \/ Step(env, Ends(job, "error"))
     \/ \E write \in BOOLEAN : Step(env, [job EXCEPT !.pc = "secret", !.write = write])

(* The client secret is read from the cluster before anything is called. *)
LoadSecret ==
  /\ At("ingest", "secret")
  /\ \/ Step(env, Ends(job, "error"))
     \/ Step(env, [job EXCEPT !.pc = "refusals"])

(* The four token requests that must be refused, and the valid one with its
   claims: issuer, subject, one audience, one permission, a TTL of 1..60 s. *)
ClaimsBound == env.fault # "wide-token"
TokenRefusals ==
  /\ At("ingest", "refusals")
  /\ \E answered \in BOOLEAN :
       LET token == answered /\ ClaimsBound
       IN  Step(env, [Check(job, token /\ env.fault # "open-token" /\ job.write)
                        EXCEPT !.pc = IF token /\ job.write THEN "anonymous" ELSE "accept"])

(* No token and a malformed token must both answer 401.  The probe's body is
   empty, so an open endpoint stores nothing of it. *)
AnonymousIngest ==
  /\ At("ingest", "anonymous")
  /\ \E answered \in BOOLEAN :
       Step(env, [Check(job, answered /\ env.fault # "open-ingest") EXCEPT !.pc = "capability"])

NextPhase(j) ==
  IF j.phase = 3 THEN [j EXCEPT !.pc = "accept", !.cap = FALSE]
                 ELSE [j EXCEPT !.pc = "capability", !.phase = @ + 1, !.cap = FALSE]

(* The ID and the binding of the capability the transcript service issues. *)
CapabilityId == IF env.fault = "shared-capability" THEN 1 ELSE env.issued + 1
Binding == IF env.fault = "rebinds" THEN env.issued + 1 ELSE 1

(* The claims of the capability name this tenant, meeting, session, run, spec
   and finalization version, one audience, and an expiry in 1..300 s. *)
CapabilityExact == env.fault # "loose-capability"

(* Mutant: the IDs of earlier capabilities are not remembered. *)
CapabilityFreshUnchecked(id, b) == job.binding \in {0, b}
CapabilityFresh(id, b) == id \notin job.ids /\ job.binding \in {0, b}

(* Capability token, capability, its claims and its tuple; when any of them
   is refused the phase is skipped. *)
IssueCapability ==
  /\ At("ingest", "capability")
  /\ \E answered \in BOOLEAN :
       LET id == CapabilityId  b == Binding
           bound == answered /\ CapabilityExact /\ CapabilityFresh(id, b)
           e == IF answered THEN [env EXCEPT !.issued = @ + 1] ELSE env
           seen == IF answered /\ CapabilityExact /\ id \notin job.ids
                   THEN [job EXCEPT !.ids = @ \cup {id},
                                    !.binding = IF @ = 0 THEN b ELSE @]
                   ELSE job
       IN  Step(e, IF bound
                   THEN [seen EXCEPT !.pc = "write", !.cap = TRUE, !.body = TRUE]
                   ELSE NextPhase(Check(seen, FALSE)))

(* The server's answer to a body, and its effect. *)
Body == IF Phases[job.phase] = "conflict" THEN "changed" ELSE "base"
Answer(body) ==
  CASE env.stored = "none" -> 201
    [] env.stored = body -> IF env.fault = "creates-again" THEN 201 ELSE 200
    [] OTHER -> IF env.fault = "overwrites" THEN 200 ELSE 409
Ingested(body) ==
  IF Answer(body) = 409 THEN env
  ELSE [env EXCEPT !.stored = body, !.created = IF Answer(body) = 201 THEN @ + 1 ELSE @]

(* A fresh write token, then the write; the answer may get lost. *)
IngestResult ==
  /\ At("ingest", "write")
  /\ \/ Step(env, NextPhase(Check(job, FALSE)))
     \/ Step(Ingested(Body), NextPhase(Check(job, Answer(Body) = Expected[job.phase])))
     \/ Step(Ingested(Body), NextPhase(Check(job, FALSE)))

AcceptIngest ==
  /\ At("ingest", "accept")
  /\ Step(env, Ends(job, IF job.ok THEN "accepted" ELSE "refused"))

(* The analyzer's own result for the same run. *)
AnalyzerWrites ==
  /\ Live("ingest") /\ env.stored = "none"
  /\ Step([env EXCEPT !.stored = "analyzer", !.created = @ + 1], job)

IngestNext ==
  \/ SetupIngest \/ LoadSecret \/ TokenRefusals \/ AnonymousIngest \/ IssueCapability
  \/ IngestResult \/ AcceptIngest \/ AnalyzerWrites

(***************************************************************************)
(* The smoke accepts no service with one of the faults, and never when     *)
(* another writer of the run got in between: what is stored is the body of *)
(* the first write, created once, and three capabilities were used for it. *)
(***************************************************************************)
AcceptedIngestIsIdempotent ==
  lane = "ingest" /\ job.verdict = "accepted" =>
    /\ env.fault = "sound" /\ env.stored = "base" /\ env.created = 1
    /\ env.issued = 3
=============================================================================
