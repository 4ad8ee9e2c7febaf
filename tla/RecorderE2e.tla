---------------------------- MODULE RecorderE2e ----------------------------
(***************************************************************************)
(* The direct speech-to-text acceptance: run_external_recorder_smoke.py    *)
(* drives one recording through the public API, then                       *)
(* collect_direct_stt_e2e_evidence.py looks for its traces in the cluster, *)
(* the Redis streams and the audit database, and                           *)
(* verify_direct_stt_e2e_evidence.py judges what was collected.  The       *)
(* gateway, the transcriber and the audit writer are external: they take   *)
(* the steps their APIs show, answers get lost, a session may expire, the  *)
(* pod may be replaced and the stream may roll past the newest records     *)
(* while the collector is still reading.                                   *)
(***************************************************************************)
EXTENDS AcceptanceJob, Naturals, Sequences

Providers == {"internal", "speechmatics"}

(* The calls of run_smoke, in order; each failure ends the job. *)
SmokeCalls == <<"create_meeting", "record_consent", "start_session",
                "sync_recording_lifecycle_start", "upload_chunk",
                "finish_session", "sync_recording_lifecycle_finish",
                "session_status">>

NoCluster == [pod |-> 0, direct |-> FALSE, mounted |-> FALSE, keys |-> FALSE]
NoEvidence == [cluster |-> NoCluster, probeOk |-> FALSE, slow |-> FALSE,
               result |-> "none", audio |-> FALSE, audit |-> "none",
               clean |-> FALSE, failed |-> FALSE]

E2eInit ==
  /\ lane = "e2e"
  /\ env = [meeting |-> "none", consent |-> FALSE, session |-> "none",
            provider |-> "none", chunk |-> FALSE, result |-> "none",
            inWindow |-> TRUE, audit |-> "none", pod |-> 1, direct |-> TRUE]
  /\ job = [pc |-> "token", call |-> 1, sawFinished |-> FALSE, smokeOk |-> FALSE,
            ev |-> NoEvidence, verdict |-> "none"]

(* _read_token and _validate_token_contract: no call is made on a bad token. *)
ValidateToken ==
  /\ At("e2e", "token")
  /\ \/ Step(env, [job EXCEPT !.pc = "call"])
     \/ Step(env, [job EXCEPT !.pc = "cluster"])

(***************************************************************************)
(* What the server does on a call it accepts.  The gateway picks the       *)
(* provider of a session when it starts it.                                *)
(***************************************************************************)
Accepts(call) ==
  CASE call = "create_meeting" -> env.meeting = "none"
    [] call = "record_consent" -> env.meeting # "none"
    [] call = "start_session" -> env.consent /\ env.session = "none"
    [] call = "sync_recording_lifecycle_start" -> env.session # "none"
    [] call = "upload_chunk" -> env.session = "active"
    [] call = "finish_session" -> env.session = "active"
    [] call = "sync_recording_lifecycle_finish" -> env.meeting = "in_progress"
    [] call = "session_status" -> env.session \in {"active", "finished"}

Served(call, provider) ==
  CASE call = "create_meeting" -> [env EXCEPT !.meeting = "scheduled"]
    [] call = "record_consent" -> [env EXCEPT !.consent = TRUE]
    [] call = "start_session" -> [env EXCEPT !.session = "active", !.provider = provider]
    [] call = "sync_recording_lifecycle_start" -> [env EXCEPT !.meeting = "in_progress"]
    [] call = "upload_chunk" -> [env EXCEPT !.chunk = TRUE]
    [] call = "finish_session" -> [env EXCEPT !.session = "finished"]
    [] call = "sync_recording_lifecycle_finish" -> [env EXCEPT !.meeting = "completed"]
    [] call = "session_status" -> env

(* Mutant: the receipt of a recording that broke off says pass. *)
SmokeAlwaysPasses(ok, saw) ==
  [job EXCEPT !.pc = "cluster", !.call = 1, !.smokeOk = TRUE, !.sawFinished = saw]

(* The collector runs after the smoke whatever its exit code was. *)
SmokeEnds(ok, saw) ==
  [job EXCEPT !.pc = "cluster", !.call = 1, !.smokeOk = ok, !.sawFinished = saw]

(* _http_request answered with an expected status: the next call, or pass. *)
CallAnswered ==
  /\ At("e2e", "call")
  /\ LET call == SmokeCalls[job.call] IN
     /\ Accepts(call)
     /\ \E p \in Providers :
          /\ call # "start_session" => p = "internal"
          /\ IF job.call < Len(SmokeCalls)
             THEN Step(Served(call, p), [job EXCEPT !.call = @ + 1])
             ELSE Step(env, SmokeEnds(env.session = "finished", env.session = "finished"))

(* The last answer is no JSON object: run_smoke cannot see another state.  *)
StatusUnreadable ==
  /\ At("e2e", "call")
  /\ job.call = Len(SmokeCalls)
  /\ Accepts("session_status")
  /\ Step(env, SmokeEnds(TRUE, FALSE))

(* Refused, unreachable, or timed out with the effect already in place. *)
CallFailed ==
  /\ At("e2e", "call")
  /\ LET call == SmokeCalls[job.call] IN
     \/ Step(env, SmokeEnds(FALSE, FALSE))
     \/ /\ Accepts(call)
        /\ \E p \in Providers : Step(Served(call, p), SmokeEnds(FALSE, FALSE))

(***************************************************************************)
(* The external system.  The transcriber works on an accepted chunk; its   *)
(* provider is the session's unless the gateway falls back.                *)
(***************************************************************************)
Transcribe ==
  /\ Live("e2e") /\ env.chunk /\ env.result = "none" /\ env.direct
  /\ \E p \in Providers : Step([env EXCEPT !.result = p], job)

AuditAdvances ==
  /\ Live("e2e")
  /\ \/ env.result # "none" /\ env.audit = "none" /\ Step([env EXCEPT !.audit = "row"], job)
     \/ env.audit = "row" /\ Step([env EXCEPT !.audit = "chained"], job)

SessionExpires ==
  /\ Live("e2e") /\ env.session = "active"
  /\ Step([env EXCEPT !.session = "expired"], job)

(* Records of other sessions push this one out of the newest redis_count. *)
StreamRolls ==
  /\ Live("e2e") /\ env.result # "none" /\ env.inWindow
  /\ Step([env EXCEPT !.inWindow = FALSE], job)

PodReplaced ==
  /\ Live("e2e") /\ env.pod = 1
  /\ \E d \in BOOLEAN : Step([env EXCEPT !.pod = 2, !.direct = d], job)

(***************************************************************************)
(* The collector.  Every command may fail by itself; a failure is recorded *)
(* and the collection goes on with what it has.                            *)
(***************************************************************************)
Collected(ev, next) == Step(env, [job EXCEPT !.pc = next, !.ev = ev])

Fails(ev, cond) == [ev EXCEPT !.failed = @ \/ cond]

(* kube_access_status, kget and find_audio_gateway_pod. *)
ReadCluster ==
  /\ At("e2e", "cluster")
  /\ \E mounted, keys, ready \in BOOLEAN :
       LET seen == [pod |-> IF ready THEN env.pod ELSE 0, direct |-> env.direct,
                    mounted |-> mounted, keys |-> keys]
       IN  Collected(Fails([job.ev EXCEPT !.cluster = seen],
                           ~job.smokeOk \/ ~ready \/ ~keys \/ ~env.direct), "probe")

(* mtls_probe runs in the pod seen before, and only for the internal
   provider; the collector does not look at how long it took. *)
MtlsProbe ==
  /\ At("e2e", "probe")
  /\ IF env.provider = "speechmatics"
     THEN Collected(job.ev, "wait")
     ELSE \E healthy, slow \in BOOLEAN :
            LET ok == healthy /\ job.ev.cluster.pod = env.pod
            IN  Collected(Fails([job.ev EXCEPT !.probeOk = ok, !.slow = ok /\ slow], ~ok), "wait")

ResultVisible == env.inWindow /\ env.result # "none"

(* redis_stream_records: docker first; without docker through the pod. *)
CanReadRedis(docker) == docker \/ job.ev.cluster.pod = env.pod

(* wait_for_direct_stt_result: polls until it sees the record or gives up;
   what it saw is dropped, only the second read counts. *)
WaitForResult ==
  /\ At("e2e", "wait")
  /\ Collected(job.ev, "streams")

(* find_record and find_audio_chunk_record on the second read. *)
ReadStreams ==
  /\ At("e2e", "streams")
  /\ \E docker, empty, rawAudio \in BOOLEAN :
       LET seen  == IF CanReadRedis(docker) /\ ResultVisible THEN env.result ELSE "none"
           audio == CanReadRedis(docker) /\ env.chunk
       IN  Collected(Fails([job.ev EXCEPT !.result = IF empty THEN "empty" ELSE seen,
                                          !.audio = audio /\ ~rawAudio],
                           \/ ~CanReadRedis(docker) \/ empty \/ seen = "none" \/ ~audio
                           \/ env.provider = "speechmatics" /\ seen # "speechmatics"),
                     "audit")

(* wait_for_durable_audit_record: leaves early only with a chained row, and
   at the deadline with the last row it saw, chained or not. *)
WaitForAudit ==
  /\ At("e2e", "audit")
  /\ \E error \in BOOLEAN :
       Collected(Fails([job.ev EXCEPT !.audit = env.audit],
                       error \/ env.audit # "chained"), "logs")

(* logs_have_forbidden_content reads the last ten minutes of the pod seen. *)
ReadLogs ==
  /\ At("e2e", "logs")
  /\ \E clean \in BOOLEAN :
       LET ok == clean /\ job.ev.cluster.pod = env.pod
       IN  Collected(Fails([job.ev EXCEPT !.clean = ok], ~ok), "verify")

(***************************************************************************)
(* The verifiers: one operator per validate function.                      *)
(***************************************************************************)
ValidateTopLevel(ev) == ~ev.failed
ValidateEnvironment(ev) == ev.cluster.pod # 0
ValidateRuntime(ev) == ev.cluster.direct /\ ev.cluster.mounted /\ ev.cluster.keys
ValidateMtlsProbe(ev) == env.provider = "internal" => ev.probeOk /\ ~ev.slow
ValidateFlow(ev) ==
  /\ ev.result \in Providers
  /\ env.provider = "speechmatics" => ev.result = "speechmatics"
ValidateAudit(ev) == ev.audit = "chained"
ValidatePersistence(ev) == ev.audio /\ ev.clean
ValidateBoundaries(ev) == ~ev.failed /\ ev.result # "none" /\ ev.audit = "chained"
ValidateEvidence(ev) ==
  /\ ValidateTopLevel(ev) /\ ValidateEnvironment(ev) /\ ValidateRuntime(ev)
  /\ ValidateMtlsProbe(ev) /\ ValidateFlow(ev) /\ ValidateAudit(ev)
  /\ ValidatePersistence(ev) /\ ValidateBoundaries(ev)

(* verify_external_recorder_smoke_evidence.py wants the FINISHED answer. *)
ValidateRecorder == job.smokeOk /\ job.sawFinished

VerifyE2e ==
  /\ At("e2e", "verify")
  /\ Step(env, Ends(job, IF ~ValidateEvidence(job.ev) THEN "rejected"
                         ELSE IF ValidateRecorder THEN "accepted" ELSE "e2e-only"))

E2eNext ==
  \/ ValidateToken \/ CallAnswered \/ StatusUnreadable \/ CallFailed
  \/ Transcribe \/ AuditAdvances \/ SessionExpires \/ StreamRolls \/ PodReplaced
  \/ ReadCluster \/ MtlsProbe \/ WaitForResult \/ ReadStreams
  \/ WaitForAudit \/ ReadLogs \/ VerifyE2e

(***************************************************************************)
(* Evidence the direct-STT verifier lets through is about a recording that *)
(* really went all the way: the gateway holds the chunk and closed the     *)
(* session by finish (it did not expire), the meeting is completed, the    *)
(* transcriber produced a result for it, on Speechmatics when that was the *)
(* provider chosen, and its audit row is in the hash chain.                *)
(***************************************************************************)
AcceptedRecordingIsReal ==
  lane = "e2e" /\ job.verdict \in {"accepted", "e2e-only"} =>
    /\ env.chunk /\ env.session = "finished" /\ env.meeting = "completed"
    /\ env.result \in Providers /\ env.audit = "chained"
    /\ env.provider = "speechmatics" => env.result = "speechmatics"
=============================================================================
