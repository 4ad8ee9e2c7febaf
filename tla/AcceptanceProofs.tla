-------------------------- MODULE AcceptanceProofs --------------------------
(***************************************************************************)
(* The acceptance jobs: what an accepted verdict says of the system the    *)
(* job called, for every value of the constants.                           *)
(*                                                                         *)
(* A job reads a system that goes on changing, so each lane's invariant    *)
(* says what of the job's readings still stands at each of its steps, and  *)
(* why: nothing takes the fact back, or the job holds what would.  The     *)
(* verdict is judged from those readings alone.                            *)
(***************************************************************************)
EXTENDS MC_Acceptance, SequenceTheorems, TLAPS

-----------------------------------------------------------------------------
(* RecorderE2e: the recorder and direct-STT collector. *)

ProviderOrNone == Providers \cup {"none"}

ClusterFacts == [pod : {0, 1, 2}, direct : BOOLEAN, mounted : BOOLEAN, keys : BOOLEAN]

E2eEvidence ==
  [cluster : ClusterFacts,
   probeOk : BOOLEAN, slow : BOOLEAN, result : Providers \cup {"none", "empty"},
   audio : BOOLEAN, audit : {"none", "row", "chained"}, clean : BOOLEAN, failed : BOOLEAN]

E2eEnv ==
  [meeting : {"none", "scheduled", "in_progress", "completed"}, consent : BOOLEAN,
              session : {"none", "active", "finished", "expired"},
              provider : ProviderOrNone, chunk : BOOLEAN,
              result : ProviderOrNone, inWindow : BOOLEAN,
              audit : {"none", "row", "chained"}, pod : {1, 2}, direct : BOOLEAN]

E2eJob ==
  [pc : {"token", "call", "cluster", "probe", "wait", "streams", "audit", "logs",
                    "verify", "done"},
              call : 1..8, sawFinished : BOOLEAN, smokeOk : BOOLEAN, ev : E2eEvidence,
              verdict : {"none", "accepted", "e2e-only", "rejected"}]

E2eTypes ==
  /\ env \in E2eEnv
  /\ job \in E2eJob

(* The recording is where the calls that were answered put it. *)
CallsMade ==
  /\ job.pc = "token" => job.call = 1
  /\ job.pc \in {"token", "call"} => ~ job.smokeOk
  /\ job.pc = "call" =>
       /\ job.call >= 6 => env.chunk
       /\ job.call >= 7 => env.session = "finished"
       /\ job.call >= 8 => env.meeting = "completed"

(* A smoke that passed went through every call. *)
SmokeIsWhole ==
  job.smokeOk => env.chunk /\ env.session = "finished" /\ env.meeting = "completed"

(* What was collected was so when it was read, and is so still. *)
CollectedStands ==
  /\ job.ev.result \in Providers => env.result = job.ev.result
  /\ job.ev.audit = "chained" => env.audit = "chained"
  /\ job.pc \notin {"token", "call", "cluster"} /\ ~ job.ev.failed => job.smokeOk

E2eJudged ==
  /\ job.pc \notin {"verify", "done"} => job.verdict = "none"
  /\ job.verdict \in {"accepted", "e2e-only"} =>
       job.pc = "done" /\ ~ job.ev.failed /\ ValidateFlow(job.ev) /\ ValidateAudit(job.ev)

E2eInv == E2eTypes /\ CallsMade /\ SmokeIsWhole /\ CollectedStands /\ E2eJudged

(* A job that has made no call satisfies the invariant. *)
LEMMA E2eStart == E2eInit => E2eInv
BY DEF E2eInit, E2eInv, E2eTypes, CallsMade, SmokeIsWhole, CollectedStands, E2eJudged,
       E2eEvidence, NoEvidence, NoCluster, ClusterFacts, Providers, ProviderOrNone, E2eEnv, E2eJob

\* A step of the collector stores its evidence and moves on; nothing else of
\* the job and nothing of the system changes.
LEMMA CollectedKeeps ==
  ASSUME E2eTypes, NEW ev \in E2eEvidence,
         NEW next \in {"probe", "wait", "streams", "audit", "logs", "verify"}, Collected(ev, next)
  PROVE  /\ env' = env /\ job' \in E2eJob /\ job'.pc = next /\ job'.ev = ev
         /\ job'.call = job.call /\ job'.smokeOk = job.smokeOk /\ job'.verdict = job.verdict
BY DEF E2eTypes, Collected, Step, E2eJob

\* Noting a failure touches nothing but the mark, and never takes it back.
LEMMA FailsKeeps ==
  ASSUME NEW ev \in E2eEvidence, NEW cond
  PROVE  /\ Fails(ev, cond) \in E2eEvidence
         /\ Fails(ev, cond).result = ev.result /\ Fails(ev, cond).audit = ev.audit
         /\ ~ Fails(ev, cond).failed => ~ ev.failed /\ ~ cond
BY DEF Fails, E2eEvidence

\* What each call does to the system: the chunk stays, only the finish closes
\* the session, and only the lifecycle end completes the meeting.
LEMMA ServedEffect ==
  ASSUME E2eTypes, NEW c \in 1..8, NEW p \in Providers, NEW e, e = Served(SmokeCalls[c], p)
  PROVE  /\ e \in E2eEnv
         /\ env.chunk \/ c = 5 => e.chunk
         /\ c \notin {3, 6} => e.session = env.session
         /\ c = 6 => e.session = "finished"
         /\ c \notin {1, 4, 7} => e.meeting = env.meeting
         /\ c = 7 => e.meeting = "completed"
         /\ e.result = env.result /\ e.audit = env.audit
<1>1. CASE c = 1
  <2>1. e = [env EXCEPT !.meeting = "scheduled"]
    BY <1>1 DEF Served, SmokeCalls
  <2>2. e \in E2eEnv
    BY <2>1 DEF E2eTypes, E2eEnv
  <2> QED
    BY <1>1, <2>1, <2>2 DEF E2eTypes, E2eEnv
<1>2. CASE c = 2
  <2>1. e = [env EXCEPT !.consent = TRUE]
    BY <1>2 DEF Served, SmokeCalls
  <2>2. e \in E2eEnv
    BY <2>1 DEF E2eTypes, E2eEnv
  <2> QED
    BY <1>2, <2>1, <2>2 DEF E2eTypes, E2eEnv
<1>3. CASE c = 3
  <2>1. e = [env EXCEPT !.session = "active", !.provider = p]
    BY <1>3 DEF Served, SmokeCalls
  <2>2. p \in ProviderOrNone /\ env \in E2eEnv
    BY DEF ProviderOrNone, E2eTypes
  <2>3. e \in E2eEnv
    BY <2>1, <2>2, Zenon DEF E2eEnv
  <2>4. e.chunk = env.chunk /\ e.meeting = env.meeting /\ e.result = env.result /\ e.audit = env.audit
    BY <2>1, <2>2 DEF E2eEnv
  <2> QED
    BY <1>3, <2>3, <2>4
<1>4. CASE c = 4
  <2>1. e = [env EXCEPT !.meeting = "in_progress"]
    BY <1>4 DEF Served, SmokeCalls
  <2>2. e \in E2eEnv
    BY <2>1 DEF E2eTypes, E2eEnv
  <2> QED
    BY <1>4, <2>1, <2>2 DEF E2eTypes, E2eEnv
<1>5. CASE c = 5
  <2>1. e = [env EXCEPT !.chunk = TRUE]
    BY <1>5 DEF Served, SmokeCalls
  <2>2. e \in E2eEnv
    BY <2>1 DEF E2eTypes, E2eEnv
  <2> QED
    BY <1>5, <2>1, <2>2 DEF E2eTypes, E2eEnv
<1>6. CASE c = 6
  <2>1. e = [env EXCEPT !.session = "finished"]
    BY <1>6 DEF Served, SmokeCalls
  <2>2. e \in E2eEnv
    BY <2>1 DEF E2eTypes, E2eEnv
  <2> QED
    BY <1>6, <2>1, <2>2 DEF E2eTypes, E2eEnv
<1>7. CASE c = 7
  <2>1. e = [env EXCEPT !.meeting = "completed"]
    BY <1>7 DEF Served, SmokeCalls
  <2>2. e \in E2eEnv
    BY <2>1 DEF E2eTypes, E2eEnv
  <2> QED
    BY <1>7, <2>1, <2>2 DEF E2eTypes, E2eEnv
<1>8. CASE c = 8
  <2>1. e = env
    BY <1>8 DEF Served, SmokeCalls
  <2>2. e \in E2eEnv
    BY <2>1 DEF E2eTypes, E2eEnv
  <2> QED
    BY <1>8, <2>1, <2>2 DEF E2eTypes, E2eEnv
<1> QED
  BY <1>1, <1>2, <1>3, <1>4, <1>5, <1>6, <1>7, <1>8

\* The end of the smoke, whatever its outcome, is where the collector starts.
LEMMA SmokeEndsKeeps ==
  ASSUME E2eTypes, NEW ok \in BOOLEAN, NEW saw \in BOOLEAN, NEW j, j = SmokeEnds(ok, saw)
  PROVE  /\ j \in E2eJob
         /\ j.pc = "cluster" /\ (j.smokeOk => ok) /\ j.ev = job.ev /\ j.verdict = job.verdict
<1>0. 1 \in 1..8 /\ job \in E2eJob
  BY DEF E2eTypes
<1>1. j \in E2eJob
  BY <1>0, Zenon DEF SmokeEnds, E2eJob
<1> QED
  BY <1>1 DEF E2eTypes, SmokeEnds, E2eJob

(* Every step of the collector, the gateway and the cluster keeps it. *)
LEMMA E2eStep == E2eInv /\ E2eNext => E2eInv'
<1> SUFFICES ASSUME E2eInv, E2eNext PROVE E2eInv'
  OBVIOUS
<1> USE DEF E2eInv, E2eTypes, CallsMade, SmokeIsWhole, CollectedStands, E2eJudged
<1>a. job.ev \in E2eEvidence /\ job.call \in 1..8
  BY DEF E2eJob
<1>1. CASE ValidateToken
  BY <1>1 DEF ValidateToken, Step, At, E2eJob
<1>2. CASE CallAnswered
  <2>1. PICK p \in Providers :
          IF job.call < 8
          THEN Step(Served(SmokeCalls[job.call], p), [job EXCEPT !.call = @ + 1])
          ELSE Step(env, SmokeEnds(env.session = "finished", env.session = "finished"))
    BY <1>2 DEF CallAnswered, SmokeCalls
  <2>2. CASE job.call < 8
    <3>1. env' = Served(SmokeCalls[job.call], p) /\ job' = [job EXCEPT !.call = @ + 1]
      BY <2>1, <2>2 DEF Step
    <3>2. /\ job' \in E2eJob /\ job'.pc = job.pc /\ job'.call = job.call + 1 /\ job'.ev = job.ev
          /\ job'.smokeOk = job.smokeOk /\ job'.verdict = job.verdict
      BY <3>1, <2>2, <1>a DEF E2eJob
    <3>3. job.pc = "call" /\ (job.call = 6 => env.chunk)
      BY <1>2 DEF CallAnswered, At
    <3> QED
      BY <3>1, <3>2, <3>3, <1>a, <2>2, ServedEffect DEF ValidateFlow, ValidateAudit
  <2>3. CASE ~ (job.call < 8)
    <3>1. PICK ok \in BOOLEAN :
            env' = env /\ job' = SmokeEnds(ok, ok) /\ (ok => env.session = "finished")
      BY <2>1, <2>3 DEF Step
    <3>2. /\ job' \in E2eJob /\ job'.pc = "cluster" /\ job'.ev = job.ev
          /\ (job'.smokeOk => ok) /\ job'.verdict = job.verdict
      BY <3>1, SmokeEndsKeeps
    <3>3. job.pc = "call" /\ job.call = 8
      BY <1>2, <2>3, <1>a DEF CallAnswered, At
    <3> QED
      BY <3>1, <3>2, <3>3 DEF ValidateFlow, ValidateAudit
  <2> QED
    BY <2>2, <2>3
<1>3. CASE StatusUnreadable
  <2>1. /\ env' = env /\ job' = SmokeEnds(TRUE, FALSE) /\ job.pc = "call" /\ job.call = 8
    BY <1>3 DEF StatusUnreadable, SmokeCalls, Step, At
  <2>2. /\ job' \in E2eJob /\ job'.pc = "cluster" /\ job'.ev = job.ev
        /\ job'.verdict = job.verdict
    BY <2>1, SmokeEndsKeeps
  <2>3. env.chunk /\ env.session = "finished" /\ env.meeting = "completed"
    BY <2>1
  <2> QED
    BY <2>1, <2>2, <2>3 DEF ValidateFlow, ValidateAudit
<1>4. CASE CallFailed
  <2>1. PICK p \in Providers :
          /\ env' = env \/ env' = Served(SmokeCalls[job.call], p)
          /\ job' = SmokeEnds(FALSE, FALSE) /\ job.pc = "call"
    BY <1>4 DEF CallFailed, Step, At, Providers
  <2>2. /\ job' \in E2eJob /\ job'.pc = "cluster" /\ job'.ev = job.ev
        /\ ~ job'.smokeOk /\ job'.verdict = job.verdict
    BY <2>1, SmokeEndsKeeps
  <2>3. /\ env' \in E2eEnv /\ env'.result = env.result /\ env'.audit = env.audit
    BY <2>1, <1>a, ServedEffect
  <2> QED
    BY <2>1, <2>2, <2>3 DEF ValidateFlow, ValidateAudit
<1>5. CASE Transcribe
  <2>1. PICK p \in Providers : env' = [env EXCEPT !.result = p] /\ job' = job
    BY <1>5 DEF Transcribe, Step
  <2>2. env' \in E2eEnv
    BY <2>1 DEF E2eEnv, ProviderOrNone
  <2>3. env'.chunk = env.chunk /\ env'.session = env.session /\ env'.meeting = env.meeting
        /\ env'.audit = env.audit
    BY <2>1 DEF E2eEnv
  <2> QED
    BY <1>5, <2>1, <2>2, <2>3 DEF Transcribe, Live, Providers, ValidateFlow
<1>6. CASE AuditAdvances
  BY <1>6 DEF AuditAdvances, Step, Live, E2eEnv
<1>7. CASE SessionExpires
  BY <1>7 DEF SessionExpires, Step, Live, E2eEnv
<1>8. CASE StreamRolls
  BY <1>8, ZenonT(60) DEF StreamRolls, Step, Live, E2eEnv
<1>9. CASE PodReplaced
  BY <1>9, ZenonT(60) DEF PodReplaced, Step, Live, E2eEnv
<1>10. CASE ReadCluster
  <2>1. PICK mounted, keys, ready \in BOOLEAN :
          LET seen == [pod |-> IF ready THEN env.pod ELSE 0, direct |-> env.direct,
                       mounted |-> mounted, keys |-> keys]
          IN  Collected(Fails([job.ev EXCEPT !.cluster = seen],
                              ~job.smokeOk \/ ~ready \/ ~keys \/ ~env.direct), "probe")
    BY <1>10 DEF ReadCluster
  <2>2. PICK seen : seen = [pod |-> IF ready THEN env.pod ELSE 0, direct |-> env.direct,
                            mounted |-> mounted, keys |-> keys]
    OBVIOUS
  <2>3. seen \in ClusterFacts
    BY <2>2 DEF ClusterFacts, E2eEnv
  <2>4. PICK was : was = [job.ev EXCEPT !.cluster = seen]
    OBVIOUS
  <2>5. was \in E2eEvidence /\ was.result = job.ev.result /\ was.audit = job.ev.audit
    BY <2>3, <2>4, <1>a DEF E2eEvidence
  <2>6. PICK cond : cond = (~job.smokeOk \/ ~ready \/ ~keys \/ ~env.direct)
    OBVIOUS
  <2>7. Collected(Fails(was, cond), "probe") /\ (~ cond => job.smokeOk)
    BY <2>1, <2>2, <2>4, <2>6
  <2> QED
    BY <1>10, <2>5, <2>7, FailsKeeps, CollectedKeeps DEF ReadCluster, At, ValidateFlow, ValidateAudit
<1>11. CASE MtlsProbe
  <2>1. CASE env.provider = "speechmatics"
    <3>1. Collected(job.ev, "wait")
      BY <1>11, <2>1 DEF MtlsProbe
    <3> QED
      BY <1>11, <3>1, <1>a, CollectedKeeps DEF MtlsProbe, At, ValidateFlow, ValidateAudit
  <2>2. CASE env.provider # "speechmatics"
    <3>0. PICK healthy, late \in BOOLEAN :
            LET ok == healthy /\ job.ev.cluster.pod = env.pod
            IN  Collected(Fails([job.ev EXCEPT !.probeOk = ok, !.slow = ok /\ late], ~ok), "wait")
      BY <1>11, <2>2 DEF MtlsProbe
    <3>1. PICK ok, slow, cond \in BOOLEAN :
            /\ ok = (healthy /\ job.ev.cluster.pod = env.pod) /\ slow = (ok /\ late)
            /\ cond = ~ ok
      OBVIOUS
    <3>2. PICK was : was = [job.ev EXCEPT !.probeOk = ok, !.slow = slow]
      OBVIOUS
    <3>4. Collected(Fails(was, cond), "wait")
      BY <3>0, <3>1, <3>2
    <3>3. /\ was \in E2eEvidence /\ was.result = job.ev.result /\ was.audit = job.ev.audit
          /\ was.failed = job.ev.failed
      BY <3>2, <1>a DEF E2eEvidence
    <3>5. job.pc = "probe"
      BY <1>11 DEF MtlsProbe, At
    <3> QED
      BY <3>3, <3>4, <3>5, FailsKeeps, CollectedKeeps DEF ValidateFlow, ValidateAudit
  <2> QED
    BY <2>1, <2>2
<1>12. CASE WaitForResult
  <2>1. Collected(job.ev, "streams") /\ job.pc = "wait"
    BY <1>12 DEF WaitForResult, At
  <2> QED
    BY <2>1, <1>a, CollectedKeeps DEF ValidateFlow, ValidateAudit
<1>13. CASE ReadStreams
  <2>0. PICK docker, empty, raw \in BOOLEAN :
          LET seen == IF CanReadRedis(docker) /\ ResultVisible THEN env.result ELSE "none"
              held == CanReadRedis(docker) /\ env.chunk
          IN  Collected(Fails([job.ev EXCEPT !.result = IF empty THEN "empty" ELSE seen,
                                             !.audio = held /\ ~raw],
                              \/ ~CanReadRedis(docker) \/ empty \/ seen = "none" \/ ~held
                              \/ env.provider = "speechmatics" /\ seen # "speechmatics"),
                        "audit")
    BY <1>13 DEF ReadStreams
  <2>1. PICK seen : seen = IF CanReadRedis(docker) /\ ResultVisible THEN env.result ELSE "none"
    OBVIOUS
  <2>a. PICK held \in BOOLEAN : held = (CanReadRedis(docker) /\ env.chunk)
    OBVIOUS
  <2>b. PICK result : result = IF empty THEN "empty" ELSE seen
    OBVIOUS
  <2>d. PICK audio \in BOOLEAN : audio = (held /\ ~raw)
    OBVIOUS
  <2>e. PICK cond :
          cond = (\/ ~CanReadRedis(docker) \/ empty \/ seen = "none" \/ ~held
                  \/ env.provider = "speechmatics" /\ seen # "speechmatics")
    OBVIOUS
  <2>c. result \in Providers \cup {"none", "empty"} /\ (result \in Providers => env.result = result)
    BY <2>1, <2>b DEF E2eEnv, Providers, ProviderOrNone
  <2>2. PICK was : was = [job.ev EXCEPT !.result = result, !.audio = audio]
    OBVIOUS
  <2>4. Collected(Fails(was, cond), "audit")
    BY <2>0, <2>1, <2>a, <2>b, <2>d, <2>e, <2>2
  <2>3. /\ was \in E2eEvidence /\ was.result = result /\ was.audit = job.ev.audit
        /\ was.failed = job.ev.failed
    BY <2>2, <2>c, <1>a DEF E2eEvidence
  <2> QED
    BY <1>13, <2>c, <2>4, <2>3, FailsKeeps, CollectedKeeps
    DEF ReadStreams, At, ValidateFlow, ValidateAudit
<1>14. CASE WaitForAudit
  <2>0. PICK error \in BOOLEAN :
          Collected(Fails([job.ev EXCEPT !.audit = env.audit],
                          error \/ env.audit # "chained"), "logs")
    BY <1>14 DEF WaitForAudit
  <2>1. PICK cond : cond = (error \/ env.audit # "chained")
    OBVIOUS
  <2>2. PICK was : was = [job.ev EXCEPT !.audit = env.audit]
    OBVIOUS
  <2>3. env.audit \in {"none", "row", "chained"}
    BY DEF E2eEnv
  <2>4. /\ was \in E2eEvidence /\ was.result = job.ev.result /\ was.audit = env.audit
        /\ was.failed = job.ev.failed
    BY <2>2, <2>3, <1>a DEF E2eEvidence
  <2>5. Collected(Fails(was, cond), "logs") /\ job.pc = "audit"
    BY <1>14, <2>0, <2>1, <2>2 DEF WaitForAudit, At
  <2> QED
    BY <2>4, <2>5, FailsKeeps, CollectedKeeps DEF ValidateFlow, ValidateAudit
<1>15. CASE ReadLogs
  <2>0. PICK unsoiled \in BOOLEAN :
          LET ok == unsoiled /\ job.ev.cluster.pod = env.pod
          IN  Collected(Fails([job.ev EXCEPT !.clean = ok], ~ok), "verify")
    BY <1>15 DEF ReadLogs
  <2>1. PICK ok, cond \in BOOLEAN : ok = (unsoiled /\ job.ev.cluster.pod = env.pod) /\ cond = ~ ok
    OBVIOUS
  <2>2. PICK was : was = [job.ev EXCEPT !.clean = ok]
    OBVIOUS
  <2>4. Collected(Fails(was, cond), "verify")
    BY <2>0, <2>1, <2>2
  <2>3. /\ was \in E2eEvidence /\ was.result = job.ev.result /\ was.audit = job.ev.audit
        /\ was.failed = job.ev.failed
    BY <2>2, <1>a DEF E2eEvidence
  <2> QED
    BY <1>15, <2>4, <2>3, FailsKeeps, CollectedKeeps
    DEF ReadLogs, At, ValidateFlow, ValidateAudit
<1>16. CASE VerifyE2e
  <2>1. PICK v \in {"rejected", "accepted", "e2e-only"} :
          /\ env' = env /\ job' = Ends(job, v) /\ job.pc = "verify"
          /\ v # "rejected" => ValidateEvidence(job.ev)
    BY <1>16 DEF VerifyE2e, Step, At
  <2>2. /\ job' \in E2eJob /\ job'.pc = "done" /\ job'.verdict = v /\ job'.ev = job.ev
        /\ job'.smokeOk = job.smokeOk
    BY <2>1 DEF Ends, E2eJob
  <2> QED
    BY <2>1, <2>2 DEF ValidateEvidence, ValidateTopLevel, ValidateFlow, ValidateAudit
<1> QED
  BY <1>1, <1>2, <1>3, <1>4, <1>5, <1>6, <1>7, <1>8, <1>9, <1>10, <1>11, <1>12, <1>13, <1>14,
     <1>15, <1>16 DEF E2eNext

(* What was judged is what the collector saw, and what it saw still stands. *)
LEMMA E2eSafe == E2eInv => AcceptedRecordingIsReal
BY DEF E2eInv, E2eTypes, SmokeIsWhole, CollectedStands, E2eJudged, AcceptedRecordingIsReal,
       ValidateFlow, ValidateAudit

-----------------------------------------------------------------------------
(* ExpirySmoke: the audio gateway's expiry smoke. *)

ExpiryEnv ==
  [fault : GatewayFaults, registry : SUBSET Sessions, reserved : SUBSET Sessions, expired : Nat,
   cleanupErrors : Nat, buffered : Nat, dropped : Nat, ended : SUBSET Sessions]
ExpiryJob ==
  [pc : {"setup", "baseline", "start-first", "upload-first", "reserved", "capacity-full", "drained",
         "gone", "start-reused", "upload-reused", "reused", "finish", "released", "done"},
   verdict : {"none", "pass", "fail"}]
ExpiryTypes == env \in ExpiryEnv /\ job \in ExpiryJob

(* What each fault does to the metrics, and where the smoke has ruled it out. *)
AfterReuse == {"finish", "released"}
AfterGone == {"start-reused", "upload-reused", "reused"} \cup AfterReuse
AfterExpiry == {"gone"} \cup AfterGone
FaultsShow ==
  /\ env.fault = "never-expires" => env.ended = {} /\ env.expired = 0
  /\ env.fault = "cleanup-error" => env.cleanupErrors = env.expired
  /\ env.fault = "leaks-reservation" /\ job.pc \in {"capacity-full", "drained"} => env.reserved # {}
  /\ job.pc \in {"drained"} \cup AfterExpiry => env.fault # "unbounded-registry"
  /\ job.pc \in AfterExpiry =>
       env.fault \notin {"never-expires", "cleanup-error", "leaks-reservation"}
  /\ job.pc \in AfterGone => env.fault # "keeps-status"

(* As long as no chunk was dropped, the first session holds its reservation
   until its cleanup; the smoke sees the dropped chunks only at the reuse. *)
FirstIsOut == "first" \notin env.registry /\ "first" \notin env.ended /\ "first" \notin env.reserved
FirstIsTracked ==
  /\ job.pc \in {"setup", "baseline", "start-first"} => FirstIsOut
  /\ ~ ("first" \in env.registry /\ "first" \in env.ended)
  /\ env.dropped = 0 /\ job.pc \in {"reserved", "capacity-full", "drained"}
     /\ ("first" \in env.registry \/ "first" \in env.ended) => "first" \in env.reserved
  /\ env.dropped = 0 /\ job.pc \in AfterExpiry => FirstIsOut
  /\ job.pc \in AfterReuse => FirstIsOut

ExpiryJudged ==
  /\ job.verdict = "pass" => job.pc = "done" /\ env.fault = "sound" /\ FirstIsOut
  /\ job.pc # "done" => job.verdict = "none"

ExpiryInv == ExpiryTypes /\ FaultsShow /\ FirstIsTracked /\ ExpiryJudged

\* The transient pod is new and the smoke has not begun.
LEMMA ExpiryStart == ExpiryInit => ExpiryInv
<1> SUFFICES ASSUME ExpiryInit PROVE ExpiryInv
  OBVIOUS
<1>1. PICK f \in GatewayFaults :
        env = [fault |-> f, registry |-> {}, reserved |-> {}, expired |-> 0,
               cleanupErrors |-> 0, buffered |-> 0, dropped |-> 0, ended |-> {}]
  BY DEF ExpiryInit
<1>2. job = [pc |-> "setup", verdict |-> "none"]
  BY DEF ExpiryInit
<1>3. env \in ExpiryEnv /\ job \in ExpiryJob
  BY <1>1, <1>2 DEF ExpiryEnv, ExpiryJob
<1> QED
  BY <1>1, <1>2, <1>3 DEF ExpiryInv, ExpiryTypes, FaultsShow, FirstIsTracked, ExpiryJudged,
     FirstIsOut, AfterReuse, AfterGone, AfterExpiry

\* The invariant is kept by every step of the smoke, of the gateway and of the
\* other client.
LEMMA ExpiryStep == ExpiryInv /\ ExpiryNext => ExpiryInv'
<1> SUFFICES ASSUME ExpiryInv, ExpiryNext PROVE ExpiryInv'
  OBVIOUS
<1> USE DEF ExpiryInv, ExpiryTypes, FaultsShow, FirstIsTracked, FirstIsOut, ExpiryJudged
<1>a. env \in ExpiryEnv /\ job \in ExpiryJob
  OBVIOUS
<1>b. /\ env.fault \in GatewayFaults /\ env.registry \in SUBSET Sessions
      /\ env.reserved \in SUBSET Sessions /\ env.ended \in SUBSET Sessions
      /\ env.expired \in Nat /\ env.cleanupErrors \in Nat /\ env.buffered \in Nat
      /\ env.dropped \in Nat
  BY <1>a DEF ExpiryEnv
<1>c. /\ AfterReuse = {"finish", "released"}
      /\ AfterGone = {"start-reused", "upload-reused", "reused", "finish", "released"}
      /\ AfterExpiry = {"gone", "start-reused", "upload-reused", "reused", "finish", "released"}
      /\ Sessions = {"first", "second", "reused", "foreign"}
      /\ GatewayFaults = {"leaks-reservation", "cleanup-error", "unbounded-registry",
                          "never-expires", "keeps-status", "sound"}
  BY DEF AfterReuse, AfterGone, AfterExpiry, Sessions, GatewayFaults, Faults
<1>1. CASE Setup
  <2>1. /\ job.pc = "setup" /\ env' = env /\ job' = [job EXCEPT !.pc = "baseline"]
    BY <1>1 DEF Setup, Step, At, Live, Goto, Fail, Ends, Waits, Started, Buffered
  <2>2. /\ job.pc = "setup" /\ env' = env
    BY <2>1
  <2>3. job' \in ExpiryJob
    BY <2>1, <1>a, <1>b, <1>c DEF ExpiryJob
  <2>4. /\ job'.pc = "baseline" /\ job'.verdict = job.verdict
    BY <2>1, <1>a DEF ExpiryJob
  <2> QED
    BY <2>2, <2>3, <2>4, <1>a, <1>b, <1>c
<1>2. CASE Baseline
  <2>0. \/ /\ job.pc = "baseline" /\ env' = env
           /\ job' = [job EXCEPT !.pc = "start-first"]
        \/ /\ job.pc = "baseline" /\ env' = env
           /\ job' = [job EXCEPT !.pc = "done", !.verdict = "fail"]
    BY <1>2 DEF Baseline, Step, At, Live, Goto, Fail, Ends, Waits, Started, Buffered
  <2>1. CASE /\ job.pc = "baseline" /\ env' = env
             /\ job' = [job EXCEPT !.pc = "start-first"]
    <3>1. /\ job.pc = "baseline" /\ env' = env
      BY <2>1
    <3>2. job' \in ExpiryJob
      BY <2>1, <1>a, <1>b, <1>c DEF ExpiryJob
    <3>3. /\ job'.pc = "start-first" /\ job'.verdict = job.verdict
      BY <2>1, <1>a DEF ExpiryJob
    <3> QED
      BY <3>1, <3>2, <3>3, <1>a, <1>b, <1>c
  <2>2. CASE /\ job.pc = "baseline" /\ env' = env
             /\ job' = [job EXCEPT !.pc = "done", !.verdict = "fail"]
    <3>1. /\ job.pc = "baseline" /\ env' = env
      BY <2>2
    <3>2. job' \in ExpiryJob
      BY <2>2, <1>a, <1>b, <1>c DEF ExpiryJob
    <3>3. /\ job'.pc = "done" /\ job'.verdict = "fail"
      BY <2>2, <1>a DEF ExpiryJob
    <3> QED
      BY <3>1, <3>2, <3>3, <1>a, <1>b, <1>c
  <2> QED
    BY <2>0, <2>1, <2>2
<1>3. CASE StartFirst
  <2>0. \/ /\ job.pc = "start-first" /\ env' = env
           /\ job' = [job EXCEPT !.pc = "done", !.verdict = "fail"]
        \/ /\ job.pc = "start-first" /\ env' = [env EXCEPT !.registry = @ \cup {"first"}]
           /\ job' = [job EXCEPT !.pc = "upload-first"]
    BY <1>3 DEF StartFirst, Step, At, Live, Goto, Fail, Ends, Waits, Started, Buffered
  <2>1. CASE /\ job.pc = "start-first" /\ env' = env
             /\ job' = [job EXCEPT !.pc = "done", !.verdict = "fail"]
    <3>1. /\ job.pc = "start-first" /\ env' = env
      BY <2>1
    <3>2. job' \in ExpiryJob
      BY <2>1, <1>a, <1>b, <1>c DEF ExpiryJob
    <3>3. /\ job'.pc = "done" /\ job'.verdict = "fail"
      BY <2>1, <1>a DEF ExpiryJob
    <3> QED
      BY <3>1, <3>2, <3>3, <1>a, <1>b, <1>c
  <2>2. CASE /\ job.pc = "start-first"
             /\ env' = [env EXCEPT !.registry = @ \cup {"first"}]
             /\ job' = [job EXCEPT !.pc = "upload-first"]
    <3>1. /\ job.pc = "start-first"
      BY <2>2
    <3>2. env' \in ExpiryEnv
      BY <2>2, <1>a, <1>b, <1>c DEF ExpiryEnv
    <3>3. /\ env'.registry = env.registry \cup {"first"} /\ env'.fault = env.fault
          /\ env'.reserved = env.reserved /\ env'.expired = env.expired
          /\ env'.cleanupErrors = env.cleanupErrors /\ env'.buffered = env.buffered
          /\ env'.dropped = env.dropped /\ env'.ended = env.ended
      BY <2>2, <1>a DEF ExpiryEnv
    <3>4. job' \in ExpiryJob
      BY <2>2, <1>a, <1>b, <1>c DEF ExpiryJob
    <3>5. /\ job'.pc = "upload-first" /\ job'.verdict = job.verdict
      BY <2>2, <1>a DEF ExpiryJob
    <3> QED
      BY <3>1, <3>2, <3>3, <3>4, <3>5, <1>a, <1>b, <1>c
  <2> QED
    BY <2>0, <2>1, <2>2
<1>4. CASE UploadFirst
  <2>0. \/ /\ job.pc = "upload-first" /\ env' = env
           /\ job' = [job EXCEPT !.pc = "done", !.verdict = "fail"]
        \/ /\ job.pc = "upload-first" /\ env.reserved \ {"first"} = {}
           /\ env' = [env EXCEPT !.reserved = {"first"}, !.buffered = @ + 1]
           /\ job' = [job EXCEPT !.pc = "reserved"]
        \/ /\ job.pc = "upload-first" /\ env' = [env EXCEPT !.dropped = @ + 1]
           /\ job' = [job EXCEPT !.pc = "reserved"]
    BY <1>4 DEF UploadFirst, Step, At, Live, Goto, Fail, Ends, Waits, Started, Buffered
  <2>1. CASE /\ job.pc = "upload-first" /\ env' = env
             /\ job' = [job EXCEPT !.pc = "done", !.verdict = "fail"]
    <3>1. /\ job.pc = "upload-first" /\ env' = env
      BY <2>1
    <3>2. job' \in ExpiryJob
      BY <2>1, <1>a, <1>b, <1>c DEF ExpiryJob
    <3>3. /\ job'.pc = "done" /\ job'.verdict = "fail"
      BY <2>1, <1>a DEF ExpiryJob
    <3> QED
      BY <3>1, <3>2, <3>3, <1>a, <1>b, <1>c
  <2>2. CASE /\ job.pc = "upload-first" /\ env.reserved \ {"first"} = {}
             /\ env' = [env EXCEPT !.reserved = {"first"}, !.buffered = @ + 1]
             /\ job' = [job EXCEPT !.pc = "reserved"]
    <3>1. /\ job.pc = "upload-first" /\ env.reserved \ {"first"} = {}
      BY <2>2
    <3>2. env.buffered + 1 \in Nat /\ {"first"} \in SUBSET Sessions
      BY <1>b, <1>c
    <3>3. env' \in ExpiryEnv
      BY <2>2, <3>2, <1>a, <1>b, <1>c, Zenon DEF ExpiryEnv
    <3>4. /\ env'.reserved = {"first"} /\ env'.buffered = env.buffered + 1
          /\ env'.fault = env.fault /\ env'.registry = env.registry
          /\ env'.expired = env.expired /\ env'.cleanupErrors = env.cleanupErrors
          /\ env'.dropped = env.dropped /\ env'.ended = env.ended
      BY <2>2, <1>a DEF ExpiryEnv
    <3>5. job' \in ExpiryJob
      BY <2>2, <3>2, <1>a, <1>b, <1>c, Zenon DEF ExpiryJob
    <3>6. /\ job'.pc = "reserved" /\ job'.verdict = job.verdict
      BY <2>2, <1>a DEF ExpiryJob
    <3>7. ExpiryTypes'
      BY <3>1, <3>2, <3>3, <3>4, <3>5, <3>6, <1>a, <1>b, <1>c
    <3>8. FaultsShow'
      BY <3>1, <3>2, <3>3, <3>4, <3>5, <3>6, <1>a, <1>b, <1>c
    <3>9. FirstIsTracked'
      BY <3>1, <3>2, <3>3, <3>4, <3>5, <3>6, <1>a, <1>b, <1>c
    <3>10. ExpiryJudged'
      BY <3>1, <3>2, <3>3, <3>4, <3>5, <3>6, <1>a, <1>b, <1>c
    <3> QED
      BY <3>7, <3>8, <3>9, <3>10
  <2>3. CASE /\ job.pc = "upload-first" /\ env' = [env EXCEPT !.dropped = @ + 1]
             /\ job' = [job EXCEPT !.pc = "reserved"]
    <3>1. /\ job.pc = "upload-first"
      BY <2>3
    <3>2. env.dropped + 1 \in Nat /\ env.dropped + 1 # 0
      BY <1>b
    <3>3. env' \in ExpiryEnv
      BY <2>3, <3>2, <1>a, <1>b, <1>c DEF ExpiryEnv
    <3>4. /\ env'.dropped = env.dropped + 1 /\ env'.fault = env.fault
          /\ env'.registry = env.registry /\ env'.reserved = env.reserved
          /\ env'.expired = env.expired /\ env'.cleanupErrors = env.cleanupErrors
          /\ env'.buffered = env.buffered /\ env'.ended = env.ended
      BY <2>3, <1>a DEF ExpiryEnv
    <3>5. job' \in ExpiryJob
      BY <2>3, <3>2, <1>a, <1>b, <1>c DEF ExpiryJob
    <3>6. /\ job'.pc = "reserved" /\ job'.verdict = job.verdict
      BY <2>3, <1>a DEF ExpiryJob
    <3> QED
      BY <3>1, <3>2, <3>3, <3>4, <3>5, <3>6, <1>a, <1>b, <1>c
  <2> QED
    BY <2>0, <2>1, <2>2, <2>3
<1>5. CASE WaitReserved
  <2>0. \/ /\ job.pc = "reserved" /\ env' = env
           /\ job' = [job EXCEPT !.pc = "done", !.verdict = "fail"]
        \/ /\ job.pc = "reserved" /\ env.reserved # {} /\ env' = env
           /\ job' = [job EXCEPT !.pc = "capacity-full"]
    BY <1>5 DEF WaitReserved, OneReserved, Step, At, Live, Goto, Fail, Ends, Waits, Started, Buffered
  <2>1. CASE /\ job.pc = "reserved" /\ env' = env
             /\ job' = [job EXCEPT !.pc = "done", !.verdict = "fail"]
    <3>1. /\ job.pc = "reserved" /\ env' = env
      BY <2>1
    <3>2. job' \in ExpiryJob
      BY <2>1, <1>a, <1>b, <1>c DEF ExpiryJob
    <3>3. /\ job'.pc = "done" /\ job'.verdict = "fail"
      BY <2>1, <1>a DEF ExpiryJob
    <3> QED
      BY <3>1, <3>2, <3>3, <1>a, <1>b, <1>c
  <2>2. CASE /\ job.pc = "reserved" /\ env.reserved # {} /\ env' = env
             /\ job' = [job EXCEPT !.pc = "capacity-full"]
    <3>1. /\ job.pc = "reserved" /\ env.reserved # {} /\ env' = env
      BY <2>2
    <3>2. job' \in ExpiryJob
      BY <2>2, <1>a, <1>b, <1>c DEF ExpiryJob
    <3>3. /\ job'.pc = "capacity-full" /\ job'.verdict = job.verdict
      BY <2>2, <1>a DEF ExpiryJob
    <3>4. ExpiryTypes'
      BY <3>1, <3>2, <3>3, <1>a, <1>b, <1>c
    <3>5. FaultsShow'
      BY <3>1, <3>2, <3>3, <1>a, <1>b, <1>c
    <3>6. FirstIsTracked'
      BY <3>1, <3>2, <3>3, <1>a, <1>b, <1>c
    <3>7. ExpiryJudged'
      BY <3>1, <3>2, <3>3, <1>a, <1>b, <1>c
    <3> QED
      BY <3>4, <3>5, <3>6, <3>7
  <2> QED
    BY <2>0, <2>1, <2>2
<1>6. CASE CapacityFull
  <2>0. \/ /\ job.pc = "capacity-full" /\ env.fault # "unbounded-registry" /\ env' = env
           /\ job' = [job EXCEPT !.pc = "drained"]
        \/ /\ job.pc = "capacity-full"
           /\ env' = [env EXCEPT !.registry = @ \cup {"second"}]
           /\ job' = [job EXCEPT !.pc = "done", !.verdict = "fail"]
    BY <1>6 DEF CapacityFull, RegistryFull, Step, At, Live, Goto, Fail, Ends, Waits, Started, Buffered
  <2>1. CASE /\ job.pc = "capacity-full" /\ env.fault # "unbounded-registry" /\ env' = env
             /\ job' = [job EXCEPT !.pc = "drained"]
    <3>1. /\ job.pc = "capacity-full" /\ env.fault # "unbounded-registry" /\ env' = env
      BY <2>1
    <3>2. job' \in ExpiryJob
      BY <2>1, <1>a, <1>b, <1>c DEF ExpiryJob
    <3>3. /\ job'.pc = "drained" /\ job'.verdict = job.verdict
      BY <2>1, <1>a DEF ExpiryJob
    <3> QED
      BY <3>1, <3>2, <3>3, <1>a, <1>b, <1>c
  <2>2. CASE /\ job.pc = "capacity-full"
             /\ env' = [env EXCEPT !.registry = @ \cup {"second"}]
             /\ job' = [job EXCEPT !.pc = "done", !.verdict = "fail"]
    <3>1. /\ job.pc = "capacity-full"
      BY <2>2
    <3>2. env' \in ExpiryEnv
      BY <2>2, <1>a, <1>b, <1>c DEF ExpiryEnv
    <3>3. /\ env'.registry = env.registry \cup {"second"} /\ env'.fault = env.fault
          /\ env'.reserved = env.reserved /\ env'.expired = env.expired
          /\ env'.cleanupErrors = env.cleanupErrors /\ env'.buffered = env.buffered
          /\ env'.dropped = env.dropped /\ env'.ended = env.ended
      BY <2>2, <1>a DEF ExpiryEnv
    <3>4. job' \in ExpiryJob
      BY <2>2, <1>a, <1>b, <1>c DEF ExpiryJob
    <3>5. /\ job'.pc = "done" /\ job'.verdict = "fail"
      BY <2>2, <1>a DEF ExpiryJob
    <3> QED
      BY <3>1, <3>2, <3>3, <3>4, <3>5, <1>a, <1>b, <1>c
  <2> QED
    BY <2>0, <2>1, <2>2
<1>7. CASE WaitExpired
  <2>0. \/ /\ job.pc = "drained" /\ env' = env
           /\ job' = [job EXCEPT !.pc = "done", !.verdict = "fail"]
        \/ /\ job.pc = "drained" /\ env.expired = 1 /\ env.cleanupErrors = 0
           /\ env.reserved = {} /\ env' = env /\ job' = [job EXCEPT !.pc = "gone"]
    BY <1>7 DEF WaitExpired, Drained, Step, At, Live, Goto, Fail, Ends, Waits, Started, Buffered
  <2>1. CASE /\ job.pc = "drained" /\ env' = env
             /\ job' = [job EXCEPT !.pc = "done", !.verdict = "fail"]
    <3>1. /\ job.pc = "drained" /\ env' = env
      BY <2>1
    <3>2. job' \in ExpiryJob
      BY <2>1, <1>a, <1>b, <1>c DEF ExpiryJob
    <3>3. /\ job'.pc = "done" /\ job'.verdict = "fail"
      BY <2>1, <1>a DEF ExpiryJob
    <3> QED
      BY <3>1, <3>2, <3>3, <1>a, <1>b, <1>c
  <2>2. CASE /\ job.pc = "drained" /\ env.expired = 1 /\ env.cleanupErrors = 0
             /\ env.reserved = {} /\ env' = env /\ job' = [job EXCEPT !.pc = "gone"]
    <3>1. /\ job.pc = "drained" /\ env.expired = 1 /\ env.cleanupErrors = 0
          /\ env.reserved = {} /\ env' = env
      BY <2>2
    <3>2. job' \in ExpiryJob
      BY <2>2, <1>a, <1>b, <1>c DEF ExpiryJob
    <3>3. /\ job'.pc = "gone" /\ job'.verdict = job.verdict
      BY <2>2, <1>a DEF ExpiryJob
    <3>4. ExpiryTypes'
      BY <3>1, <3>2, <3>3, <1>a, <1>b, <1>c
    <3>5. FaultsShow'
      BY <3>1, <3>2, <3>3, <1>a, <1>b, <1>c
    <3>6. FirstIsTracked'
      BY <3>1, <3>2, <3>3, <1>a, <1>b, <1>c
    <3>7. ExpiryJudged'
      BY <3>1, <3>2, <3>3, <1>a, <1>b, <1>c
    <3> QED
      BY <3>4, <3>5, <3>6, <3>7
  <2> QED
    BY <2>0, <2>1, <2>2
<1>8. CASE ExpiredNotFound
  <2>0. \/ /\ job.pc = "gone" /\ env.fault # "keeps-status" /\ env' = env
           /\ job' = [job EXCEPT !.pc = "start-reused"]
        \/ /\ job.pc = "gone" /\ env' = env
           /\ job' = [job EXCEPT !.pc = "done", !.verdict = "fail"]
    BY <1>8 DEF ExpiredNotFound, NotFound, Step, At, Live, Goto, Fail, Ends, Waits, Started, Buffered
  <2>1. CASE /\ job.pc = "gone" /\ env.fault # "keeps-status" /\ env' = env
             /\ job' = [job EXCEPT !.pc = "start-reused"]
    <3>1. /\ job.pc = "gone" /\ env.fault # "keeps-status" /\ env' = env
      BY <2>1
    <3>2. job' \in ExpiryJob
      BY <2>1, <1>a, <1>b, <1>c DEF ExpiryJob
    <3>3. /\ job'.pc = "start-reused" /\ job'.verdict = job.verdict
      BY <2>1, <1>a DEF ExpiryJob
    <3> QED
      BY <3>1, <3>2, <3>3, <1>a, <1>b, <1>c
  <2>2. CASE /\ job.pc = "gone" /\ env' = env
             /\ job' = [job EXCEPT !.pc = "done", !.verdict = "fail"]
    <3>1. /\ job.pc = "gone" /\ env' = env
      BY <2>2
    <3>2. job' \in ExpiryJob
      BY <2>2, <1>a, <1>b, <1>c DEF ExpiryJob
    <3>3. /\ job'.pc = "done" /\ job'.verdict = "fail"
      BY <2>2, <1>a DEF ExpiryJob
    <3> QED
      BY <3>1, <3>2, <3>3, <1>a, <1>b, <1>c
  <2> QED
    BY <2>0, <2>1, <2>2
<1>9. CASE StartReused
  <2>0. \/ /\ job.pc = "start-reused" /\ env' = env
           /\ job' = [job EXCEPT !.pc = "done", !.verdict = "fail"]
        \/ /\ job.pc = "start-reused"
           /\ env' = [env EXCEPT !.registry = @ \cup {"reused"}]
           /\ job' = [job EXCEPT !.pc = "upload-reused"]
    BY <1>9 DEF StartReused, Step, At, Live, Goto, Fail, Ends, Waits, Started, Buffered
  <2>1. CASE /\ job.pc = "start-reused" /\ env' = env
             /\ job' = [job EXCEPT !.pc = "done", !.verdict = "fail"]
    <3>1. /\ job.pc = "start-reused" /\ env' = env
      BY <2>1
    <3>2. job' \in ExpiryJob
      BY <2>1, <1>a, <1>b, <1>c DEF ExpiryJob
    <3>3. /\ job'.pc = "done" /\ job'.verdict = "fail"
      BY <2>1, <1>a DEF ExpiryJob
    <3> QED
      BY <3>1, <3>2, <3>3, <1>a, <1>b, <1>c
  <2>2. CASE /\ job.pc = "start-reused"
             /\ env' = [env EXCEPT !.registry = @ \cup {"reused"}]
             /\ job' = [job EXCEPT !.pc = "upload-reused"]
    <3>1. /\ job.pc = "start-reused"
      BY <2>2
    <3>2. env' \in ExpiryEnv
      BY <2>2, <1>a, <1>b, <1>c DEF ExpiryEnv
    <3>3. /\ env'.registry = env.registry \cup {"reused"} /\ env'.fault = env.fault
          /\ env'.reserved = env.reserved /\ env'.expired = env.expired
          /\ env'.cleanupErrors = env.cleanupErrors /\ env'.buffered = env.buffered
          /\ env'.dropped = env.dropped /\ env'.ended = env.ended
      BY <2>2, <1>a DEF ExpiryEnv
    <3>4. job' \in ExpiryJob
      BY <2>2, <1>a, <1>b, <1>c DEF ExpiryJob
    <3>5. /\ job'.pc = "upload-reused" /\ job'.verdict = job.verdict
      BY <2>2, <1>a DEF ExpiryJob
    <3> QED
      BY <3>1, <3>2, <3>3, <3>4, <3>5, <1>a, <1>b, <1>c
  <2> QED
    BY <2>0, <2>1, <2>2
<1>10. CASE UploadReused
  <2>0. \/ /\ job.pc = "upload-reused" /\ env' = env
           /\ job' = [job EXCEPT !.pc = "done", !.verdict = "fail"]
        \/ /\ job.pc = "upload-reused" /\ env.reserved \ {"reused"} = {}
           /\ env' = [env EXCEPT !.reserved = {"reused"}, !.buffered = @ + 1]
           /\ job' = [job EXCEPT !.pc = "reused"]
        \/ /\ job.pc = "upload-reused" /\ env' = [env EXCEPT !.dropped = @ + 1]
           /\ job' = [job EXCEPT !.pc = "reused"]
    BY <1>10 DEF UploadReused, Step, At, Live, Goto, Fail, Ends, Waits, Started, Buffered
  <2>1. CASE /\ job.pc = "upload-reused" /\ env' = env
             /\ job' = [job EXCEPT !.pc = "done", !.verdict = "fail"]
    <3>1. /\ job.pc = "upload-reused" /\ env' = env
      BY <2>1
    <3>2. job' \in ExpiryJob
      BY <2>1, <1>a, <1>b, <1>c DEF ExpiryJob
    <3>3. /\ job'.pc = "done" /\ job'.verdict = "fail"
      BY <2>1, <1>a DEF ExpiryJob
    <3> QED
      BY <3>1, <3>2, <3>3, <1>a, <1>b, <1>c
  <2>2. CASE /\ job.pc = "upload-reused" /\ env.reserved \ {"reused"} = {}
             /\ env' = [env EXCEPT !.reserved = {"reused"}, !.buffered = @ + 1]
             /\ job' = [job EXCEPT !.pc = "reused"]
    <3>1. /\ job.pc = "upload-reused" /\ env.reserved \ {"reused"} = {}
      BY <2>2
    <3>2. env.buffered + 1 \in Nat /\ {"reused"} \in SUBSET Sessions
      BY <1>b, <1>c
    <3>3. env' \in ExpiryEnv
      BY <2>2, <3>2, <1>a, <1>b, <1>c, Zenon DEF ExpiryEnv
    <3>4. /\ env'.reserved = {"reused"} /\ env'.buffered = env.buffered + 1
          /\ env'.fault = env.fault /\ env'.registry = env.registry
          /\ env'.expired = env.expired /\ env'.cleanupErrors = env.cleanupErrors
          /\ env'.dropped = env.dropped /\ env'.ended = env.ended
      BY <2>2, <1>a DEF ExpiryEnv
    <3>5. job' \in ExpiryJob
      BY <2>2, <3>2, <1>a, <1>b, <1>c, Zenon DEF ExpiryJob
    <3>6. /\ job'.pc = "reused" /\ job'.verdict = job.verdict
      BY <2>2, <1>a DEF ExpiryJob
    <3>7. ExpiryTypes'
      BY <3>1, <3>2, <3>3, <3>4, <3>5, <3>6, <1>a, <1>b, <1>c
    <3>8. FaultsShow'
      BY <3>1, <3>2, <3>3, <3>4, <3>5, <3>6, <1>a, <1>b, <1>c
    <3>9. FirstIsTracked'
      BY <3>1, <3>2, <3>3, <3>4, <3>5, <3>6, <1>a, <1>b, <1>c
    <3>10. ExpiryJudged'
      BY <3>1, <3>2, <3>3, <3>4, <3>5, <3>6, <1>a, <1>b, <1>c
    <3> QED
      BY <3>7, <3>8, <3>9, <3>10
  <2>3. CASE /\ job.pc = "upload-reused" /\ env' = [env EXCEPT !.dropped = @ + 1]
             /\ job' = [job EXCEPT !.pc = "reused"]
    <3>1. /\ job.pc = "upload-reused"
      BY <2>3
    <3>2. env.dropped + 1 \in Nat /\ env.dropped + 1 # 0
      BY <1>b
    <3>3. env' \in ExpiryEnv
      BY <2>3, <3>2, <1>a, <1>b, <1>c DEF ExpiryEnv
    <3>4. /\ env'.dropped = env.dropped + 1 /\ env'.fault = env.fault
          /\ env'.registry = env.registry /\ env'.reserved = env.reserved
          /\ env'.expired = env.expired /\ env'.cleanupErrors = env.cleanupErrors
          /\ env'.buffered = env.buffered /\ env'.ended = env.ended
      BY <2>3, <1>a DEF ExpiryEnv
    <3>5. job' \in ExpiryJob
      BY <2>3, <3>2, <1>a, <1>b, <1>c DEF ExpiryJob
    <3>6. /\ job'.pc = "reused" /\ job'.verdict = job.verdict
      BY <2>3, <1>a DEF ExpiryJob
    <3> QED
      BY <3>1, <3>2, <3>3, <3>4, <3>5, <3>6, <1>a, <1>b, <1>c
  <2> QED
    BY <2>0, <2>1, <2>2, <2>3
<1>11. CASE WaitReused
  <2>0. \/ /\ job.pc = "reused" /\ env' = env
           /\ job' = [job EXCEPT !.pc = "done", !.verdict = "fail"]
        \/ /\ job.pc = "reused" /\ env.dropped = 0 /\ env' = env
           /\ job' = [job EXCEPT !.pc = "finish"]
    BY <1>11 DEF WaitReused, Reused, Step, At, Live, Goto, Fail, Ends, Waits, Started, Buffered
  <2>1. CASE /\ job.pc = "reused" /\ env' = env
             /\ job' = [job EXCEPT !.pc = "done", !.verdict = "fail"]
    <3>1. /\ job.pc = "reused" /\ env' = env
      BY <2>1
    <3>2. job' \in ExpiryJob
      BY <2>1, <1>a, <1>b, <1>c DEF ExpiryJob
    <3>3. /\ job'.pc = "done" /\ job'.verdict = "fail"
      BY <2>1, <1>a DEF ExpiryJob
    <3> QED
      BY <3>1, <3>2, <3>3, <1>a, <1>b, <1>c
  <2>2. CASE /\ job.pc = "reused" /\ env.dropped = 0 /\ env' = env
             /\ job' = [job EXCEPT !.pc = "finish"]
    <3>1. /\ job.pc = "reused" /\ env.dropped = 0 /\ env' = env
      BY <2>2
    <3>2. job' \in ExpiryJob
      BY <2>2, <1>a, <1>b, <1>c DEF ExpiryJob
    <3>3. /\ job'.pc = "finish" /\ job'.verdict = job.verdict
      BY <2>2, <1>a DEF ExpiryJob
    <3>4. ExpiryTypes'
      BY <3>1, <3>2, <3>3, <1>a, <1>b, <1>c
    <3>5. FaultsShow'
      BY <3>1, <3>2, <3>3, <1>a, <1>b, <1>c
    <3>6. FirstIsTracked'
      BY <3>1, <3>2, <3>3, <1>a, <1>b, <1>c
    <3>7. ExpiryJudged'
      BY <3>1, <3>2, <3>3, <1>a, <1>b, <1>c
    <3> QED
      BY <3>4, <3>5, <3>6, <3>7
  <2> QED
    BY <2>0, <2>1, <2>2
<1>12. CASE FinishReused
  <2>0. \/ /\ job.pc = "finish" /\ env' = env
           /\ job' = [job EXCEPT !.pc = "done", !.verdict = "fail"]
        \/ /\ job.pc = "finish"
           /\ env' = [env EXCEPT !.registry = @ \ {"reused"}, !.reserved = @ \ {"reused"}]
           /\ job' = [job EXCEPT !.pc = "released"]
    BY <1>12 DEF FinishReused, Step, At, Live, Goto, Fail, Ends, Waits, Started, Buffered
  <2>1. CASE /\ job.pc = "finish" /\ env' = env
             /\ job' = [job EXCEPT !.pc = "done", !.verdict = "fail"]
    <3>1. /\ job.pc = "finish" /\ env' = env
      BY <2>1
    <3>2. job' \in ExpiryJob
      BY <2>1, <1>a, <1>b, <1>c DEF ExpiryJob
    <3>3. /\ job'.pc = "done" /\ job'.verdict = "fail"
      BY <2>1, <1>a DEF ExpiryJob
    <3> QED
      BY <3>1, <3>2, <3>3, <1>a, <1>b, <1>c
  <2>2. CASE /\ job.pc = "finish"
             /\ env' = [env EXCEPT !.registry = @ \ {"reused"}, !.reserved = @ \ {"reused"}]
             /\ job' = [job EXCEPT !.pc = "released"]
    <3>1. /\ job.pc = "finish"
      BY <2>2
    <3>2. env' \in ExpiryEnv
      BY <2>2, <1>a, <1>b, <1>c DEF ExpiryEnv
    <3>3. /\ env'.registry = env.registry \ {"reused"}
          /\ env'.reserved = env.reserved \ {"reused"} /\ env'.fault = env.fault
          /\ env'.expired = env.expired /\ env'.cleanupErrors = env.cleanupErrors
          /\ env'.buffered = env.buffered /\ env'.dropped = env.dropped
          /\ env'.ended = env.ended
      BY <2>2, <1>a DEF ExpiryEnv
    <3>4. job' \in ExpiryJob
      BY <2>2, <1>a, <1>b, <1>c DEF ExpiryJob
    <3>5. /\ job'.pc = "released" /\ job'.verdict = job.verdict
      BY <2>2, <1>a DEF ExpiryJob
    <3>6. ExpiryTypes'
      BY <3>1, <3>2, <3>3, <3>4, <3>5, <1>a, <1>b, <1>c
    <3>7. FaultsShow'
      BY <3>1, <3>2, <3>3, <3>4, <3>5, <1>a, <1>b, <1>c
    <3>8. FirstIsTracked'
      BY <3>1, <3>2, <3>3, <3>4, <3>5, <1>a, <1>b, <1>c
    <3>9. ExpiryJudged'
      BY <3>1, <3>2, <3>3, <3>4, <3>5, <1>a, <1>b, <1>c
    <3> QED
      BY <3>6, <3>7, <3>8, <3>9
  <2> QED
    BY <2>0, <2>1, <2>2
<1>13. CASE WaitReleased
  <2>0. \/ /\ job.pc = "released" /\ env' = env
           /\ job' = [job EXCEPT !.pc = "done", !.verdict = "fail"]
        \/ /\ job.pc = "released" /\ env' = env
           /\ job' = [job EXCEPT !.pc = "done", !.verdict = "pass"]
    BY <1>13 DEF WaitReleased, NoneReserved, Step, At, Live, Goto, Fail, Ends, Waits, Started, Buffered
  <2>1. CASE /\ job.pc = "released" /\ env' = env
             /\ job' = [job EXCEPT !.pc = "done", !.verdict = "fail"]
    <3>1. /\ job.pc = "released" /\ env' = env
      BY <2>1
    <3>2. job' \in ExpiryJob
      BY <2>1, <1>a, <1>b, <1>c DEF ExpiryJob
    <3>3. /\ job'.pc = "done" /\ job'.verdict = "fail"
      BY <2>1, <1>a DEF ExpiryJob
    <3> QED
      BY <3>1, <3>2, <3>3, <1>a, <1>b, <1>c
  <2>2. CASE /\ job.pc = "released" /\ env' = env
             /\ job' = [job EXCEPT !.pc = "done", !.verdict = "pass"]
    <3>1. /\ job.pc = "released" /\ env' = env
      BY <2>2
    <3>2. job' \in ExpiryJob
      BY <2>2, <1>a, <1>b, <1>c DEF ExpiryJob
    <3>3. /\ job'.pc = "done" /\ job'.verdict = "pass"
      BY <2>2, <1>a DEF ExpiryJob
    <3>4. ExpiryTypes'
      BY <3>1, <3>2, <3>3, <1>a, <1>b, <1>c
    <3>5. FaultsShow'
      BY <3>1, <3>2, <3>3, <1>a, <1>b, <1>c
    <3>6. FirstIsTracked'
      BY <3>1, <3>2, <3>3, <1>a, <1>b, <1>c
    <3>7. ExpiryJudged'
      BY <3>1, <3>2, <3>3, <1>a, <1>b, <1>c
    <3> QED
      BY <3>4, <3>5, <3>6, <3>7
  <2> QED
    BY <2>0, <2>1, <2>2
<1>14. CASE RequestFails
  <2>1. /\ job.pc # "done" /\ env' = env
        /\ job' = [job EXCEPT !.pc = "done", !.verdict = "fail"]
    BY <1>14 DEF RequestFails, Step, At, Live, Goto, Fail, Ends, Waits, Started, Buffered
  <2>2. /\ job.pc # "done" /\ env' = env
    BY <2>1
  <2>3. job' \in ExpiryJob
    BY <2>1, <1>a, <1>b, <1>c DEF ExpiryJob
  <2>4. /\ job'.pc = "done" /\ job'.verdict = "fail"
    BY <2>1, <1>a DEF ExpiryJob
  <2> QED
    BY <2>2, <2>3, <2>4, <1>a, <1>b, <1>c
<1>15. CASE ForeignStart
  <2>1. /\ job.pc # "done" /\ env' = [env EXCEPT !.registry = @ \cup {"foreign"}]
        /\ job' = job
    BY <1>15 DEF ForeignStart, Step, At, Live, Goto, Fail, Ends, Waits, Started, Buffered
  <2>2. /\ job.pc # "done" /\ job' = job
    BY <2>1
  <2>3. env' \in ExpiryEnv
    BY <2>1, <1>a, <1>b, <1>c DEF ExpiryEnv
  <2>4. /\ env'.registry = env.registry \cup {"foreign"} /\ env'.fault = env.fault
        /\ env'.reserved = env.reserved /\ env'.expired = env.expired
        /\ env'.cleanupErrors = env.cleanupErrors /\ env'.buffered = env.buffered
        /\ env'.dropped = env.dropped /\ env'.ended = env.ended
    BY <2>1, <1>a DEF ExpiryEnv
  <2> QED
    BY <2>2, <2>3, <2>4, <1>a, <1>b, <1>c
<1>16. CASE ForeignUpload
  <2>0. \/ /\ job.pc # "done" /\ env.reserved \ {"foreign"} = {}
           /\ env' = [env EXCEPT !.reserved = {"foreign"}, !.buffered = @ + 1]
           /\ job' = job
        \/ /\ job.pc # "done" /\ env' = [env EXCEPT !.dropped = @ + 1] /\ job' = job
    BY <1>16 DEF ForeignUpload, Step, At, Live, Goto, Fail, Ends, Waits, Started, Buffered
  <2>1. CASE /\ job.pc # "done" /\ env.reserved \ {"foreign"} = {}
             /\ env' = [env EXCEPT !.reserved = {"foreign"}, !.buffered = @ + 1]
             /\ job' = job
    <3>1. /\ job.pc # "done" /\ env.reserved \ {"foreign"} = {} /\ job' = job
      BY <2>1
    <3>2. env.buffered + 1 \in Nat /\ {"foreign"} \in SUBSET Sessions
      BY <1>b, <1>c
    <3>3. env' \in ExpiryEnv
      BY <2>1, <3>2, <1>a, <1>b, <1>c, Zenon DEF ExpiryEnv
    <3>4. /\ env'.reserved = {"foreign"} /\ env'.buffered = env.buffered + 1
          /\ env'.fault = env.fault /\ env'.registry = env.registry
          /\ env'.expired = env.expired /\ env'.cleanupErrors = env.cleanupErrors
          /\ env'.dropped = env.dropped /\ env'.ended = env.ended
      BY <2>1, <1>a DEF ExpiryEnv
    <3>5. ExpiryTypes'
      BY <3>1, <3>2, <3>3, <3>4, <1>a, <1>b, <1>c
    <3>6. FaultsShow'
      BY <3>1, <3>2, <3>3, <3>4, <1>a, <1>b, <1>c
    <3>7. FirstIsTracked'
      BY <3>1, <3>2, <3>3, <3>4, <1>a, <1>b, <1>c
    <3>8. ExpiryJudged'
      BY <3>1, <3>2, <3>3, <3>4, <1>a, <1>b, <1>c
    <3> QED
      BY <3>5, <3>6, <3>7, <3>8
  <2>2. CASE /\ job.pc # "done" /\ env' = [env EXCEPT !.dropped = @ + 1] /\ job' = job
    <3>1. /\ job.pc # "done" /\ job' = job
      BY <2>2
    <3>2. env.dropped + 1 \in Nat /\ env.dropped + 1 # 0
      BY <1>b
    <3>3. env' \in ExpiryEnv
      BY <2>2, <3>2, <1>a, <1>b, <1>c DEF ExpiryEnv
    <3>4. /\ env'.dropped = env.dropped + 1 /\ env'.fault = env.fault
          /\ env'.registry = env.registry /\ env'.reserved = env.reserved
          /\ env'.expired = env.expired /\ env'.cleanupErrors = env.cleanupErrors
          /\ env'.buffered = env.buffered /\ env'.ended = env.ended
      BY <2>2, <1>a DEF ExpiryEnv
    <3> QED
      BY <3>1, <3>2, <3>3, <3>4, <1>a, <1>b, <1>c
  <2> QED
    BY <2>0, <2>1, <2>2
<1>17. CASE \E s \in Sessions : SweepSession(s)
  <2>1. PICK s \in Sessions :
          /\ job.pc # "done" /\ s \in env.registry /\ env.fault # "never-expires"
          /\ env' = [env EXCEPT !.registry = @ \ {s}, !.ended = @ \cup {s}] /\ job' = job
    BY <1>17 DEF SweepSession, Step, At, Live, Goto, Fail, Ends, Waits, Started, Buffered
  <2>2. /\ job.pc # "done" /\ s \in env.registry /\ env.fault # "never-expires"
        /\ job' = job
    BY <2>1
  <2>3. env' \in ExpiryEnv
    BY <2>1, <1>a, <1>b, <1>c DEF ExpiryEnv
  <2>4. /\ env'.registry = env.registry \ {s} /\ env'.ended = env.ended \cup {s}
        /\ env'.fault = env.fault /\ env'.reserved = env.reserved
        /\ env'.expired = env.expired /\ env'.cleanupErrors = env.cleanupErrors
        /\ env'.buffered = env.buffered /\ env'.dropped = env.dropped
    BY <2>1, <1>a DEF ExpiryEnv
  <2>5. ExpiryTypes'
    BY <2>2, <2>3, <2>4, <1>a, <1>b, <1>c
  <2>6. FaultsShow'
    BY <2>2, <2>3, <2>4, <1>a, <1>b, <1>c
  <2>7. FirstIsTracked'
    BY <2>2, <2>3, <2>4, <1>a, <1>b, <1>c
  <2>8. ExpiryJudged'
    BY <2>2, <2>3, <2>4, <1>a, <1>b, <1>c
  <2> QED
    BY <2>5, <2>6, <2>7, <2>8
<1>18. CASE \E s \in Sessions : CleanUp(s)
  <2>a. PICK s \in Sessions : CleanUp(s)
    BY <1>18
  <2>b. PICK errors \in Nat :
          errors = IF env.fault = "cleanup-error" THEN env.cleanupErrors + 1 ELSE env.cleanupErrors
    BY <1>b
  <2>c. PICK reserved \in SUBSET Sessions :
          reserved = IF env.fault = "leaks-reservation" THEN env.reserved ELSE env.reserved \ {s}
    BY <1>b
  <2>1. /\ job.pc # "done" /\ s \in env.ended
        /\ (env.fault # "leaks-reservation" => reserved = env.reserved \ {s})
        /\ (env.fault = "leaks-reservation" => reserved = env.reserved)
        /\ reserved \subseteq env.reserved
        /\ (s # "first" /\ "first" \in env.reserved => "first" \in reserved)
        /\ (env.fault = "cleanup-error" => errors = env.cleanupErrors + 1)
        /\ env' = [env EXCEPT !.ended = @ \ {s}, !.expired = @ + 1, !.cleanupErrors = errors, !.reserved = reserved]
        /\ job' = job
    BY <1>18, <2>a, <2>b, <2>c DEF CleanUp, Step, At, Live, Goto, Fail, Ends, Waits, Started, Buffered
  <2>2. /\ job.pc # "done" /\ s \in env.ended
        /\ (env.fault # "leaks-reservation" => reserved = env.reserved \ {s})
        /\ (env.fault = "leaks-reservation" => reserved = env.reserved)
        /\ reserved \subseteq env.reserved
        /\ (s # "first" /\ "first" \in env.reserved => "first" \in reserved)
        /\ (env.fault = "cleanup-error" => errors = env.cleanupErrors + 1) /\ job' = job
    BY <2>1, <2>a, <2>b, <2>c
  <2>3. env.expired + 1 \in Nat /\ env.ended \ {s} \in SUBSET Sessions
    BY <1>b
  <2>4. env' \in ExpiryEnv
    BY <2>1, <2>a, <2>b, <2>c, <2>3, <1>a, <1>b, <1>c, ZenonT(60) DEF ExpiryEnv
  <2>5. /\ env'.ended = env.ended \ {s} /\ env'.expired = env.expired + 1
        /\ env'.cleanupErrors = errors /\ env'.reserved = reserved
        /\ env'.fault = env.fault /\ env'.registry = env.registry
        /\ env'.buffered = env.buffered /\ env'.dropped = env.dropped
    BY <2>1, <2>a, <2>b, <2>c, <1>a DEF ExpiryEnv
  <2>6. ExpiryTypes'
    BY <2>2, <2>3, <2>4, <2>5, <1>a, <1>b, <1>c
  <2>7. FaultsShow'
    BY <2>2, <2>3, <2>4, <2>5, <1>a, <1>b, <1>c
  <2>8. FirstIsTracked'
    BY <2>2, <2>3, <2>4, <2>5, <1>a, <1>b, <1>c
  <2>9. ExpiryJudged'
    BY <2>2, <2>3, <2>4, <2>5, <1>a, <1>b, <1>c
  <2> QED
    BY <2>6, <2>7, <2>8, <2>9
<1> QED
  BY <1>1, <1>2, <1>3, <1>4, <1>5, <1>6, <1>7, <1>8, <1>9, <1>10, <1>11, <1>12, <1>13, <1>14, <1>15, <1>16, <1>17, <1>18 DEF ExpiryNext

\* The invariant gives what a pass says.
LEMMA ExpirySafe == ExpiryInv => ExpiryPassMeansSound
  BY DEF ExpiryInv, ExpiryJudged, FirstIsOut, ExpiryPassMeansSound

-----------------------------------------------------------------------------
(* RealtimeLifecycle: the realtime lifecycle acceptance. *)

GatewayEvents == {"ready", "ready-other", "partial", "final", "eof_ack", "drained", "error"}
AnalysisEvents == {"usable", "thin"}
Metrics ==
  [ready : BOOLEAN, providerReady : BOOLEAN, partial : BOOLEAN, final : BOOLEAN,
   whileSpeaking : BOOLEAN, eofAck : BOOLEAN, drained : BOOLEAN, late : BOOLEAN, error : BOOLEAN,
   words : BOOLEAN]
Results == [run : Nat, own : BOOLEAN, usable : BOOLEAN]
RealtimeEnv ==
  [session : {"none", "active", "finished"}, ws : Seq(GatewayEvents), sse : Seq(AnalysisEvents),
   told : SUBSET (GatewayEvents \cup AnalysisEvents), eof : BOOLEAN, usableEarly : BOOLEAN,
   transcripts : BOOLEAN, result : Results]
RealtimeJob ==
  [pc : {"create", "stream", "finish", "read", "source", "reopen", "judge", "done"},
   snd : {"off", "connect", "audio", "silence", "eof", "drain"}, frames : Nat, speaking : BOOLEAN,
   recording : BOOLEAN, usable : BOOLEAN, m : Metrics, finished : BOOLEAN, count : BOOLEAN,
   first : Results, source : Nat, same : BOOLEAN, verdict : {"none", "pass", "fail"}]

RealtimeTypes == env \in RealtimeEnv /\ job \in RealtimeJob

(* The recording is closed before the gateway is told that it is over. *)
RecordingBeforeEof ==
  /\ job.recording => job.pc = "stream" /\ job.snd \in {"audio", "silence"}
  /\ job.pc = "create" => ~ env.eof
  /\ job.pc = "stream" /\ job.snd # "drain" => ~ env.eof

(* An event in flight tells when it was sent. *)
EventsInOrder ==
  /\ \A i \in 1..Len(env.sse) : env.sse[i] = "usable" /\ ~ env.eof => env.usableEarly
  /\ \A i \in 1..Len(env.ws) : env.ws[i] = "eof_ack" => env.eof
  /\ job.usable => env.usableEarly
  /\ job.m.eofAck => env.eof

(* What was read back is stored, and a later run never has its number. *)
ReadIsStored ==
  /\ job.pc \in {"create", "stream", "finish"} => ~ job.finished
  /\ job.finished => env.session = "finished"
  /\ job.count => env.transcripts
  /\ job.first.run <= env.result.run
  /\ job.first.run = env.result.run /\ job.first # NoResult => env.result = job.first
  /\ job.pc \notin {"reopen", "judge", "done"} => job.source = 0
  /\ job.source # 0 /\ job.first # NoResult => job.source = job.first.run

RealtimeJudged ==
  job.verdict = "pass" =>
    /\ job.pc = "done" /\ env.usableEarly /\ env.eof /\ env.session = "finished" /\ env.transcripts
    /\ job.source = job.first.run /\ env.result.run >= job.source
    /\ env.result.run = job.source => env.result.own /\ env.result.usable

RealtimeInv ==
  RealtimeTypes /\ RecordingBeforeEof /\ EventsInOrder /\ ReadIsStored /\ RealtimeJudged

\* Nothing has been sent, received or stored.
LEMMA RealtimeStart == RealtimeInit => RealtimeInv
<1> SUFFICES ASSUME RealtimeInit PROVE RealtimeInv
  OBVIOUS
<1>1. NoMetrics \in Metrics /\ ~ NoMetrics.eofAck
  BY DEF NoMetrics, Metrics
<1>2. NoResult \in Results /\ NoResult.run = 0
  BY DEF NoResult, Results
<1>3. env = [session |-> "none", ws |-> <<>>, sse |-> <<>>, told |-> {}, eof |-> FALSE,
             usableEarly |-> FALSE, transcripts |-> FALSE, result |-> NoResult]
  BY DEF RealtimeInit
<1>4. job = [pc |-> "create", snd |-> "off", frames |-> 0, speaking |-> FALSE,
             recording |-> FALSE, usable |-> FALSE, m |-> NoMetrics, finished |-> FALSE,
             count |-> FALSE, first |-> NoResult, source |-> 0, same |-> FALSE,
             verdict |-> "none"]
  BY DEF RealtimeInit
<1>5. env \in RealtimeEnv
  BY <1>2, <1>3 DEF RealtimeEnv
<1>6. job \in RealtimeJob
  BY <1>1, <1>2, <1>4 DEF RealtimeJob
<1> QED
  BY <1>1, <1>2, <1>3, <1>4, <1>5, <1>6 DEF RealtimeInv, RealtimeTypes, RecordingBeforeEof,
     EventsInOrder, ReadIsStored, RealtimeJudged

\* An event is metered in its own field; only eof_ack acknowledges.
LEMMA MeteredKeeps ==
  ASSUME NEW m \in Metrics, NEW e \in GatewayEvents
  PROVE  Metered(m, e) \in Metrics /\ (Metered(m, e).eofAck => m.eofAck \/ e = "eof_ack")
<1>1. CASE e = "ready"
  <2>1. Metered(m, e) = [m EXCEPT !.ready = TRUE, !.providerReady = TRUE]
    BY <1>1 DEF Metered
  <2> QED
    BY <1>1, <2>1 DEF Metrics
<1>2. CASE e = "ready-other"
  <2>1. Metered(m, e) = [m EXCEPT !.ready = TRUE, !.providerReady = FALSE]
    BY <1>2 DEF Metered
  <2> QED
    BY <1>2, <2>1 DEF Metrics
<1>3. CASE e = "partial"
  <2>1. PICK spoken \in BOOLEAN : spoken = (m.whileSpeaking \/ job.speaking)
    OBVIOUS
  <2>2. Metered(m, e) = [m EXCEPT !.partial = TRUE, !.whileSpeaking = spoken]
    BY <1>3, <2>1 DEF Metered
  <2> QED
    BY <2>2 DEF Metrics
<1>4. CASE e = "final"
  <2>1. Metered(m, e) = [m EXCEPT !.final = TRUE]
    BY <1>4 DEF Metered
  <2> QED
    BY <1>4, <2>1 DEF Metrics
<1>5. CASE e = "eof_ack"
  <2>1. Metered(m, e) = [m EXCEPT !.eofAck = TRUE]
    BY <1>5 DEF Metered
  <2> QED
    BY <1>5, <2>1 DEF Metrics
<1>6. CASE e = "drained"
  <2>1. Metered(m, e) = [m EXCEPT !.drained = TRUE]
    BY <1>6 DEF Metered
  <2> QED
    BY <1>6, <2>1 DEF Metrics
<1>7. CASE e = "error"
  <2>1. Metered(m, e) = [m EXCEPT !.error = TRUE]
    BY <1>7 DEF Metered
  <2> QED
    BY <1>7, <2>1 DEF Metrics
<1> QED
  BY <1>1, <1>2, <1>3, <1>4, <1>5, <1>6, <1>7 DEF GatewayEvents

\* The end of a stream closes the recording and what was in flight is gone.
LEMMA StreamEndKeeps ==
  ASSUME RealtimeTypes, NEW m \in Metrics, env' = Closed, job' = StreamEnds(m)
  PROVE  /\ env' \in RealtimeEnv /\ job' \in RealtimeJob
         /\ env'.ws = <<>> /\ env'.sse = <<>> /\ env'.session = env.session /\ env'.eof = env.eof
         /\ env'.usableEarly = env.usableEarly /\ env'.transcripts = env.transcripts
         /\ env'.result = env.result
         /\ job'.pc = "finish" /\ job'.snd = "off" /\ job'.recording = FALSE /\ job'.m = m
         /\ job'.usable = job.usable /\ job'.finished = job.finished /\ job'.count = job.count
         /\ job'.first = job.first /\ job'.source = job.source /\ job'.same = job.same
         /\ job'.verdict = job.verdict
<1>1. env \in RealtimeEnv /\ job \in RealtimeJob
  BY DEF RealtimeTypes
<1>2. <<>> \in Seq(GatewayEvents) /\ <<>> \in Seq(AnalysisEvents)
  OBVIOUS
<1>3. env' \in RealtimeEnv
  BY <1>1, <1>2, Zenon DEF Closed, RealtimeEnv
<1>4. job' \in RealtimeJob
  BY <1>1, Zenon DEF StreamEnds, RealtimeJob
<1>5. /\ env'.ws = <<>> /\ env'.sse = <<>> /\ env'.session = env.session /\ env'.eof = env.eof
      /\ env'.usableEarly = env.usableEarly /\ env'.transcripts = env.transcripts
      /\ env'.result = env.result
  BY <1>1 DEF Closed, RealtimeEnv
<1>6. /\ job'.pc = "finish" /\ job'.snd = "off" /\ job'.recording = FALSE /\ job'.m = m
      /\ job'.usable = job.usable /\ job'.finished = job.finished /\ job'.count = job.count
      /\ job'.first = job.first /\ job'.source = job.source /\ job'.same = job.same
      /\ job'.verdict = job.verdict
  BY <1>1 DEF StreamEnds, RealtimeJob
<1> QED
  BY <1>3, <1>4, <1>5, <1>6

\* Every step of the three tasks and of the services keeps the invariant.
LEMMA RealtimeStep == RealtimeInv /\ RealtimeNext => RealtimeInv'
<1> SUFFICES ASSUME RealtimeInv, RealtimeNext PROVE RealtimeInv'
  OBVIOUS
<1>a. env \in RealtimeEnv /\ job \in RealtimeJob /\ RealtimeTypes
  BY DEF RealtimeInv, RealtimeTypes
<1>b. /\ env.ws \in Seq(GatewayEvents) /\ env.sse \in Seq(AnalysisEvents)
      /\ env.result \in Results /\ env.told \in SUBSET (GatewayEvents \cup AnalysisEvents)
      /\ job.m \in Metrics /\ job.frames \in Nat /\ job.first \in Results /\ job.source \in Nat
  BY <1>a DEF RealtimeEnv, RealtimeJob
<1>c. NoMetrics \in Metrics /\ ~ NoMetrics.eofAck
  BY DEF NoMetrics, Metrics
<1>d. NoResult \in Results /\ NoResult.run = 0 /\ ~ NoResult.own
  BY DEF NoResult, Results
<1>e. \A r \in Results : r.run \in Nat
  BY DEF Results
<1> USE DEF RealtimeInv, RealtimeTypes, RecordingBeforeEof, EventsInOrder, ReadIsStored, RealtimeJudged
<1>1. CASE CreateLifecycle
  <2>0. job.pc = "create" /\ (env' = env \/ env' = [env EXCEPT !.session = "active"])
    BY <1>1 DEF CreateLifecycle, Step, At
  <2>1. /\ env' \in RealtimeEnv
        /\ env'.ws = env.ws /\ env'.sse = env.sse /\ env'.eof = env.eof
        /\ env'.usableEarly = env.usableEarly /\ env'.transcripts = env.transcripts
        /\ env'.result = env.result
    BY <2>0, <1>a DEF RealtimeEnv
  <2>2. CASE job' = [job EXCEPT !.pc = "stream", !.snd = "connect"]
    <3>1. /\ job' \in RealtimeJob
          /\ job'.pc = "stream" /\ job'.snd = "connect" /\ job'.recording = job.recording
        /\ job'.usable = job.usable /\ job'.m = job.m /\ job'.finished = job.finished
        /\ job'.count = job.count /\ job'.first = job.first /\ job'.source = job.source
        /\ job'.same = job.same /\ job'.verdict = job.verdict
      BY <2>2, <1>a DEF RealtimeJob
    <3> QED
      BY <2>0, <2>1, <3>1
  <2>3. CASE job' = Ends(job, "fail")
    <3>1. /\ job' \in RealtimeJob
          /\ job'.pc = "done" /\ job'.verdict = "fail" /\ job'.snd = job.snd
        /\ job'.recording = job.recording /\ job'.usable = job.usable /\ job'.m = job.m
        /\ job'.finished = job.finished /\ job'.count = job.count /\ job'.first = job.first
        /\ job'.source = job.source /\ job'.same = job.same
      BY <2>3, <1>a DEF RealtimeJob, Ends
    <3> QED
      BY <2>0, <2>1, <3>1
  <2> QED
    BY <1>1, <2>2, <2>3 DEF CreateLifecycle, Step
<1>2. CASE StartAudio
  <2>1. env' = env /\ job.pc = "stream" /\ job.snd = "connect" /\ job' = [job EXCEPT !.snd = "audio", !.speaking = TRUE, !.recording = TRUE]
    BY <1>2 DEF StartAudio, Sending, Step, At
  <2>2. job' \in RealtimeJob
    BY <2>1, <1>a, <1>b DEF RealtimeJob
  <2>3. /\ job'.snd = "audio" /\ job'.recording = TRUE /\ job'.pc = job.pc
        /\ job'.usable = job.usable /\ job'.m = job.m /\ job'.finished = job.finished
        /\ job'.count = job.count /\ job'.first = job.first /\ job'.source = job.source
        /\ job'.same = job.same /\ job'.verdict = job.verdict
    BY <2>1, <1>a DEF RealtimeJob
  <2> QED
    BY <2>1, <2>2, <2>3, <1>a
<1>3. CASE SendFrame
  <2>1. env' = env /\ job.pc = "stream" /\ job' = [job EXCEPT !.frames = @ + 1]
    BY <1>3 DEF SendFrame, Sending, Step, At
  <2>2. job' \in RealtimeJob
    BY <2>1, <1>a, <1>b DEF RealtimeJob
  <2>3. /\ job'.pc = job.pc /\ job'.snd = job.snd /\ job'.recording = job.recording
        /\ job'.usable = job.usable /\ job'.m = job.m /\ job'.finished = job.finished
        /\ job'.count = job.count /\ job'.first = job.first /\ job'.source = job.source
        /\ job'.same = job.same /\ job'.verdict = job.verdict
    BY <2>1, <1>a DEF RealtimeJob
  <2> QED
    BY <2>1, <2>2, <2>3, <1>a
<1>4. CASE StartSilence
  <2>1. env' = env /\ job.pc = "stream" /\ job.snd = "audio" /\ job' = [job EXCEPT !.snd = "silence", !.speaking = FALSE, !.frames = 0]
    BY <1>4 DEF StartSilence, Sending, Step, At
  <2>2. job' \in RealtimeJob
    BY <2>1, <1>a, <1>b DEF RealtimeJob
  <2>3. /\ job'.snd = "silence" /\ job'.pc = job.pc /\ job'.recording = job.recording
        /\ job'.usable = job.usable /\ job'.m = job.m /\ job'.finished = job.finished
        /\ job'.count = job.count /\ job'.first = job.first /\ job'.source = job.source
        /\ job'.same = job.same /\ job'.verdict = job.verdict
    BY <2>1, <1>a DEF RealtimeJob
  <2> QED
    BY <2>1, <2>2, <2>3, <1>a
<1>5. CASE StopRecording
  <2>1. env' = env /\ job.pc = "stream" /\ job.snd = "silence" /\ job' = [job EXCEPT !.snd = "eof", !.recording = FALSE]
    BY <1>5 DEF StopRecording, CloseRecording, Sending, Step, At
  <2>2. job' \in RealtimeJob
    BY <2>1, <1>a, <1>b DEF RealtimeJob
  <2>3. /\ job'.snd = "eof" /\ job'.recording = FALSE /\ job'.pc = job.pc
        /\ job'.usable = job.usable /\ job'.m = job.m /\ job'.finished = job.finished
        /\ job'.count = job.count /\ job'.first = job.first /\ job'.source = job.source
        /\ job'.same = job.same /\ job'.verdict = job.verdict
    BY <2>1, <1>a DEF RealtimeJob
  <2> QED
    BY <2>1, <2>2, <2>3, <1>a
<1>6. CASE SendEof
  <2>1. /\ job.pc = "stream" /\ job.snd = "eof"
        /\ env' = [env EXCEPT !.eof = TRUE] /\ job' = [job EXCEPT !.snd = "drain"]
    BY <1>6 DEF SendEof, Sending, Step, At
  <2>2. env' \in RealtimeEnv /\ job' \in RealtimeJob
    BY <2>1, <1>a DEF RealtimeEnv, RealtimeJob
  <2>3. /\ env'.eof = TRUE /\ env'.session = env.session /\ env'.ws = env.ws
        /\ env'.sse = env.sse /\ env'.usableEarly = env.usableEarly
        /\ env'.transcripts = env.transcripts /\ env'.result = env.result
    BY <2>1, <1>a DEF RealtimeEnv
  <2>4. /\ job'.snd = "drain" /\ job'.pc = job.pc /\ job'.recording = job.recording
        /\ job'.usable = job.usable /\ job'.m = job.m /\ job'.finished = job.finished
        /\ job'.count = job.count /\ job'.first = job.first /\ job'.source = job.source
        /\ job'.same = job.same /\ job'.verdict = job.verdict
    BY <2>1, <1>a DEF RealtimeJob
  <2> QED
    BY <2>1, <2>2, <2>3, <2>4
<1>7. CASE AwaitDrained
  <2>0. job.pc = "stream"
    BY <1>7 DEF AwaitDrained, Sending, At
  <2>1. PICK m \in Metrics : /\ env' = Closed /\ job' = StreamEnds(m)
                             /\ m.eofAck => job.m.eofAck
    <3>1. CASE env' = Closed /\ job' = StreamRaises
      BY <3>1, <1>c DEF StreamRaises
    <3>2. CASE \E words \in BOOLEAN :
                 /\ env' = Closed
                 /\ job' = StreamEnds([job.m EXCEPT !.late = ~job.m.drained, !.words = words])
      <4>1. PICK words \in BOOLEAN :
              /\ env' = Closed
              /\ job' = StreamEnds([job.m EXCEPT !.late = ~job.m.drained, !.words = words])
        BY <3>2
      <4>2. PICK m : m = [job.m EXCEPT !.late = ~job.m.drained, !.words = words]
        OBVIOUS
      <4>3. m \in Metrics /\ m.eofAck = job.m.eofAck
        BY <4>2, <1>b DEF Metrics
      <4> QED
        BY <4>1, <4>2, <4>3
    <3> QED
      BY <1>7, <3>1, <3>2 DEF AwaitDrained, Step
  <2>2. /\ env' \in RealtimeEnv /\ job' \in RealtimeJob
        /\ env'.ws = <<>> /\ env'.sse = <<>> /\ env'.session = env.session /\ env'.eof = env.eof
        /\ env'.usableEarly = env.usableEarly /\ env'.transcripts = env.transcripts
        /\ env'.result = env.result
        /\ job'.pc = "finish" /\ job'.snd = "off" /\ job'.recording = FALSE /\ job'.m = m
        /\ job'.usable = job.usable /\ job'.finished = job.finished /\ job'.count = job.count
        /\ job'.first = job.first /\ job'.source = job.source /\ job'.same = job.same
        /\ job'.verdict = job.verdict
    BY <2>1, <1>a, StreamEndKeeps
  <2> QED
    BY <2>0, <2>1, <2>2, <1>a
<1>8. CASE StreamBreaks
  <2>1. job.pc = "stream" /\ env' = Closed /\ job' = StreamEnds(NoMetrics)
    BY <1>8 DEF StreamBreaks, StreamRaises, Step, At
  <2>2. /\ env' \in RealtimeEnv /\ job' \in RealtimeJob
        /\ env'.ws = <<>> /\ env'.sse = <<>> /\ env'.session = env.session /\ env'.eof = env.eof
        /\ env'.usableEarly = env.usableEarly /\ env'.transcripts = env.transcripts
        /\ env'.result = env.result
        /\ job'.pc = "finish" /\ job'.snd = "off" /\ job'.recording = FALSE /\ job'.m = NoMetrics
        /\ job'.usable = job.usable /\ job'.finished = job.finished /\ job'.count = job.count
        /\ job'.first = job.first /\ job'.source = job.source /\ job'.same = job.same
        /\ job'.verdict = job.verdict
    BY <2>1, <1>a, <1>c, StreamEndKeeps
  <2> QED
    BY <2>1, <2>2, <1>a, <1>c
<1>9. CASE Receive
  <2>1. /\ job.pc = "stream" /\ env.ws # <<>> /\ env' = [env EXCEPT !.ws = Tail(@)]
        /\ job' = [job EXCEPT !.m = Metered(@, Head(env.ws))]
    BY <1>9 DEF Receive, Step, At
  <2>2. /\ Head(env.ws) \in GatewayEvents /\ Tail(env.ws) \in Seq(GatewayEvents)
        /\ Head(env.ws) = env.ws[1] /\ 1 \in 1..Len(env.ws)
        /\ \A i \in 1..Len(Tail(env.ws)) : i + 1 \in 1..Len(env.ws) /\ Tail(env.ws)[i] = env.ws[i + 1]
    BY <2>1, <1>b, HeadTailProperties
  <2>3. PICK m \in Metrics : m = Metered(job.m, Head(env.ws)) /\ (m.eofAck => env.eof)
    BY <2>2, <1>b, MeteredKeeps
  <2>4. job' = [job EXCEPT !.m = m]
    BY <2>1, <2>3
  <2>5. env' \in RealtimeEnv /\ job' \in RealtimeJob
    BY <2>1, <2>2, <2>4, <1>a DEF RealtimeEnv, RealtimeJob
  <2>6. /\ env'.ws = Tail(env.ws) /\ env'.session = env.session /\ env'.sse = env.sse
        /\ env'.eof = env.eof /\ env'.usableEarly = env.usableEarly
        /\ env'.transcripts = env.transcripts /\ env'.result = env.result
    BY <2>1, <1>a DEF RealtimeEnv
  <2>7. /\ job'.m = m /\ job'.pc = job.pc /\ job'.snd = job.snd
        /\ job'.recording = job.recording /\ job'.usable = job.usable
        /\ job'.finished = job.finished /\ job'.count = job.count /\ job'.first = job.first
        /\ job'.source = job.source /\ job'.same = job.same /\ job'.verdict = job.verdict
    BY <2>4, <1>a DEF RealtimeJob
  <2>8. \A i \in 1..Len(env'.ws) : env'.ws[i] = "eof_ack" => env'.eof
    BY <2>2, <2>6
  <2> QED
    BY <2>1, <2>3, <2>5, <2>6, <2>7, <2>8
<1>10. CASE Observe
  <2>1. PICK usable \in BOOLEAN :
          /\ job.pc = "stream" /\ env.sse # <<>> /\ env' = [env EXCEPT !.sse = Tail(@)]
          /\ job' = [job EXCEPT !.usable = usable]
          /\ usable = (job.usable \/ (Head(env.sse) = "usable" /\ job.recording))
    BY <1>10 DEF Observe, Step, At
  <2>2. /\ Tail(env.sse) \in Seq(AnalysisEvents)
        /\ Head(env.sse) = env.sse[1] /\ 1 \in 1..Len(env.sse)
        /\ \A i \in 1..Len(Tail(env.sse)) : i + 1 \in 1..Len(env.sse) /\ Tail(env.sse)[i] = env.sse[i + 1]
    BY <2>1, <1>b, HeadTailProperties
  <2>3. env' \in RealtimeEnv /\ job' \in RealtimeJob
    BY <2>1, <2>2, <1>a DEF RealtimeEnv, RealtimeJob
  <2>4. /\ env'.sse = Tail(env.sse) /\ env'.session = env.session /\ env'.ws = env.ws
        /\ env'.eof = env.eof /\ env'.usableEarly = env.usableEarly
        /\ env'.transcripts = env.transcripts /\ env'.result = env.result
    BY <2>1, <1>a DEF RealtimeEnv
  <2>5. /\ job'.usable = usable /\ job'.pc = job.pc /\ job'.snd = job.snd
        /\ job'.recording = job.recording /\ job'.m = job.m /\ job'.finished = job.finished
        /\ job'.count = job.count /\ job'.first = job.first /\ job'.source = job.source
        /\ job'.same = job.same /\ job'.verdict = job.verdict
    BY <2>1, <1>a DEF RealtimeJob
  <2>6. \A i \in 1..Len(env'.sse) : env'.sse[i] = "usable" /\ ~ env'.eof => env'.usableEarly
    BY <2>2, <2>4
  <2>7. usable => env.usableEarly
    BY <2>1, <2>2
  <2> QED
    BY <2>1, <2>3, <2>4, <2>5, <2>6, <2>7
<1>11. CASE FinishLifecycle
  <2>1. PICK s \in {"active", "finished"} :
          /\ job.pc = "finish" /\ env' = [env EXCEPT !.session = s]
          /\ \/ s = "finished" /\ job' = [job EXCEPT !.pc = "read", !.finished = TRUE]
             \/ job' = [job EXCEPT !.pc = "judge"]
    BY <1>11 DEF FinishLifecycle, Step, At
  <2>2. env' \in RealtimeEnv
    BY <2>1, <1>a DEF RealtimeEnv
  <2>3. /\ env'.session = s /\ env'.ws = env.ws /\ env'.sse = env.sse /\ env'.eof = env.eof
        /\ env'.usableEarly = env.usableEarly /\ env'.transcripts = env.transcripts
        /\ env'.result = env.result
    BY <2>1, <1>a DEF RealtimeEnv
  <2>4. /\ job' \in RealtimeJob
        /\ \/ job'.pc = "read" /\ job'.finished /\ s = "finished"
           \/ job'.pc = "judge" /\ job'.finished = job.finished
        /\ job'.snd = job.snd /\ job'.recording = job.recording /\ job'.usable = job.usable
        /\ job'.m = job.m /\ job'.count = job.count /\ job'.first = job.first
        /\ job'.source = job.source /\ job'.same = job.same /\ job'.verdict = job.verdict
    BY <2>1, <1>a DEF RealtimeJob
  <2> QED
    BY <2>1, <2>2, <2>3, <2>4
<1>12. CASE Poll
  <2>1. PICK count \in BOOLEAN, seen \in Results, pc \in {"source", "read"} :
          /\ job.pc = "read" /\ env' = env
          /\ job' = [job EXCEPT !.count = count, !.first = seen, !.pc = pc]
          /\ count = (job.count \/ env.transcripts)
          /\ seen = IF env.result # NoResult THEN env.result ELSE job.first
    BY <1>12, <1>b DEF Poll, Step, At
  <2>2. job' \in RealtimeJob
    BY <2>1, <1>a, ZenonT(60) DEF RealtimeJob
  <2>3. /\ job'.pc = pc /\ job'.count = count /\ job'.first = seen /\ job'.snd = job.snd
        /\ job'.recording = job.recording /\ job'.usable = job.usable /\ job'.m = job.m
        /\ job'.finished = job.finished /\ job'.source = job.source /\ job'.same = job.same
        /\ job'.verdict = job.verdict
    BY <2>1, <1>a DEF RealtimeJob
  <2> QED
    <3>1. seen.run \in Nat /\ env.result.run \in Nat /\ job.first.run \in Nat
      BY <1>b, <1>e
    <3>2. job.source = 0
      BY <2>1
    <3>3. CASE env.result # NoResult
      <4>1. seen = env.result
        BY <2>1, <3>3
      <4>2. job'.first = env'.result /\ job'.first.run <= env'.result.run
        BY <2>1, <2>3, <3>1, <4>1
      <4>3. job'.count => env'.transcripts
        BY <2>1, <2>3
      <4>4. ReadIsStored'
        BY <2>1, <2>3, <3>2, <4>2, <4>3
      <4>5. job.verdict # "pass"
        BY <2>1
      <4> QED
        BY <2>1, <2>2, <2>3, <1>a, <4>4, <4>5
    <3>4. CASE env.result = NoResult
      <4>1. seen = job.first
        BY <2>1, <3>4
      <4> QED
        BY <2>1, <2>2, <2>3, <1>a, <3>1, <3>2, <4>1
    <3> QED
      BY <3>3, <3>4
<1>13. CASE ReadbackEnds
  <2>0. env' = env /\ job.pc = "read"
    BY <1>13 DEF ReadbackEnds, Step, At
  <2>1. CASE job' = [job EXCEPT !.pc = IF job.first.own THEN "source" ELSE "judge"]
    <3>1. PICK pc \in {"source", "judge"} : job' = [job EXCEPT !.pc = pc]
      BY <2>1
    <3>2. /\ job' \in RealtimeJob
          /\ job'.pc = pc /\ job'.snd = job.snd /\ job'.recording = job.recording
        /\ job'.usable = job.usable /\ job'.m = job.m /\ job'.finished = job.finished
        /\ job'.count = job.count /\ job'.first = job.first /\ job'.source = job.source
        /\ job'.same = job.same /\ job'.verdict = job.verdict
      BY <3>1, <1>a DEF RealtimeJob
    <3> QED
      BY <2>0, <3>2, <1>a
  <2>2. CASE job' = [job EXCEPT !.pc = "judge", !.first = NoResult, !.count = FALSE]
    <3>1. /\ job' \in RealtimeJob
          /\ job'.pc = "judge" /\ job'.first = NoResult /\ job'.count = FALSE
        /\ job'.snd = job.snd /\ job'.recording = job.recording /\ job'.usable = job.usable
        /\ job'.m = job.m /\ job'.finished = job.finished /\ job'.source = job.source
        /\ job'.same = job.same /\ job'.verdict = job.verdict
      BY <2>2, <1>a, <1>d DEF RealtimeJob
    <3> QED
      BY <2>0, <3>1, <1>a, <1>b, <1>d, <1>e
  <2> QED
    BY <1>13, <2>1, <2>2 DEF ReadbackEnds, Step
<1>14. CASE ReadSource
  <2>1. PICK source \in {0, job.first.run} :
          env' = env /\ job.pc = "source" /\ job' = [job EXCEPT !.pc = "reopen", !.source = source]
    BY <1>14 DEF ReadSource, Step, At
  <2>2. source \in Nat
    BY <2>1, <1>b, <1>e
  <2>3. job' \in RealtimeJob
    BY <2>1, <2>2, <1>a DEF RealtimeJob
  <2>4. /\ job'.pc = "reopen" /\ job'.source = source /\ job'.snd = job.snd
        /\ job'.recording = job.recording /\ job'.usable = job.usable /\ job'.m = job.m
        /\ job'.finished = job.finished /\ job'.count = job.count /\ job'.first = job.first
        /\ job'.same = job.same /\ job'.verdict = job.verdict
    BY <2>1, <1>a DEF RealtimeJob
  <2> QED
    BY <2>1, <2>3, <2>4, <1>a
<1>15. CASE Reopen
  <2>0. env' = env /\ job.pc = "reopen"
    BY <1>15 DEF Reopen, Step, At
  <2>1. CASE job' = [job EXCEPT !.pc = "judge", !.same = env.result = job.first]
    <3>1. PICK same \in BOOLEAN : job' = [job EXCEPT !.pc = "judge", !.same = same]
      BY <2>1
    <3>2. /\ job' \in RealtimeJob
          /\ job'.pc = "judge" /\ job'.same = same /\ job'.snd = job.snd
        /\ job'.recording = job.recording /\ job'.usable = job.usable /\ job'.m = job.m
        /\ job'.finished = job.finished /\ job'.count = job.count /\ job'.first = job.first
        /\ job'.source = job.source /\ job'.verdict = job.verdict
      BY <3>1, <1>a DEF RealtimeJob
    <3> QED
      BY <2>0, <3>2, <1>a
  <2>2. CASE job' = [job EXCEPT !.pc = "judge", !.first = NoResult, !.count = FALSE]
    <3>1. /\ job' \in RealtimeJob
          /\ job'.pc = "judge" /\ job'.first = NoResult /\ job'.count = FALSE
        /\ job'.snd = job.snd /\ job'.recording = job.recording /\ job'.usable = job.usable
        /\ job'.m = job.m /\ job'.finished = job.finished /\ job'.source = job.source
        /\ job'.same = job.same /\ job'.verdict = job.verdict
      BY <2>2, <1>a, <1>d DEF RealtimeJob
    <3> QED
      BY <2>0, <3>1, <1>a, <1>b, <1>d, <1>e
  <2> QED
    BY <1>15, <2>1, <2>2 DEF Reopen, Step
<1>16. CASE Judge
  <2>1. PICK v \in {"pass", "fail"} :
          /\ env' = env /\ job.pc = "judge" /\ job' = Ends(job, v) /\ (v = "pass" => Passed)
    BY <1>16 DEF Judge, Step, At
  <2>2. job' \in RealtimeJob
    BY <2>1, <1>a DEF Ends, RealtimeJob
  <2>3. /\ job'.pc = "done" /\ job'.verdict = v /\ job'.snd = job.snd
        /\ job'.recording = job.recording /\ job'.usable = job.usable /\ job'.m = job.m
        /\ job'.finished = job.finished /\ job'.count = job.count /\ job'.first = job.first
        /\ job'.source = job.source /\ job'.same = job.same
    BY <2>1, <1>a DEF Ends, RealtimeJob
  <2>4. v = "pass" => /\ job.finished /\ job.m.eofAck /\ job.count /\ job.first # NoResult
                      /\ job.first.own /\ job.first.usable /\ job.source # 0 /\ job.usable
    BY <2>1 DEF Passed, ProductEvidence
  <2>5. v = "pass" => /\ env.usableEarly /\ env.eof /\ env.session = "finished" /\ env.transcripts
                      /\ job.source = job.first.run /\ env.result.run >= job.source
    BY <2>4, <1>b, <1>e
  <2>6. v = "pass" /\ env.result.run = job.source => env.result.own /\ env.result.usable
    BY <2>4, <2>5
  <2> QED
    BY <2>1, <2>2, <2>3, <2>5, <2>6, <1>a
<1>17. CASE GatewayEvent
  <2>1. PICK e \in GatewayEvents :
          /\ job.pc = "stream" /\ Due(e) /\ job' = job
          /\ env' = [env EXCEPT !.ws = Append(@, e), !.told = @ \cup {e}]
    BY <1>17 DEF GatewayEvent, Step, At, GatewayEvents
  <2>2. /\ Append(env.ws, e) \in Seq(GatewayEvents)
        /\ env.told \cup {e} \in SUBSET (GatewayEvents \cup AnalysisEvents)
    BY <1>b
  <2>3. e = "eof_ack" => env.eof
    BY <2>1 DEF Due
  <2>4. env' \in RealtimeEnv
    BY <2>1, <2>2, <1>a, Zenon DEF RealtimeEnv
  <2>5. /\ env'.ws = Append(env.ws, e) /\ env'.session = env.session /\ env'.sse = env.sse
        /\ env'.eof = env.eof /\ env'.usableEarly = env.usableEarly
        /\ env'.transcripts = env.transcripts /\ env'.result = env.result
    BY <2>1, <1>a DEF RealtimeEnv
  <2>6. \A i \in 1..Len(env'.ws) : env'.ws[i] = "eof_ack" => env'.eof
    BY <2>3, <2>5, <1>b
  <2> QED
    BY <2>1, <2>4, <2>5, <2>6, <1>a
<1>18. CASE AnalysisEvent
  <2>1. PICK a \in AnalysisEvents, early \in BOOLEAN :
          /\ job.pc = "stream" /\ job' = job
          /\ env' = [env EXCEPT !.sse = Append(@, a), !.told = @ \cup {a}, !.usableEarly = early]
          /\ early = (env.usableEarly \/ (a = "usable" /\ ~env.eof))
    BY <1>18 DEF AnalysisEvent, Step, At, AnalysisEvents
  <2>2. /\ Append(env.sse, a) \in Seq(AnalysisEvents)
        /\ env.told \cup {a} \in SUBSET (GatewayEvents \cup AnalysisEvents)
    BY <1>b
  <2>3. env' \in RealtimeEnv
    BY <2>1, <2>2, <1>a, Zenon DEF RealtimeEnv
  <2>4. /\ env'.sse = Append(env.sse, a) /\ env'.usableEarly = early
        /\ env'.session = env.session /\ env'.ws = env.ws /\ env'.eof = env.eof
        /\ env'.transcripts = env.transcripts /\ env'.result = env.result
    BY <2>1, <1>a DEF RealtimeEnv
  <2>5. \A i \in 1..Len(env'.sse) : env'.sse[i] = "usable" /\ ~ env'.eof => env'.usableEarly
    <3>1. Len(env.sse) = 0 /\ env.sse \in Seq(AnalysisEvents)
      BY <1>18, <1>b DEF AnalysisEvent
    <3>2. \A i \in 1..Len(env'.sse) : env'.sse[i] = a
      BY <2>4, <3>1
    <3>3. a = "usable" /\ ~ env.eof => early
      BY <2>1
    <3> QED
      BY <2>4, <3>2, <3>3
  <2> QED
    BY <2>1, <2>3, <2>4, <2>5, <1>a
<1>19. CASE StoreTranscript
  <2>1. job' = job /\ job.pc # "done" /\ env' = [env EXCEPT !.transcripts = TRUE]
    BY <1>19 DEF StoreTranscript, Step
  <2>2. env' \in RealtimeEnv
    BY <2>1, <1>a DEF RealtimeEnv
  <2>3. /\ env'.transcripts = TRUE /\ env'.session = env.session /\ env'.ws = env.ws
        /\ env'.sse = env.sse /\ env'.eof = env.eof /\ env'.usableEarly = env.usableEarly
        /\ env'.result = env.result
    BY <2>1, <1>a DEF RealtimeEnv
  <2> QED
    BY <2>1, <2>2, <2>3, <1>a
<1>20. CASE StoreResult
  <2>0. PICK own, usable \in BOOLEAN :
          /\ job' = job /\ job.pc # "done"
          /\ env' = [env EXCEPT !.result = [run |-> env.result.run + 1, own |-> own, usable |-> usable]]
    BY <1>20 DEF StoreResult, Step
  <2>1. PICK result :
          /\ job' = job /\ job.pc # "done" /\ env' = [env EXCEPT !.result = result]
          /\ result = [run |-> env.result.run + 1, own |-> own, usable |-> usable]
    BY <2>0
  <2>2. result \in Results /\ result.run = env.result.run + 1
    BY <2>1, <1>b, <1>e DEF Results
  <2>3. env' \in RealtimeEnv
    BY <2>1, <2>2, <1>a DEF RealtimeEnv
  <2>4. /\ env'.result = result /\ env'.session = env.session /\ env'.ws = env.ws
        /\ env'.sse = env.sse /\ env'.eof = env.eof /\ env'.usableEarly = env.usableEarly
        /\ env'.transcripts = env.transcripts
    BY <2>1, <1>a DEF RealtimeEnv
  <2> QED
    BY <2>1, <2>2, <2>3, <2>4, <1>a, <1>b, <1>e
<1> QED
  BY <1>1, <1>2, <1>3, <1>4, <1>5, <1>6, <1>7, <1>8, <1>9, <1>10, <1>11, <1>12, <1>13, <1>14,
     <1>15, <1>16, <1>17, <1>18, <1>19, <1>20 DEF RealtimeNext

\* The invariant contains the claim about a passed realtime acceptance.
LEMMA RealtimeSafe == RealtimeInv => RealtimePassIsLive
BY DEF RealtimeInv, RealtimeJudged, RealtimePassIsLive

-----------------------------------------------------------------------------
(* AnalysisIngest: the meeting analysis ingest smoke. *)

IngestEnv ==
  [fault : IngestFaults \cup {"sound"}, issued : Nat,
   stored : {"none", "base", "changed", "analyzer"}, created : Nat]
IngestJob ==
  [pc : {"setup", "secret", "refusals", "anonymous", "capability", "write", "accept", "done"},
   write : BOOLEAN, phase : 1..3, ok : BOOLEAN, ids : SUBSET Nat, binding : Nat, body : BOOLEAN,
   cap : BOOLEAN, verdict : {"none", "error", "accepted", "refused"}]

IngestTypes == env \in IngestEnv /\ job \in IngestJob

(* The results written and the capabilities used while every check passed. *)
Written(j) == IF j.pc = "accept" THEN 3 ELSE j.phase - 1
Used(j) == IF j.pc = "write" THEN j.phase ELSE Written(j)

(* What the checks passed so far have ruled out. *)
RefusalsHeld ==
  /\ job.pc \in {"anonymous", "capability", "write", "accept"} =>
       env.fault \notin {"wide-token", "open-token"}
  /\ job.pc \in {"capability", "write", "accept"} => env.fault # "open-ingest"
  /\ job.pc \in {"setup", "secret", "refusals", "anonymous"} => job.phase = 1
CapabilitiesHeld ==
  /\ env.issued = Used(job)
  /\ Used(job) = 0 => job.ids = {} /\ job.binding = 0
  /\ Used(job) >= 1 => env.fault # "loose-capability" /\ 1 \in job.ids /\ job.binding = 1
  /\ Used(job) >= 2 => env.fault \notin {"shared-capability", "rebinds"}
WritesHeld ==
  /\ Written(job) = 0 => env.stored \in {"none", "analyzer"}
  /\ Written(job) = 0 /\ env.stored = "none" => env.created = 0
  /\ Written(job) >= 1 => env.stored = "base" /\ env.created = 1
  /\ Written(job) >= 2 => env.fault # "creates-again"
  /\ Written(job) = 3 => env.fault # "overwrites"

IngestJudged ==
  /\ job.verdict = "accepted" =>
       /\ job.pc = "done" /\ env.fault = "sound" /\ env.stored = "base" /\ env.created = 1
       /\ env.issued = 3
  /\ job.ok /\ job.pc # "done" => RefusalsHeld /\ CapabilitiesHeld /\ WritesHeld

IngestInv == IngestTypes /\ IngestJudged

\* A new ingest smoke has checked nothing and nothing is stored.
LEMMA IngestStart == IngestInit => IngestInv
BY DEF IngestInit, IngestInv, IngestTypes, IngestEnv, IngestJob, IngestJudged, RefusalsHeld,
       CapabilitiesHeld, WritesHeld, Used, Written

\* A check that fails is remembered, and touches nothing else.
LEMMA CheckKeeps ==
  ASSUME NEW j \in IngestJob, NEW passed, NEW q, q = Check(j, passed)
  PROVE  /\ q \in IngestJob /\ (q.ok => j.ok /\ passed)
         /\ q.pc = j.pc /\ q.write = j.write /\ q.phase = j.phase /\ q.ids = j.ids
         /\ q.binding = j.binding /\ q.verdict = j.verdict
<1>1. PICK ok \in BOOLEAN : ok = (j.ok /\ passed)
  BY DEF IngestJob
<1>2. q = [j EXCEPT !.ok = ok]
  BY <1>1 DEF Check
<1> QED
  BY <1>1, <1>2 DEF IngestJob

\* The next phase starts with a capability; after the third the smoke judges.
LEMMA NextPhaseKeeps ==
  ASSUME NEW j \in IngestJob, NEW q, q = NextPhase(j)
  PROVE  /\ q \in IngestJob /\ q.ok = j.ok /\ q.ids = j.ids /\ q.binding = j.binding
         /\ q.verdict = j.verdict
         /\ IF j.phase = 3 THEN q.pc = "accept" /\ q.phase = 3
            ELSE q.pc = "capability" /\ q.phase = j.phase + 1
<1>1. CASE j.phase = 3
  BY <1>1 DEF NextPhase, IngestJob
<1>2. CASE j.phase # 3
  <2>1. q = [j EXCEPT !.pc = "capability", !.phase = @ + 1, !.cap = FALSE]
    BY <1>2 DEF NextPhase
  <2>2. j.phase + 1 \in 1..3
    BY <1>2 DEF IngestJob
  <2>3. q \in IngestJob
    BY <2>1, <2>2, Zenon DEF IngestJob
  <2> QED
    BY <1>2, <2>1, <2>3 DEF IngestJob
<1> QED
  BY <1>1, <1>2

\* Every step of the smoke and of the services keeps the invariant.
LEMMA IngestStep == IngestInv /\ IngestNext => IngestInv'
<1> SUFFICES ASSUME IngestInv, IngestNext PROVE IngestInv'
  OBVIOUS
<1>a. env \in IngestEnv /\ job \in IngestJob
  BY DEF IngestInv, IngestTypes
<1>b. /\ env.issued \in Nat /\ env.created \in Nat
      /\ env.stored \in {"none", "base", "changed", "analyzer"}
  BY <1>a DEF IngestEnv
<1>c. /\ job.phase \in 1..3 /\ job.ids \in SUBSET Nat /\ job.binding \in Nat /\ job.ok \in BOOLEAN
  BY <1>a DEF IngestJob
<1>1. CASE SetupIngest
  <2>0. env' = env /\ job.pc = "setup"
    BY <1>1 DEF SetupIngest, Step, At
  <2>1. CASE job' = Ends(job, "error")
    <3>1. job' \in IngestJob /\ job'.pc = "done" /\ job'.verdict = "error"
      BY <2>1, <1>a DEF Ends, IngestJob
    <3> QED
      BY <2>0, <3>1, <1>a DEF IngestInv, IngestTypes, IngestJudged
  <2>2. CASE \E write \in BOOLEAN : job' = [job EXCEPT !.pc = "secret", !.write = write]
    <3>1. /\ job' \in IngestJob /\ job'.pc = "secret" /\ job'.ok = job.ok /\ job'.phase = job.phase
          /\ job'.ids = job.ids /\ job'.binding = job.binding /\ job'.verdict = job.verdict
      BY <2>2, <1>a DEF IngestJob
    <3> QED
      BY <2>0, <3>1, <1>a DEF IngestInv, IngestTypes, IngestJudged, RefusalsHeld, CapabilitiesHeld,
         WritesHeld, Used, Written
  <2> QED
    BY <1>1, <2>1, <2>2 DEF SetupIngest, Step
<1>2. CASE LoadSecret
  <2>0. env' = env /\ job.pc = "secret"
    BY <1>2 DEF LoadSecret, Step, At
  <2>1. CASE job' = Ends(job, "error")
    <3>1. job' \in IngestJob /\ job'.pc = "done" /\ job'.verdict = "error"
      BY <2>1, <1>a DEF Ends, IngestJob
    <3> QED
      BY <2>0, <3>1, <1>a DEF IngestInv, IngestTypes, IngestJudged
  <2>2. CASE job' = [job EXCEPT !.pc = "refusals"]
    <3>1. /\ job' \in IngestJob /\ job'.pc = "refusals" /\ job'.ok = job.ok /\ job'.phase = job.phase
          /\ job'.ids = job.ids /\ job'.binding = job.binding /\ job'.verdict = job.verdict
      BY <2>2, <1>a DEF IngestJob
    <3> QED
      BY <2>0, <3>1, <1>a DEF IngestInv, IngestTypes, IngestJudged, RefusalsHeld, CapabilitiesHeld,
         WritesHeld, Used, Written
  <2> QED
    BY <1>2, <2>1, <2>2 DEF LoadSecret, Step
<1>3. CASE TokenRefusals
  <2>0. env' = env /\ job.pc = "refusals"
    BY <1>3 DEF TokenRefusals, Step, At
  <2>1. PICK token \in BOOLEAN :
          /\ token => ClaimsBound
          /\ job' = [Check(job, token /\ env.fault # "open-token" /\ job.write)
                        EXCEPT !.pc = IF token /\ job.write THEN "anonymous" ELSE "accept"]
    BY <1>3 DEF TokenRefusals, Step
  <2>2. PICK passed, q : /\ passed = (token /\ env.fault # "open-token" /\ job.write)
                         /\ q = Check(job, passed)
    OBVIOUS
  <2>3. /\ q \in IngestJob /\ (q.ok => job.ok /\ passed)
        /\ q.phase = job.phase /\ q.ids = job.ids
        /\ q.binding = job.binding /\ q.verdict = job.verdict
    BY <2>2, <1>a, CheckKeeps
  <2>4. PICK pc \in {"anonymous", "accept"} :
          /\ pc = IF token /\ job.write THEN "anonymous" ELSE "accept"
          /\ job' = [q EXCEPT !.pc = pc]
    BY <2>1, <2>2
  <2>5. /\ job' \in IngestJob /\ job'.pc = pc /\ job'.ok = q.ok /\ job'.phase = job.phase
        /\ job'.ids = job.ids /\ job'.binding = job.binding /\ job'.verdict = job.verdict
    BY <2>3, <2>4 DEF IngestJob
  <2>6. q.ok => job.ok /\ pc = "anonymous" /\ env.fault \notin {"wide-token", "open-token"}
    BY <2>1, <2>2, <2>3, <2>4 DEF ClaimsBound
  <2> QED
    BY <2>0, <2>4, <2>5, <2>6, <1>a DEF IngestInv, IngestTypes, IngestJudged, RefusalsHeld,
       CapabilitiesHeld, WritesHeld, Used, Written
<1>4. CASE AnonymousIngest
  <2>0. env' = env /\ job.pc = "anonymous"
    BY <1>4 DEF AnonymousIngest, Step, At
  <2>1. PICK passed, q : /\ passed => env.fault # "open-ingest"
                         /\ q = Check(job, passed) /\ job' = [q EXCEPT !.pc = "capability"]
    BY <1>4 DEF AnonymousIngest, Step
  <2>3. /\ q \in IngestJob /\ (q.ok => job.ok /\ passed)
        /\ q.phase = job.phase /\ q.ids = job.ids
        /\ q.binding = job.binding /\ q.verdict = job.verdict
    BY <2>1, <1>a, CheckKeeps
  <2>4. /\ job' \in IngestJob /\ job'.pc = "capability" /\ job'.ok = q.ok /\ job'.phase = job.phase
        /\ job'.ids = job.ids /\ job'.binding = job.binding /\ job'.verdict = job.verdict
    BY <2>1, <2>3 DEF IngestJob
  <2> QED
    BY <2>0, <2>1, <2>3, <2>4, <1>a DEF IngestInv, IngestTypes, IngestJudged, RefusalsHeld,
       CapabilitiesHeld, WritesHeld, Used, Written
<1>5. CASE IssueCapability
  <2>0. job.pc = "capability" /\ job.verdict # "accepted"
    BY <1>5 DEF IssueCapability, At, IngestInv, IngestJudged
  <2>a. PICK answered \in BOOLEAN :
          LET id == CapabilityId  b == Binding
              bound == answered /\ CapabilityExact /\ CapabilityFresh(id, b)
              e == IF answered THEN [env EXCEPT !.issued = @ + 1] ELSE env
              seen == IF answered /\ CapabilityExact /\ id \notin job.ids
                      THEN [job EXCEPT !.ids = @ \cup {id},
                                       !.binding = IF @ = 0 THEN b ELSE @]
                      ELSE job
          IN  Step(e, IF bound
                      THEN [seen EXCEPT !.pc = "write", !.cap = TRUE, !.body = TRUE]
                      ELSE NextPhase(Check(seen, FALSE)))
    BY <1>5 DEF IssueCapability
  <2>b. PICK id, b : id = CapabilityId /\ b = Binding
    OBVIOUS
  <2>c. PICK bound \in BOOLEAN : bound = (answered /\ CapabilityExact /\ CapabilityFresh(id, b))
    OBVIOUS
  <2>d. PICK seen :
          seen = IF answered /\ CapabilityExact /\ id \notin job.ids
                 THEN [job EXCEPT !.ids = @ \cup {id}, !.binding = IF @ = 0 THEN b ELSE @]
                 ELSE job
    OBVIOUS
  <2>1. /\ env' = IF answered THEN [env EXCEPT !.issued = @ + 1] ELSE env
        /\ job' = IF bound THEN [seen EXCEPT !.pc = "write", !.cap = TRUE, !.body = TRUE]
                  ELSE NextPhase(Check(seen, FALSE))
    BY <2>a, <2>b, <2>c, <2>d DEF Step
  <2>2. id \in Nat /\ b \in Nat
    BY <2>b, <1>b DEF CapabilityId, Binding
  <2>3. /\ env' \in IngestEnv /\ env'.fault = env.fault /\ env'.stored = env.stored
        /\ env'.created = env.created /\ (bound => env'.issued = env.issued + 1)
    BY <2>1, <2>c, <1>a DEF IngestEnv
  <2>4. /\ seen \in IngestJob /\ seen.pc = job.pc /\ seen.ok = job.ok /\ seen.phase = job.phase
        /\ seen.verdict = job.verdict
        /\ bound => /\ seen.ids = job.ids \cup {id}
                    /\ seen.binding = IF job.binding = 0 THEN b ELSE job.binding
    <3>1. CASE answered /\ CapabilityExact /\ id \notin job.ids
      <4>1. PICK ids \in SUBSET Nat, binding \in Nat :
              /\ ids = job.ids \cup {id} /\ binding = IF job.binding = 0 THEN b ELSE job.binding
        BY <2>2, <1>c
      <4>2. seen = [job EXCEPT !.ids = ids, !.binding = binding]
        BY <2>d, <3>1, <4>1
      <4>3. seen \in IngestJob
        BY <4>2, <1>a, Zenon DEF IngestJob
      <4> QED
        BY <4>1, <4>2, <4>3, <1>a DEF IngestJob
    <3>2. CASE ~ (answered /\ CapabilityExact /\ id \notin job.ids)
      BY <2>c, <2>d, <3>2, <1>a DEF CapabilityFresh
    <3> QED
      BY <3>1, <3>2
  <2>5. CASE bound
    <3>1. job' = [seen EXCEPT !.pc = "write", !.cap = TRUE, !.body = TRUE]
      BY <2>1, <2>5
    <3>2. /\ job' \in IngestJob /\ job'.pc = "write" /\ job'.ok = job.ok /\ job'.phase = job.phase
          /\ job'.ids = job.ids \cup {id} /\ job'.verdict = job.verdict
          /\ job'.binding = IF job.binding = 0 THEN b ELSE job.binding
      BY <2>4, <2>5, <3>1 DEF IngestJob
    <3>3. ASSUME job.ok PROVE RefusalsHeld' /\ WritesHeld'
      BY <2>0, <2>3, <3>2, <3>3, <1>c DEF IngestInv, IngestJudged, RefusalsHeld, WritesHeld, Written
    <3>4. ASSUME job.ok PROVE CapabilitiesHeld'
      <4>1. CapabilitiesHeld /\ env.issued = job.phase - 1 /\ Used(job) = job.phase - 1
        BY <2>0, <3>4 DEF IngestInv, IngestJudged, CapabilitiesHeld, Used, Written
      <4>2. Used(job)' = job.phase /\ env'.issued = job.phase
        BY <2>3, <2>5, <3>2, <4>1, <1>c DEF Used
      <4>3. /\ id = IF env.fault = "shared-capability" THEN 1 ELSE job.phase
            /\ b = IF env.fault = "rebinds" THEN job.phase ELSE 1
        BY <2>b, <4>1, <1>c DEF CapabilityId, Binding
      <4>4. /\ env.fault # "loose-capability" /\ id \notin job.ids /\ job.binding \in {0, b}
        BY <2>c, <2>5 DEF CapabilityExact, CapabilityFresh
      <4>5. 1 \in job'.ids /\ job'.binding = 1
        BY <3>2, <4>1, <4>3, <4>4, <1>c DEF CapabilitiesHeld
      <4>6. job.phase >= 2 => env.fault \notin {"shared-capability", "rebinds"}
        BY <4>1, <4>3, <4>4, <1>c DEF CapabilitiesHeld
      <4> QED
        BY <2>3, <4>2, <4>4, <4>5, <4>6, <1>c DEF CapabilitiesHeld
    <3> QED
      BY <2>0, <2>3, <3>2, <3>3, <3>4 DEF IngestInv, IngestTypes, IngestJudged
  <2>6. CASE ~ bound
    <3>1. PICK failed : failed = Check(seen, FALSE) /\ job' = NextPhase(failed)
      BY <2>1, <2>6
    <3>2. failed \in IngestJob /\ ~ failed.ok /\ failed.verdict = job.verdict
      BY <2>4, <3>1, CheckKeeps
    <3>3. job' \in IngestJob /\ ~ job'.ok /\ job'.verdict = job.verdict
      BY <3>1, <3>2, NextPhaseKeeps
    <3> QED
      BY <2>0, <2>3, <3>3 DEF IngestInv, IngestTypes, IngestJudged
  <2> QED
    BY <2>5, <2>6
<1>6. CASE IngestResult
  <2>0. job.pc = "write" /\ job.verdict # "accepted"
    BY <1>6 DEF IngestResult, At, IngestInv, IngestJudged
  <2>1. PICK passed, q :
          /\ q = Check(job, passed) /\ job' = NextPhase(q)
          /\ env' = env \/ env' = Ingested(Body)
          /\ passed => env' = Ingested(Body) /\ Answer(Body) = Expected[job.phase]
    BY <1>6 DEF IngestResult, Step
  <2>2. /\ q \in IngestJob /\ (q.ok => job.ok /\ passed) /\ q.phase = job.phase
        /\ q.ids = job.ids /\ q.binding = job.binding /\ q.verdict = job.verdict
    BY <2>1, <1>a, CheckKeeps
  <2>3. /\ job' \in IngestJob /\ (job'.ok => job.ok /\ passed) /\ job'.verdict = job.verdict
        /\ job'.ids = job.ids /\ job'.binding = job.binding
        /\ IF job.phase = 3 THEN job'.pc = "accept" /\ job'.phase = 3
           ELSE job'.pc = "capability" /\ job'.phase = job.phase + 1
    BY <2>1, <2>2, NextPhaseKeeps
  <2>4. /\ Body = IF job.phase = 3 THEN "changed" ELSE "base"
        /\ Expected[job.phase] = IF job.phase = 1 THEN 201 ELSE IF job.phase = 2 THEN 200 ELSE 409
    BY <1>c DEF Body, Phases, Expected
  <2>5. PICK body \in {"base", "changed"}, answer \in {200, 201, 409} :
          body = Body /\ answer = Answer(Body)
    BY <2>4 DEF Answer
  <2>6. /\ Ingested(Body) \in IngestEnv /\ Ingested(Body).fault = env.fault
        /\ Ingested(Body).issued = env.issued
        /\ answer = 409 => Ingested(Body) = env
        /\ answer # 409 => /\ Ingested(Body).stored = body
                           /\ Ingested(Body).created = IF answer = 201 THEN env.created + 1 ELSE env.created
    <3>1. CASE answer = 409
      BY <2>5, <3>1, <1>a DEF Ingested
    <3>2. CASE answer # 409
      <4>1. PICK created \in Nat : created = IF answer = 201 THEN env.created + 1 ELSE env.created
        BY <1>b
      <4>2. Ingested(Body) = [env EXCEPT !.stored = body, !.created = created]
        BY <2>5, <3>2, <4>1 DEF Ingested
      <4> QED
        <5>1. body \in {"none", "base", "changed", "analyzer"}
          OBVIOUS
        <5>2. [env EXCEPT !.stored = body, !.created = created] \in IngestEnv
          BY <5>1, <1>a, Zenon DEF IngestEnv
        <5>3. /\ [env EXCEPT !.stored = body, !.created = created].fault = env.fault
              /\ [env EXCEPT !.stored = body, !.created = created].issued = env.issued
              /\ [env EXCEPT !.stored = body, !.created = created].stored = body
              /\ [env EXCEPT !.stored = body, !.created = created].created = created
          BY <1>a DEF IngestEnv
        <5> QED
          BY <3>2, <4>1, <4>2, <5>2, <5>3
    <3> QED
      BY <3>1, <3>2
  <2>7. env' \in IngestEnv /\ env'.fault = env.fault /\ env'.issued = env.issued
    BY <2>1, <2>6, <1>a
  <2>8. ASSUME job'.ok PROVE RefusalsHeld' /\ CapabilitiesHeld' /\ WritesHeld'
    <3>1. job.ok /\ env' = Ingested(Body) /\ answer = Expected[job.phase]
      BY <2>1, <2>3, <2>5, <2>8
    <3>2. RefusalsHeld /\ CapabilitiesHeld /\ WritesHeld
      BY <2>0, <3>1 DEF IngestInv, IngestJudged
    <3>3. Used(job) = job.phase /\ Used(job)' = job.phase
      BY <2>0, <2>3, <1>c DEF Used, Written
    <3>4. Written(job) = job.phase - 1 /\ Written(job)' = job.phase
      BY <2>0, <2>3, <1>c DEF Written
    <3>5. RefusalsHeld'
      BY <2>0, <2>3, <2>7, <3>2 DEF RefusalsHeld
    <3>6. CapabilitiesHeld'
      BY <2>3, <2>7, <3>2, <3>3 DEF CapabilitiesHeld
    <3>7. answer = CASE env.stored = "none" -> 201
                     [] env.stored = body -> IF env.fault = "creates-again" THEN 201 ELSE 200
                     [] OTHER -> IF env.fault = "overwrites" THEN 200 ELSE 409
      BY <2>5 DEF Answer
    <3>8. WritesHeld'
      <4>1. CASE job.phase = 1
        <5>1. body = "base" /\ answer = 201 /\ env.stored = "none" /\ env.created = 0
          BY <2>4, <2>5, <3>1, <3>2, <3>4, <3>7, <4>1 DEF WritesHeld
        <5>2. env'.stored = "base" /\ env'.created = 1 /\ Written(job)' = 1
          BY <2>6, <3>1, <3>4, <4>1, <5>1
        <5> QED
          BY <5>2 DEF WritesHeld
      <4>2. CASE job.phase = 2
        <5>1. body = "base" /\ answer = 200 /\ env.stored = "base" /\ env.created = 1
          BY <2>4, <2>5, <3>1, <3>2, <3>4, <4>2 DEF WritesHeld
        <5>2. env.fault # "creates-again"
          BY <3>7, <5>1
        <5> QED
          BY <2>6, <2>7, <3>1, <3>4, <4>2, <5>1, <5>2 DEF WritesHeld
      <4>3. CASE job.phase = 3
        <5>1. /\ body = "changed" /\ answer = 409 /\ env.stored = "base" /\ env.created = 1
              /\ env.fault # "creates-again"
          BY <2>4, <2>5, <3>1, <3>2, <3>4, <4>3 DEF WritesHeld
        <5>2. env.fault # "overwrites"
          BY <3>7, <5>1
        <5> QED
          BY <2>6, <3>1, <3>4, <4>3, <5>1, <5>2 DEF WritesHeld
      <4> QED
        BY <4>1, <4>2, <4>3, <1>c
    <3> QED
      BY <3>5, <3>6, <3>8
  <2> QED
    BY <2>0, <2>3, <2>7, <2>8 DEF IngestInv, IngestTypes, IngestJudged
<1>7. CASE AcceptIngest
  <2>1. /\ env' = env /\ job.pc = "accept"
        /\ job' = Ends(job, IF job.ok THEN "accepted" ELSE "refused")
    BY <1>7 DEF AcceptIngest, Step, At
  <2>2. job' \in IngestJob /\ job'.pc = "done" /\ (job'.verdict = "accepted" => job.ok)
    BY <2>1, <1>a DEF Ends, IngestJob
  <2>3. job.ok => /\ env.fault \notin IngestFaults
                  /\ env.stored = "base" /\ env.created = 1 /\ env.issued = 3
    BY <2>1 DEF IngestInv, IngestJudged, RefusalsHeld, CapabilitiesHeld, WritesHeld, Used, Written,
       IngestFaults
  <2>4. env.fault \in IngestFaults \cup {"sound"}
    BY <1>a DEF IngestEnv
  <2> QED
    BY <2>1, <2>2, <2>3, <2>4, <1>a DEF IngestInv, IngestTypes, IngestJudged
<1>8. CASE AnalyzerWrites
  <2>1. /\ env.stored = "none" /\ job.pc # "done" /\ job' = job
        /\ env' = [env EXCEPT !.stored = "analyzer", !.created = @ + 1]
    BY <1>8 DEF AnalyzerWrites, Live, Step
  <2>2. env.created + 1 \in Nat
    BY <1>b
  <2>3. env' \in IngestEnv
    BY <2>1, <2>2, <1>a, Zenon DEF IngestEnv
  <2>4. env'.stored = "analyzer" /\ env'.fault = env.fault /\ env'.issued = env.issued
    BY <2>1, <1>a DEF IngestEnv
  <2> QED
    BY <2>1, <2>3, <2>4, <1>a, <1>c DEF IngestInv, IngestTypes, IngestJudged, RefusalsHeld,
       CapabilitiesHeld, WritesHeld, Used, Written
<1> QED
  BY <1>1, <1>2, <1>3, <1>4, <1>5, <1>6, <1>7, <1>8 DEF IngestNext

\* The invariant contains the claim about an accepted ingest path.
LEMMA IngestSafe == IngestInv => AcceptedIngestIsIdempotent
BY DEF IngestInv, IngestJudged, AcceptedIngestIsIdempotent

-----------------------------------------------------------------------------
(* GpuRollout: the GPU host rollout. *)

RolloutEvidence ==
  [after : Commits \cup {"none"}, ledger : Commits \cup {"none"}, restarted : BOOLEAN,
   canonical : BOOLEAN, running : BOOLEAN, healthy : BOOLEAN, runtime : Commits \cup {"none"},
   socket : BOOLEAN]
RolloutEnv ==
  [head : Commits, ledger : Commits, restarted : BOOLEAN, runtime : Commits, canonical : BOOLEAN,
   fenced : BOOLEAN, ready : BOOLEAN]
FailureClasses ==
  {"none", "precheck", "task", "recovery", "updater-whatif-rejected", "updater-pin-rejected",
   "task-migration-rejected", "task-migration-readback-rejected", "updater-deploy-rejected",
   "source-rollback-failed", "controller-cleanup", "acceptance-candidate-rejected"}
Aftermath == {"finally", "settle", "health", "readiness", "socket", "emit"}
RolloutJob ==
  [pc : {"ssh", "verify", "done"},
   script : {"check", "tasks", "whatif", "pin", "migrate", "readback", "deploy", "catch", "gone"}
              \cup Aftermath,
   recover : BOOLEAN, before : Commits \cup {"none"}, required : BOOLEAN, pinned : BOOLEAN,
   pinOk : BOOLEAN, handed : BOOLEAN, deployOk : BOOLEAN, failure : FailureClasses, settled : BOOLEAN,
   ev : RolloutEvidence, sent : {"nothing", "lost", "go", "no-go"},
   verdict : {"none", "accepted", "rejected"}]

RolloutTypes == env \in RolloutEnv /\ job \in RolloutJob

(* The flag the rollback goes by says whether the source moved, from the pin
   to the handover. *)
PinIsTracked ==
  /\ job.script \in {"check", "tasks", "whatif", "pin"} => ~ job.pinOk
  /\ job.script # "check" => job.before \in Commits
  /\ job.script \in {"migrate", "readback"} => job.pinOk
  /\ job.script \in {"migrate", "readback", "catch"} /\ job.pinOk /\ ~ job.handed =>
       env.head = "target" /\ (job.pinned <=> job.before # "target")
  /\ job.script = "deploy" /\ job.pinOk => job.handed

(* Once the catch is over the source is back, or the failure class says so. *)
RolledBack ==
  (job.script \in Aftermath \/ job.sent = "no-go") /\ job.pinOk /\ ~ job.handed
    /\ job.failure # "source-rollback-failed" => env.head = job.before

(* Nothing moves the host after the updater deployed; workers come back on it. *)
DeployStands ==
  /\ job.deployOk =>
       /\ job.script \in Aftermath \cup {"gone"}
       /\ env.head = "target" /\ env.ledger = "target" /\ env.restarted
       /\ env.runtime = "target" /\ ~ env.fenced
  /\ job.script \in Aftermath \ {"finally"} => (job.ev.canonical <=> env.canonical)
  /\ job.sent = "go" => job.deployOk /\ env.canonical
  /\ job.sent \in {"go", "no-go"} => job.script = "gone"
  /\ job.verdict = "accepted" => job.sent = "go" /\ job.pc = "done"

RolloutInv == RolloutTypes /\ PinIsTracked /\ RolledBack /\ DeployStands

\* The script has done nothing and said nothing.
LEMMA RolloutStart == RolloutInit => RolloutInv
<1> SUFFICES ASSUME RolloutInit PROVE RolloutInv
  OBVIOUS
<1>1. NoEvidenceYet \in RolloutEvidence
  BY DEF NoEvidenceYet, RolloutEvidence
<1>2. PICK head \in Commits, canonical, fenced, recover \in BOOLEAN :
        /\ env = [head |-> head, ledger |-> head, restarted |-> TRUE, runtime |-> head,
                  canonical |-> canonical, fenced |-> fenced, ready |-> ~fenced]
        /\ job = [pc |-> "ssh", script |-> "check", recover |-> recover, before |-> "none",
                  required |-> FALSE, pinned |-> FALSE, pinOk |-> FALSE, handed |-> FALSE,
                  deployOk |-> FALSE, failure |-> "none", settled |-> FALSE,
                  ev |-> NoEvidenceYet, sent |-> "nothing", verdict |-> "none"]
  BY DEF RolloutInit
<1>3. env \in RolloutEnv
  BY <1>2 DEF RolloutEnv
<1>4. job \in RolloutJob
  BY <1>1, <1>2 DEF RolloutJob, FailureClasses
<1> QED
  BY <1>2, <1>3, <1>4 DEF RolloutInv, RolloutTypes, PinIsTracked, RolledBack, DeployStands, Aftermath

\* What finally reads of the host completes the evidence.
LEMMA EvidenceRead ==
  ASSUME RolloutTypes
  PROVE  LET seen == [job.ev EXCEPT !.after = env.head, !.ledger = env.ledger,
                                    !.restarted = env.restarted, !.canonical = env.canonical,
                                    !.running = ~ env.fenced]
         IN  seen \in RolloutEvidence /\ seen.canonical = env.canonical
<1>1. /\ env.head \in Commits /\ env.ledger \in Commits /\ env.restarted \in BOOLEAN
      /\ env.canonical \in BOOLEAN /\ (~ env.fenced) \in BOOLEAN /\ job.ev \in RolloutEvidence
  BY DEF RolloutTypes, RolloutEnv, RolloutJob
<1> QED
  BY <1>1 DEF RolloutEvidence

\* The invariant is kept by every step of the script, of the driver and of the
\* workers.
LEMMA RolloutStep == RolloutInv /\ RolloutNext => RolloutInv'
<1> SUFFICES ASSUME RolloutInv, RolloutNext PROVE RolloutInv'
  OBVIOUS
<1> USE DEF RolloutInv, RolloutTypes, PinIsTracked, RolledBack, DeployStands
<1>a. env \in RolloutEnv /\ job \in RolloutJob
  OBVIOUS
<1>b. /\ env.head \in Commits /\ env.runtime \in Commits /\ env.canonical \in BOOLEAN
      /\ env.ready \in BOOLEAN /\ Commits = {"before", "target"}
      /\ job.ev \in RolloutEvidence /\ job.failure \in FailureClasses /\ job.pinned \in BOOLEAN
      /\ job.before \in Commits \cup {"none"}
  BY <1>a DEF RolloutEnv, RolloutJob, Commits
<1>c. /\ \A class \in {"precheck", "task", "recovery", "updater-whatif-rejected",
                       "updater-pin-rejected", "task-migration-rejected",
                       "task-migration-readback-rejected", "updater-deploy-rejected",
                       "source-rollback-failed", "controller-cleanup",
                       "acceptance-candidate-rejected"} : class \in FailureClasses
      /\ Aftermath = {"finally", "settle", "health", "readiness", "socket", "emit"}
  BY DEF FailureClasses, Aftermath
<1>1. CASE CheckTarget
  <2>0. \/ /\ job.script = "check" /\ env' = env
           /\ job' = [[job EXCEPT !.script = "tasks"] EXCEPT !.before = env.head]
        \/ /\ job.script = "check" /\ env' = env
           /\ job' = [[job EXCEPT !.script = "catch", !.failure = "precheck"] EXCEPT !.before = env.head]
    BY <1>1 DEF CheckTarget, In, Script, Throw, Step, At
  <2>1. CASE /\ job.script = "check" /\ env' = env
             /\ job' = [[job EXCEPT !.script = "tasks"] EXCEPT !.before = env.head]
    <3>1. /\ job.script = "check" /\ env' = env
      BY <2>1
    <3>2. job' \in RolloutJob
      BY <2>1, <1>a, <1>b, <1>c DEF RolloutJob
    <3>3. /\ job'.script = "tasks" /\ job'.before = env.head /\ job'.pc = job.pc
          /\ job'.recover = job.recover /\ job'.required = job.required
          /\ job'.pinned = job.pinned /\ job'.pinOk = job.pinOk
          /\ job'.handed = job.handed /\ job'.deployOk = job.deployOk
          /\ job'.failure = job.failure /\ job'.settled = job.settled /\ job'.ev = job.ev
          /\ job'.sent = job.sent /\ job'.verdict = job.verdict
      BY <2>1, <1>a DEF RolloutJob
    <3> QED
      BY <3>1, <3>2, <3>3, <1>a, <1>b, <1>c
  <2>2. CASE /\ job.script = "check" /\ env' = env
             /\ job' = [[job EXCEPT !.script = "catch", !.failure = "precheck"] EXCEPT !.before = env.head]
    <3>1. /\ job.script = "check" /\ env' = env
      BY <2>2
    <3>2. job' \in RolloutJob
      BY <2>2, <1>a, <1>b, <1>c DEF RolloutJob
    <3>3. /\ job'.script = "catch" /\ job'.failure = "precheck" /\ job'.before = env.head
          /\ job'.pc = job.pc /\ job'.recover = job.recover
          /\ job'.required = job.required /\ job'.pinned = job.pinned
          /\ job'.pinOk = job.pinOk /\ job'.handed = job.handed
          /\ job'.deployOk = job.deployOk /\ job'.settled = job.settled
          /\ job'.ev = job.ev /\ job'.sent = job.sent /\ job'.verdict = job.verdict
      BY <2>2, <1>a DEF RolloutJob
    <3> QED
      BY <3>1, <3>2, <3>3, <1>a, <1>b, <1>c
  <2> QED
    BY <2>0, <2>1, <2>2
<1>2. CASE ReadTasks
  <2>0. \/ \E required \in BOOLEAN :
             /\ job.script = "tasks" /\ env' = env
             /\ job' = [[job EXCEPT !.script = "whatif"] EXCEPT !.required = required]
        \/ \E class \in {"task", "recovery"} :
             /\ job.script = "tasks" /\ env' = env
             /\ job' = [job EXCEPT !.script = "catch", !.failure = class]
    BY <1>2 DEF ReadTasks, In, Script, Throw, Step, At
  <2>1. CASE \E required \in BOOLEAN :
               /\ job.script = "tasks" /\ env' = env
               /\ job' = [[job EXCEPT !.script = "whatif"] EXCEPT !.required = required]
    <3>1. PICK required \in BOOLEAN :
            /\ job.script = "tasks" /\ env' = env
            /\ job' = [[job EXCEPT !.script = "whatif"] EXCEPT !.required = required]
      BY <2>1
    <3>2. /\ job.script = "tasks" /\ env' = env
      BY <3>1
    <3>3. job' \in RolloutJob
      BY <3>1, <1>a, <1>b, <1>c DEF RolloutJob
    <3>4. /\ job'.script = "whatif" /\ job'.required = required /\ job'.pc = job.pc
          /\ job'.recover = job.recover /\ job'.before = job.before
          /\ job'.pinned = job.pinned /\ job'.pinOk = job.pinOk
          /\ job'.handed = job.handed /\ job'.deployOk = job.deployOk
          /\ job'.failure = job.failure /\ job'.settled = job.settled /\ job'.ev = job.ev
          /\ job'.sent = job.sent /\ job'.verdict = job.verdict
      BY <3>1, <1>a DEF RolloutJob
    <3> QED
      BY <3>2, <3>3, <3>4, <1>a, <1>b, <1>c
  <2>2. CASE \E class \in {"task", "recovery"} :
               /\ job.script = "tasks" /\ env' = env
               /\ job' = [job EXCEPT !.script = "catch", !.failure = class]
    <3>1. PICK class \in {"task", "recovery"} :
            /\ job.script = "tasks" /\ env' = env
            /\ job' = [job EXCEPT !.script = "catch", !.failure = class]
      BY <2>2
    <3>2. /\ job.script = "tasks" /\ env' = env
      BY <3>1
    <3>3. job' \in RolloutJob
      BY <3>1, <1>a, <1>b, <1>c DEF RolloutJob
    <3>4. /\ job'.script = "catch" /\ job'.failure = class /\ job'.pc = job.pc
          /\ job'.recover = job.recover /\ job'.before = job.before
          /\ job'.required = job.required /\ job'.pinned = job.pinned
          /\ job'.pinOk = job.pinOk /\ job'.handed = job.handed
          /\ job'.deployOk = job.deployOk /\ job'.settled = job.settled
          /\ job'.ev = job.ev /\ job'.sent = job.sent /\ job'.verdict = job.verdict
      BY <3>1, <1>a DEF RolloutJob
    <3> QED
      BY <3>2, <3>3, <3>4, <1>a, <1>b, <1>c
  <2> QED
    BY <2>0, <2>1, <2>2
<1>3. CASE UpdaterWhatIf
  <2>0. \/ /\ job.script = "whatif" /\ env' = env
           /\ job' = [job EXCEPT !.script = "catch", !.failure = "updater-whatif-rejected"]
        \/ \E pc \in {"pin", "deploy"} :
             /\ job.script = "whatif" /\ env' = env /\ job' = [job EXCEPT !.script = pc]
    BY <1>3 DEF UpdaterWhatIf, In, Script, Throw, Step, At
  <2>1. CASE /\ job.script = "whatif" /\ env' = env
             /\ job' = [job EXCEPT !.script = "catch", !.failure = "updater-whatif-rejected"]
    <3>1. /\ job.script = "whatif" /\ env' = env
      BY <2>1
    <3>2. job' \in RolloutJob
      BY <2>1, <1>a, <1>b, <1>c DEF RolloutJob
    <3>3. /\ job'.script = "catch" /\ job'.failure = "updater-whatif-rejected"
          /\ job'.pc = job.pc /\ job'.recover = job.recover /\ job'.before = job.before
          /\ job'.required = job.required /\ job'.pinned = job.pinned
          /\ job'.pinOk = job.pinOk /\ job'.handed = job.handed
          /\ job'.deployOk = job.deployOk /\ job'.settled = job.settled
          /\ job'.ev = job.ev /\ job'.sent = job.sent /\ job'.verdict = job.verdict
      BY <2>1, <1>a DEF RolloutJob
    <3> QED
      BY <3>1, <3>2, <3>3, <1>a, <1>b, <1>c
  <2>2. CASE \E pc \in {"pin", "deploy"} :
               /\ job.script = "whatif" /\ env' = env /\ job' = [job EXCEPT !.script = pc]
    <3>1. PICK pc \in {"pin", "deploy"} :
            /\ job.script = "whatif" /\ env' = env /\ job' = [job EXCEPT !.script = pc]
      BY <2>2
    <3>2. /\ job.script = "whatif" /\ env' = env
      BY <3>1
    <3>3. job' \in RolloutJob
      BY <3>1, <1>a, <1>b, <1>c DEF RolloutJob
    <3>4. /\ job'.script = pc /\ job'.pc = job.pc /\ job'.recover = job.recover
          /\ job'.before = job.before /\ job'.required = job.required
          /\ job'.pinned = job.pinned /\ job'.pinOk = job.pinOk
          /\ job'.handed = job.handed /\ job'.deployOk = job.deployOk
          /\ job'.failure = job.failure /\ job'.settled = job.settled /\ job'.ev = job.ev
          /\ job'.sent = job.sent /\ job'.verdict = job.verdict
      BY <3>1, <1>a DEF RolloutJob
    <3> QED
      BY <3>2, <3>3, <3>4, <1>a, <1>b, <1>c
  <2> QED
    BY <2>0, <2>1, <2>2
<1>4. CASE PinWithoutRestart
  <2>0. \/ \E c \in {env.head, "target"} :
             /\ job.script = "pin"
             /\ env' = [env EXCEPT !.head = c, !.ledger = c, !.restarted = FALSE]
             /\ job' = [job EXCEPT !.script = "catch", !.failure = "updater-pin-rejected"]
        \/ \E pinned \in BOOLEAN :
             /\ job.script = "pin" /\ (pinned <=> job.before # "target")
             /\ env' = [env EXCEPT !.head = "target", !.ledger = "target", !.restarted = FALSE]
             /\ job' = [[job EXCEPT !.script = "migrate"] EXCEPT !.pinned = pinned, !.pinOk = TRUE]
    BY <1>4, <1>b DEF PinWithoutRestart, Pinned, Commits, In, Script, Throw, Step, At
  <2>1. CASE \E c \in {env.head, "target"} :
               /\ job.script = "pin"
               /\ env' = [env EXCEPT !.head = c, !.ledger = c, !.restarted = FALSE]
               /\ job' = [job EXCEPT !.script = "catch", !.failure = "updater-pin-rejected"]
    <3>1. PICK c \in {env.head, "target"} :
            /\ job.script = "pin"
            /\ env' = [env EXCEPT !.head = c, !.ledger = c, !.restarted = FALSE]
            /\ job' = [job EXCEPT !.script = "catch", !.failure = "updater-pin-rejected"]
      BY <2>1
    <3>2. /\ job.script = "pin"
      BY <3>1
    <3>3. env' \in RolloutEnv
      BY <3>1, <1>a, <1>b, <1>c DEF RolloutEnv
    <3>4. /\ env'.head = c /\ env'.ledger = c /\ env'.restarted = FALSE
          /\ env'.runtime = env.runtime /\ env'.canonical = env.canonical
          /\ env'.fenced = env.fenced /\ env'.ready = env.ready
      BY <3>1, <1>a DEF RolloutEnv
    <3>5. job' \in RolloutJob
      BY <3>1, <1>a, <1>b, <1>c DEF RolloutJob
    <3>6. /\ job'.script = "catch" /\ job'.failure = "updater-pin-rejected"
          /\ job'.pc = job.pc /\ job'.recover = job.recover /\ job'.before = job.before
          /\ job'.required = job.required /\ job'.pinned = job.pinned
          /\ job'.pinOk = job.pinOk /\ job'.handed = job.handed
          /\ job'.deployOk = job.deployOk /\ job'.settled = job.settled
          /\ job'.ev = job.ev /\ job'.sent = job.sent /\ job'.verdict = job.verdict
      BY <3>1, <1>a DEF RolloutJob
    <3> QED
      BY <3>2, <3>3, <3>4, <3>5, <3>6, <1>a, <1>b, <1>c
  <2>2. CASE \E pinned \in BOOLEAN :
               /\ job.script = "pin" /\ (pinned <=> job.before # "target")
               /\ env' = [env EXCEPT !.head = "target", !.ledger = "target", !.restarted = FALSE]
               /\ job' = [[job EXCEPT !.script = "migrate"] EXCEPT !.pinned = pinned, !.pinOk = TRUE]
    <3>1. PICK pinned \in BOOLEAN :
            /\ job.script = "pin" /\ (pinned <=> job.before # "target")
            /\ env' = [env EXCEPT !.head = "target", !.ledger = "target", !.restarted = FALSE]
            /\ job' = [[job EXCEPT !.script = "migrate"] EXCEPT !.pinned = pinned, !.pinOk = TRUE]
      BY <2>2
    <3>2. /\ job.script = "pin" /\ (pinned <=> job.before # "target")
      BY <3>1
    <3>3. env' \in RolloutEnv
      BY <3>1, <1>a, <1>b, <1>c DEF RolloutEnv
    <3>4. /\ env'.head = "target" /\ env'.ledger = "target" /\ env'.restarted = FALSE
          /\ env'.runtime = env.runtime /\ env'.canonical = env.canonical
          /\ env'.fenced = env.fenced /\ env'.ready = env.ready
      BY <3>1, <1>a DEF RolloutEnv
    <3>5. job' \in RolloutJob
      BY <3>1, <1>a, <1>b, <1>c, ZenonT(60) DEF RolloutJob
    <3>6. /\ job'.script = "migrate" /\ job'.pinned = pinned /\ job'.pinOk = TRUE
          /\ job'.pc = job.pc /\ job'.recover = job.recover /\ job'.before = job.before
          /\ job'.required = job.required /\ job'.handed = job.handed
          /\ job'.deployOk = job.deployOk /\ job'.failure = job.failure
          /\ job'.settled = job.settled /\ job'.ev = job.ev /\ job'.sent = job.sent
          /\ job'.verdict = job.verdict
      BY <3>1, <1>a DEF RolloutJob
    <3>7. RolloutTypes'
      BY <3>2, <3>3, <3>4, <3>5, <3>6, <1>a, <1>b, <1>c
    <3>8. PinIsTracked'
      BY <3>2, <3>3, <3>4, <3>5, <3>6, <1>a, <1>b, <1>c
    <3>9. RolledBack'
      BY <3>2, <3>3, <3>4, <3>5, <3>6, <1>a, <1>b, <1>c
    <3>10. DeployStands'
      BY <3>2, <3>3, <3>4, <3>5, <3>6, <1>a, <1>b, <1>c
    <3> QED
      BY <3>7, <3>8, <3>9, <3>10
  <2> QED
    BY <2>0, <2>1, <2>2
<1>5. CASE MigrateTasks
  <2>0. \/ \E done \in {env.canonical, TRUE} :
             /\ job.script = "migrate" /\ env' = [env EXCEPT !.canonical = done]
             /\ job' = [job EXCEPT !.script = "catch", !.failure = "task-migration-rejected"]
        \/ /\ job.script = "migrate" /\ env' = [env EXCEPT !.canonical = TRUE]
           /\ job' = [job EXCEPT !.script = "readback"]
    BY <1>5, <1>b DEF MigrateTasks, Migrated, In, Script, Throw, Step, At
  <2>1. CASE \E done \in {env.canonical, TRUE} :
               /\ job.script = "migrate" /\ env' = [env EXCEPT !.canonical = done]
               /\ job' = [job EXCEPT !.script = "catch", !.failure = "task-migration-rejected"]
    <3>1. PICK done \in {env.canonical, TRUE} :
            /\ job.script = "migrate" /\ env' = [env EXCEPT !.canonical = done]
            /\ job' = [job EXCEPT !.script = "catch", !.failure = "task-migration-rejected"]
      BY <2>1
    <3>2. /\ job.script = "migrate"
      BY <3>1
    <3>3. env' \in RolloutEnv
      BY <3>1, <1>a, <1>b, <1>c DEF RolloutEnv
    <3>4. /\ env'.canonical = done /\ env'.head = env.head /\ env'.ledger = env.ledger
          /\ env'.restarted = env.restarted /\ env'.runtime = env.runtime
          /\ env'.fenced = env.fenced /\ env'.ready = env.ready
      BY <3>1, <1>a DEF RolloutEnv
    <3>5. job' \in RolloutJob
      BY <3>1, <1>a, <1>b, <1>c DEF RolloutJob
    <3>6. /\ job'.script = "catch" /\ job'.failure = "task-migration-rejected"
          /\ job'.pc = job.pc /\ job'.recover = job.recover /\ job'.before = job.before
          /\ job'.required = job.required /\ job'.pinned = job.pinned
          /\ job'.pinOk = job.pinOk /\ job'.handed = job.handed
          /\ job'.deployOk = job.deployOk /\ job'.settled = job.settled
          /\ job'.ev = job.ev /\ job'.sent = job.sent /\ job'.verdict = job.verdict
      BY <3>1, <1>a DEF RolloutJob
    <3> QED
      BY <3>2, <3>3, <3>4, <3>5, <3>6, <1>a, <1>b, <1>c
  <2>2. CASE /\ job.script = "migrate" /\ env' = [env EXCEPT !.canonical = TRUE]
             /\ job' = [job EXCEPT !.script = "readback"]
    <3>1. /\ job.script = "migrate"
      BY <2>2
    <3>2. env' \in RolloutEnv
      BY <2>2, <1>a, <1>b, <1>c DEF RolloutEnv
    <3>3. /\ env'.canonical = TRUE /\ env'.head = env.head /\ env'.ledger = env.ledger
          /\ env'.restarted = env.restarted /\ env'.runtime = env.runtime
          /\ env'.fenced = env.fenced /\ env'.ready = env.ready
      BY <2>2, <1>a DEF RolloutEnv
    <3>4. job' \in RolloutJob
      BY <2>2, <1>a, <1>b, <1>c DEF RolloutJob
    <3>5. /\ job'.script = "readback" /\ job'.pc = job.pc /\ job'.recover = job.recover
          /\ job'.before = job.before /\ job'.required = job.required
          /\ job'.pinned = job.pinned /\ job'.pinOk = job.pinOk
          /\ job'.handed = job.handed /\ job'.deployOk = job.deployOk
          /\ job'.failure = job.failure /\ job'.settled = job.settled /\ job'.ev = job.ev
          /\ job'.sent = job.sent /\ job'.verdict = job.verdict
      BY <2>2, <1>a DEF RolloutJob
    <3> QED
      BY <3>1, <3>2, <3>3, <3>4, <3>5, <1>a, <1>b, <1>c
  <2> QED
    BY <2>0, <2>1, <2>2
<1>6. CASE ReadBackTasks
  <2>0. \/ /\ job.script = "readback" /\ env' = env
           /\ job' = [job EXCEPT !.script = "catch", !.failure = "task-migration-readback-rejected"]
        \/ /\ job.script = "readback" /\ env' = env
           /\ job' = [[job EXCEPT !.script = "deploy"] EXCEPT !.pinned = FALSE, !.handed = TRUE]
    BY <1>6, <1>a DEF ReadBackTasks, Handover, In, Script, Throw, Step, At
  <2>1. CASE /\ job.script = "readback" /\ env' = env
             /\ job' = [job EXCEPT !.script = "catch", !.failure = "task-migration-readback-rejected"]
    <3>1. /\ job.script = "readback" /\ env' = env
      BY <2>1
    <3>2. job' \in RolloutJob
      BY <2>1, <1>a, <1>b, <1>c DEF RolloutJob
    <3>3. /\ job'.script = "catch" /\ job'.failure = "task-migration-readback-rejected"
          /\ job'.pc = job.pc /\ job'.recover = job.recover /\ job'.before = job.before
          /\ job'.required = job.required /\ job'.pinned = job.pinned
          /\ job'.pinOk = job.pinOk /\ job'.handed = job.handed
          /\ job'.deployOk = job.deployOk /\ job'.settled = job.settled
          /\ job'.ev = job.ev /\ job'.sent = job.sent /\ job'.verdict = job.verdict
      BY <2>1, <1>a DEF RolloutJob
    <3> QED
      BY <3>1, <3>2, <3>3, <1>a, <1>b, <1>c
  <2>2. CASE /\ job.script = "readback" /\ env' = env
             /\ job' = [[job EXCEPT !.script = "deploy"] EXCEPT !.pinned = FALSE, !.handed = TRUE]
    <3>1. /\ job.script = "readback" /\ env' = env
      BY <2>2
    <3>2. job' \in RolloutJob
      BY <2>2, <1>a, <1>b, <1>c, ZenonT(60) DEF RolloutJob
    <3>3. /\ job'.script = "deploy" /\ job'.pinned = FALSE /\ job'.handed = TRUE
          /\ job'.pc = job.pc /\ job'.recover = job.recover /\ job'.before = job.before
          /\ job'.required = job.required /\ job'.pinOk = job.pinOk
          /\ job'.deployOk = job.deployOk /\ job'.failure = job.failure
          /\ job'.settled = job.settled /\ job'.ev = job.ev /\ job'.sent = job.sent
          /\ job'.verdict = job.verdict
      BY <2>2, <1>a DEF RolloutJob
    <3> QED
      BY <3>1, <3>2, <3>3, <1>a, <1>b, <1>c
  <2> QED
    BY <2>0, <2>1, <2>2
<1>7. CASE Deploy
  <2>0. \/ /\ job.script = "deploy"
           /\ env' = [env EXCEPT !.head = "target", !.ledger = "target", !.restarted = TRUE, !.runtime = "target", !.fenced = FALSE, !.ready = FALSE]
           /\ job' = [[job EXCEPT !.script = "finally"] EXCEPT !.deployOk = TRUE]
        \/ \E c \in Commits :
             /\ job.script = "deploy"
             /\ env' = [env EXCEPT !.head = c, !.ledger = c, !.restarted = FALSE]
             /\ job' = [job EXCEPT !.script = "catch", !.failure = "updater-deploy-rejected"]
        \/ \E c \in Commits :
             /\ job.script = "deploy"
             /\ env' = [env EXCEPT !.head = c, !.ledger = c, !.restarted = TRUE, !.runtime = c, !.fenced = FALSE, !.ready = FALSE]
             /\ job' = [job EXCEPT !.script = "catch", !.failure = "updater-deploy-rejected"]
    BY <1>7 DEF Deploy, Pinned, Deployed, In, Script, Throw, Step, At
  <2>1. CASE /\ job.script = "deploy"
             /\ env' = [env EXCEPT !.head = "target", !.ledger = "target", !.restarted = TRUE, !.runtime = "target", !.fenced = FALSE, !.ready = FALSE]
             /\ job' = [[job EXCEPT !.script = "finally"] EXCEPT !.deployOk = TRUE]
    <3>1. /\ job.script = "deploy"
      BY <2>1
    <3>2. env' \in RolloutEnv
      BY <2>1, <1>a, <1>b, <1>c DEF RolloutEnv
    <3>3. /\ env'.head = "target" /\ env'.ledger = "target" /\ env'.restarted = TRUE
          /\ env'.runtime = "target" /\ env'.fenced = FALSE /\ env'.ready = FALSE
          /\ env'.canonical = env.canonical
      BY <2>1, <1>a DEF RolloutEnv
    <3>4. job' \in RolloutJob
      BY <2>1, <1>a, <1>b, <1>c DEF RolloutJob
    <3>5. /\ job'.script = "finally" /\ job'.deployOk = TRUE /\ job'.pc = job.pc
          /\ job'.recover = job.recover /\ job'.before = job.before
          /\ job'.required = job.required /\ job'.pinned = job.pinned
          /\ job'.pinOk = job.pinOk /\ job'.handed = job.handed
          /\ job'.failure = job.failure /\ job'.settled = job.settled /\ job'.ev = job.ev
          /\ job'.sent = job.sent /\ job'.verdict = job.verdict
      BY <2>1, <1>a DEF RolloutJob
    <3> QED
      BY <3>1, <3>2, <3>3, <3>4, <3>5, <1>a, <1>b, <1>c
  <2>2. CASE \E c \in Commits :
               /\ job.script = "deploy"
               /\ env' = [env EXCEPT !.head = c, !.ledger = c, !.restarted = FALSE]
               /\ job' = [job EXCEPT !.script = "catch", !.failure = "updater-deploy-rejected"]
    <3>1. PICK c \in Commits :
            /\ job.script = "deploy"
            /\ env' = [env EXCEPT !.head = c, !.ledger = c, !.restarted = FALSE]
            /\ job' = [job EXCEPT !.script = "catch", !.failure = "updater-deploy-rejected"]
      BY <2>2
    <3>2. /\ job.script = "deploy"
      BY <3>1
    <3>3. env' \in RolloutEnv
      BY <3>1, <1>a, <1>b, <1>c DEF RolloutEnv
    <3>4. /\ env'.head = c /\ env'.ledger = c /\ env'.restarted = FALSE
          /\ env'.runtime = env.runtime /\ env'.canonical = env.canonical
          /\ env'.fenced = env.fenced /\ env'.ready = env.ready
      BY <3>1, <1>a DEF RolloutEnv
    <3>5. job' \in RolloutJob
      BY <3>1, <1>a, <1>b, <1>c DEF RolloutJob
    <3>6. /\ job'.script = "catch" /\ job'.failure = "updater-deploy-rejected"
          /\ job'.pc = job.pc /\ job'.recover = job.recover /\ job'.before = job.before
          /\ job'.required = job.required /\ job'.pinned = job.pinned
          /\ job'.pinOk = job.pinOk /\ job'.handed = job.handed
          /\ job'.deployOk = job.deployOk /\ job'.settled = job.settled
          /\ job'.ev = job.ev /\ job'.sent = job.sent /\ job'.verdict = job.verdict
      BY <3>1, <1>a DEF RolloutJob
    <3> QED
      BY <3>2, <3>3, <3>4, <3>5, <3>6, <1>a, <1>b, <1>c
  <2>3. CASE \E c \in Commits :
               /\ job.script = "deploy"
               /\ env' = [env EXCEPT !.head = c, !.ledger = c, !.restarted = TRUE, !.runtime = c, !.fenced = FALSE, !.ready = FALSE]
               /\ job' = [job EXCEPT !.script = "catch", !.failure = "updater-deploy-rejected"]
    <3>1. PICK c \in Commits :
            /\ job.script = "deploy"
            /\ env' = [env EXCEPT !.head = c, !.ledger = c, !.restarted = TRUE, !.runtime = c, !.fenced = FALSE, !.ready = FALSE]
            /\ job' = [job EXCEPT !.script = "catch", !.failure = "updater-deploy-rejected"]
      BY <2>3
    <3>2. /\ job.script = "deploy"
      BY <3>1
    <3>3. env' \in RolloutEnv
      BY <3>1, <1>a, <1>b, <1>c DEF RolloutEnv
    <3>4. /\ env'.head = c /\ env'.ledger = c /\ env'.restarted = TRUE /\ env'.runtime = c
          /\ env'.fenced = FALSE /\ env'.ready = FALSE /\ env'.canonical = env.canonical
      BY <3>1, <1>a DEF RolloutEnv
    <3>5. job' \in RolloutJob
      BY <3>1, <1>a, <1>b, <1>c DEF RolloutJob
    <3>6. /\ job'.script = "catch" /\ job'.failure = "updater-deploy-rejected"
          /\ job'.pc = job.pc /\ job'.recover = job.recover /\ job'.before = job.before
          /\ job'.required = job.required /\ job'.pinned = job.pinned
          /\ job'.pinOk = job.pinOk /\ job'.handed = job.handed
          /\ job'.deployOk = job.deployOk /\ job'.settled = job.settled
          /\ job'.ev = job.ev /\ job'.sent = job.sent /\ job'.verdict = job.verdict
      BY <3>1, <1>a DEF RolloutJob
    <3> QED
      BY <3>2, <3>3, <3>4, <3>5, <3>6, <1>a, <1>b, <1>c
  <2> QED
    BY <2>0, <2>1, <2>2, <2>3
<1>8. CASE Catch
  <2>0. \/ /\ job.script = "catch" /\ ~ job.pinned /\ env' = env
           /\ job' = [job EXCEPT !.script = "finally", !.failure = job.failure]
        \/ /\ job.script = "catch" /\ job.pinned
           /\ env' = [env EXCEPT !.head = "before", !.ledger = "before", !.restarted = FALSE]
           /\ job' = [job EXCEPT !.script = "finally", !.failure = job.failure]
        \/ \E c \in Commits :
             /\ job.script = "catch"
             /\ env' = [env EXCEPT !.head = c, !.ledger = c, !.restarted = FALSE]
             /\ job' = [job EXCEPT !.script = "finally", !.failure = "source-rollback-failed"]
        \/ \E c \in Commits :
             /\ job.script = "catch"
             /\ env' = [env EXCEPT !.head = c, !.ledger = c, !.restarted = FALSE]
             /\ job' = [job EXCEPT !.script = "gone"]
    BY <1>8 DEF Catch, Pinned, Mended, In, Script, Throw, Step, At
  <2>1. CASE /\ job.script = "catch" /\ ~ job.pinned /\ env' = env
             /\ job' = [job EXCEPT !.script = "finally", !.failure = job.failure]
    <3>1. /\ job.script = "catch" /\ ~ job.pinned /\ env' = env
      BY <2>1
    <3>2. job' \in RolloutJob
      BY <2>1, <1>a, <1>b, <1>c DEF RolloutJob
    <3>3. /\ job'.script = "finally" /\ job'.failure = job.failure /\ job'.pc = job.pc
          /\ job'.recover = job.recover /\ job'.before = job.before
          /\ job'.required = job.required /\ job'.pinned = job.pinned
          /\ job'.pinOk = job.pinOk /\ job'.handed = job.handed
          /\ job'.deployOk = job.deployOk /\ job'.settled = job.settled
          /\ job'.ev = job.ev /\ job'.sent = job.sent /\ job'.verdict = job.verdict
      BY <2>1, <1>a DEF RolloutJob
    <3> QED
      BY <3>1, <3>2, <3>3, <1>a, <1>b, <1>c
  <2>2. CASE /\ job.script = "catch" /\ job.pinned
             /\ env' = [env EXCEPT !.head = "before", !.ledger = "before", !.restarted = FALSE]
             /\ job' = [job EXCEPT !.script = "finally", !.failure = job.failure]
    <3>1. /\ job.script = "catch" /\ job.pinned
      BY <2>2
    <3>2. env' \in RolloutEnv
      BY <2>2, <1>a, <1>b, <1>c DEF RolloutEnv
    <3>3. /\ env'.head = "before" /\ env'.ledger = "before" /\ env'.restarted = FALSE
          /\ env'.runtime = env.runtime /\ env'.canonical = env.canonical
          /\ env'.fenced = env.fenced /\ env'.ready = env.ready
      BY <2>2, <1>a DEF RolloutEnv
    <3>4. job' \in RolloutJob
      BY <2>2, <1>a, <1>b, <1>c DEF RolloutJob
    <3>5. /\ job'.script = "finally" /\ job'.failure = job.failure /\ job'.pc = job.pc
          /\ job'.recover = job.recover /\ job'.before = job.before
          /\ job'.required = job.required /\ job'.pinned = job.pinned
          /\ job'.pinOk = job.pinOk /\ job'.handed = job.handed
          /\ job'.deployOk = job.deployOk /\ job'.settled = job.settled
          /\ job'.ev = job.ev /\ job'.sent = job.sent /\ job'.verdict = job.verdict
      BY <2>2, <1>a DEF RolloutJob
    <3>6. RolloutTypes'
      BY <3>1, <3>2, <3>3, <3>4, <3>5, <1>a, <1>b, <1>c
    <3>7. PinIsTracked'
      BY <3>1, <3>2, <3>3, <3>4, <3>5, <1>a, <1>b, <1>c
    <3>8. RolledBack'
      BY <3>1, <3>2, <3>3, <3>4, <3>5, <1>a, <1>b, <1>c
    <3>9. DeployStands'
      BY <3>1, <3>2, <3>3, <3>4, <3>5, <1>a, <1>b, <1>c
    <3> QED
      BY <3>6, <3>7, <3>8, <3>9
  <2>3. CASE \E c \in Commits :
               /\ job.script = "catch"
               /\ env' = [env EXCEPT !.head = c, !.ledger = c, !.restarted = FALSE]
               /\ job' = [job EXCEPT !.script = "finally", !.failure = "source-rollback-failed"]
    <3>1. PICK c \in Commits :
            /\ job.script = "catch"
            /\ env' = [env EXCEPT !.head = c, !.ledger = c, !.restarted = FALSE]
            /\ job' = [job EXCEPT !.script = "finally", !.failure = "source-rollback-failed"]
      BY <2>3
    <3>2. /\ job.script = "catch"
      BY <3>1
    <3>3. env' \in RolloutEnv
      BY <3>1, <1>a, <1>b, <1>c DEF RolloutEnv
    <3>4. /\ env'.head = c /\ env'.ledger = c /\ env'.restarted = FALSE
          /\ env'.runtime = env.runtime /\ env'.canonical = env.canonical
          /\ env'.fenced = env.fenced /\ env'.ready = env.ready
      BY <3>1, <1>a DEF RolloutEnv
    <3>5. job' \in RolloutJob
      BY <3>1, <1>a, <1>b, <1>c DEF RolloutJob
    <3>6. /\ job'.script = "finally" /\ job'.failure = "source-rollback-failed"
          /\ job'.pc = job.pc /\ job'.recover = job.recover /\ job'.before = job.before
          /\ job'.required = job.required /\ job'.pinned = job.pinned
          /\ job'.pinOk = job.pinOk /\ job'.handed = job.handed
          /\ job'.deployOk = job.deployOk /\ job'.settled = job.settled
          /\ job'.ev = job.ev /\ job'.sent = job.sent /\ job'.verdict = job.verdict
      BY <3>1, <1>a DEF RolloutJob
    <3> QED
      BY <3>2, <3>3, <3>4, <3>5, <3>6, <1>a, <1>b, <1>c
  <2>4. CASE \E c \in Commits :
               /\ job.script = "catch"
               /\ env' = [env EXCEPT !.head = c, !.ledger = c, !.restarted = FALSE]
               /\ job' = [job EXCEPT !.script = "gone"]
    <3>1. PICK c \in Commits :
            /\ job.script = "catch"
            /\ env' = [env EXCEPT !.head = c, !.ledger = c, !.restarted = FALSE]
            /\ job' = [job EXCEPT !.script = "gone"]
      BY <2>4
    <3>2. /\ job.script = "catch"
      BY <3>1
    <3>3. env' \in RolloutEnv
      BY <3>1, <1>a, <1>b, <1>c DEF RolloutEnv
    <3>4. /\ env'.head = c /\ env'.ledger = c /\ env'.restarted = FALSE
          /\ env'.runtime = env.runtime /\ env'.canonical = env.canonical
          /\ env'.fenced = env.fenced /\ env'.ready = env.ready
      BY <3>1, <1>a DEF RolloutEnv
    <3>5. job' \in RolloutJob
      BY <3>1, <1>a, <1>b, <1>c DEF RolloutJob
    <3>6. /\ job'.script = "gone" /\ job'.pc = job.pc /\ job'.recover = job.recover
          /\ job'.before = job.before /\ job'.required = job.required
          /\ job'.pinned = job.pinned /\ job'.pinOk = job.pinOk
          /\ job'.handed = job.handed /\ job'.deployOk = job.deployOk
          /\ job'.failure = job.failure /\ job'.settled = job.settled /\ job'.ev = job.ev
          /\ job'.sent = job.sent /\ job'.verdict = job.verdict
      BY <3>1, <1>a DEF RolloutJob
    <3> QED
      BY <3>2, <3>3, <3>4, <3>5, <3>6, <1>a, <1>b, <1>c
  <2> QED
    BY <2>0, <2>1, <2>2, <2>3, <2>4
<1>9. CASE Finally
  <2>a. PICK removed \in BOOLEAN :
          /\ job.script = "finally" /\ env' = env
          /\ job' = [[job EXCEPT !.script = "settle"] EXCEPT
                        !.ev = [job.ev EXCEPT !.after = env.head, !.ledger = env.ledger,
                                  !.restarted = env.restarted, !.canonical = env.canonical,
                                  !.running = ~ env.fenced],
                        !.failure = IF ~ removed /\ @ = "none" THEN "controller-cleanup" ELSE @]
    BY <1>9 DEF Finally, In, Script, Step
  <2>b. PICK seen \in RolloutEvidence :
          /\ seen = [job.ev EXCEPT !.after = env.head, !.ledger = env.ledger,
                       !.restarted = env.restarted, !.canonical = env.canonical,
                       !.running = ~ env.fenced]
          /\ seen.canonical = env.canonical
    BY <1>b, EvidenceRead
  <2>c. PICK failure \in FailureClasses :
          failure = IF ~ removed /\ job.failure = "none" THEN "controller-cleanup" ELSE job.failure
    BY <1>b, <1>c
  <2>1. /\ job.script = "finally" /\ (seen.canonical <=> env.canonical)
        /\ (job.failure # "none" => failure = job.failure) /\ env' = env
        /\ job' = [[job EXCEPT !.script = "settle"] EXCEPT !.ev = seen, !.failure = failure]
    BY <1>9, <2>a, <2>b, <2>c DEF Finally, In, Script, Throw, Step, At
  <2>2. /\ job.script = "finally" /\ (seen.canonical <=> env.canonical)
        /\ (job.failure # "none" => failure = job.failure) /\ env' = env
    BY <2>1, <2>a, <2>b, <2>c
  <2>3. job' \in RolloutJob
    BY <2>1, <2>a, <2>b, <2>c, <1>a, <1>b, <1>c, ZenonT(60) DEF RolloutJob
  <2>4. /\ job'.script = "settle" /\ job'.ev = seen /\ job'.failure = failure
        /\ job'.pc = job.pc /\ job'.recover = job.recover /\ job'.before = job.before
        /\ job'.required = job.required /\ job'.pinned = job.pinned
        /\ job'.pinOk = job.pinOk /\ job'.handed = job.handed
        /\ job'.deployOk = job.deployOk /\ job'.settled = job.settled
        /\ job'.sent = job.sent /\ job'.verdict = job.verdict
    BY <2>1, <2>a, <2>b, <2>c, <1>a DEF RolloutJob
  <2>5. RolloutTypes'
    BY <2>2, <2>3, <2>4, <1>a, <1>b, <1>c
  <2>6. PinIsTracked'
    BY <2>2, <2>3, <2>4, <1>a, <1>b, <1>c
  <2>7. RolledBack'
    BY <2>2, <2>3, <2>4, <1>a, <1>b, <1>c
  <2>8. DeployStands'
    BY <2>2, <2>3, <2>4, <1>a, <1>b, <1>c
  <2> QED
    BY <2>5, <2>6, <2>7, <2>8
<1>10. CASE ReadDiagnostic
  <2>1. /\ job.script = "settle" /\ job.failure = "none" /\ env' = env
        /\ job' = [job EXCEPT !.failure = "acceptance-candidate-rejected"]
    BY <1>10 DEF ReadDiagnostic, In, Script, Throw, Step, At
  <2>2. /\ job.script = "settle" /\ job.failure = "none" /\ env' = env
    BY <2>1
  <2>3. job' \in RolloutJob
    BY <2>1, <1>a, <1>b, <1>c DEF RolloutJob
  <2>4. /\ job'.failure = "acceptance-candidate-rejected" /\ job'.pc = job.pc
        /\ job'.script = job.script /\ job'.recover = job.recover
        /\ job'.before = job.before /\ job'.required = job.required
        /\ job'.pinned = job.pinned /\ job'.pinOk = job.pinOk /\ job'.handed = job.handed
        /\ job'.deployOk = job.deployOk /\ job'.settled = job.settled /\ job'.ev = job.ev
        /\ job'.sent = job.sent /\ job'.verdict = job.verdict
    BY <2>1, <1>a DEF RolloutJob
  <2> QED
    BY <2>2, <2>3, <2>4, <1>a, <1>b, <1>c
<1>11. CASE WaitSettled
  <2>a. job.script = "settle" /\ env' = env
        /\ (\/ job' = [job EXCEPT !.script = "health"]
            \/ job' = [[job EXCEPT !.script = "health"] EXCEPT !.settled = TRUE])
    BY <1>11 DEF WaitSettled, In, Script, Step
  <2>b. [job EXCEPT !.script = "health"] = [job EXCEPT !.script = "health", !.settled = job.settled]
        /\ job.settled \in BOOLEAN
    BY <1>a DEF RolloutJob
  <2>1. PICK settled \in BOOLEAN :
          /\ job.script = "settle" /\ env' = env
          /\ job' = [job EXCEPT !.script = "health", !.settled = settled]
    BY <1>11, <2>a, <2>b DEF WaitSettled, In, Script, Throw, Step, At
  <2>2. /\ job.script = "settle" /\ env' = env
    BY <2>1, <2>a, <2>b
  <2>3. job' \in RolloutJob
    BY <2>1, <2>a, <2>b, <1>a, <1>b, <1>c DEF RolloutJob
  <2>4. /\ job'.script = "health" /\ job'.settled = settled /\ job'.pc = job.pc
        /\ job'.recover = job.recover /\ job'.before = job.before
        /\ job'.required = job.required /\ job'.pinned = job.pinned
        /\ job'.pinOk = job.pinOk /\ job'.handed = job.handed
        /\ job'.deployOk = job.deployOk /\ job'.failure = job.failure /\ job'.ev = job.ev
        /\ job'.sent = job.sent /\ job'.verdict = job.verdict
    BY <2>1, <2>a, <2>b, <1>a DEF RolloutJob
  <2> QED
    BY <2>2, <2>a, <2>b, <2>3, <2>4, <1>a, <1>b, <1>c
<1>12. CASE ReadHealth
  <2>a. PICK x \in BOOLEAN :
          /\ job.script = "health" /\ env' = env
          /\ job' = [[job EXCEPT !.script = "readiness"] EXCEPT !.ev.healthy = x]
    BY <1>12, <1>b DEF ReadHealth, In, Script, Step
  <2>b. [job.ev EXCEPT !.healthy = x] \in RolloutEvidence
        /\ [job.ev EXCEPT !.healthy = x].canonical = job.ev.canonical
    BY <1>b DEF RolloutEvidence
  <2>c. PICK seen \in RolloutEvidence : /\ seen = [job.ev EXCEPT !.healthy = x]
                                        /\ seen.canonical = job.ev.canonical
    BY <2>b
  <2>d. job' = [[job EXCEPT !.script = "readiness"] EXCEPT !.ev = seen]
    BY <2>a, <2>c, <1>a DEF RolloutJob
  <2>1. /\ job.script = "health" /\ (seen.canonical <=> job.ev.canonical) /\ env' = env
        /\ job' = [[job EXCEPT !.script = "readiness"] EXCEPT !.ev = seen]
    BY <1>12, <2>a, <2>b, <2>c, <2>d DEF ReadHealth, In, Script, Throw, Step, At
  <2>2. /\ job.script = "health" /\ (seen.canonical <=> job.ev.canonical) /\ env' = env
    BY <2>1, <2>a, <2>b, <2>c, <2>d
  <2>3. job' \in RolloutJob
    BY <2>1, <2>a, <2>b, <2>c, <2>d, <1>a, <1>b, <1>c DEF RolloutJob
  <2>4. /\ job'.script = "readiness" /\ job'.ev = seen /\ job'.pc = job.pc
        /\ job'.recover = job.recover /\ job'.before = job.before
        /\ job'.required = job.required /\ job'.pinned = job.pinned
        /\ job'.pinOk = job.pinOk /\ job'.handed = job.handed
        /\ job'.deployOk = job.deployOk /\ job'.failure = job.failure
        /\ job'.settled = job.settled /\ job'.sent = job.sent
        /\ job'.verdict = job.verdict
    BY <2>1, <2>a, <2>b, <2>c, <2>d, <1>a DEF RolloutJob
  <2>5. RolloutTypes'
    BY <2>2, <2>3, <2>4, <1>a, <1>b, <1>c
  <2>6. PinIsTracked'
    BY <2>2, <2>3, <2>4, <1>a, <1>b, <1>c
  <2>7. RolledBack'
    BY <2>2, <2>3, <2>4, <1>a, <1>b, <1>c
  <2>8. DeployStands'
    BY <2>2, <2>3, <2>4, <1>a, <1>b, <1>c
  <2> QED
    BY <2>5, <2>6, <2>7, <2>8
<1>13. CASE ReadReadiness
  <2>a. PICK x \in Commits \cup {"none"} :
          /\ job.script = "readiness" /\ env' = env
          /\ job' = [[job EXCEPT !.script = "socket"] EXCEPT !.ev.runtime = x]
    BY <1>13, <1>b DEF ReadReadiness, In, Script, Step
  <2>b. [job.ev EXCEPT !.runtime = x] \in RolloutEvidence
        /\ [job.ev EXCEPT !.runtime = x].canonical = job.ev.canonical
    BY <1>b DEF RolloutEvidence
  <2>c. PICK seen \in RolloutEvidence : /\ seen = [job.ev EXCEPT !.runtime = x]
                                        /\ seen.canonical = job.ev.canonical
    BY <2>b
  <2>d. job' = [[job EXCEPT !.script = "socket"] EXCEPT !.ev = seen]
    BY <2>a, <2>c, <1>a DEF RolloutJob
  <2>1. /\ job.script = "readiness" /\ (seen.canonical <=> job.ev.canonical) /\ env' = env
        /\ job' = [[job EXCEPT !.script = "socket"] EXCEPT !.ev = seen]
    BY <1>13, <2>a, <2>b, <2>c, <2>d DEF ReadReadiness, In, Script, Throw, Step, At
  <2>2. /\ job.script = "readiness" /\ (seen.canonical <=> job.ev.canonical) /\ env' = env
    BY <2>1, <2>a, <2>b, <2>c, <2>d
  <2>3. job' \in RolloutJob
    BY <2>1, <2>a, <2>b, <2>c, <2>d, <1>a, <1>b, <1>c DEF RolloutJob
  <2>4. /\ job'.script = "socket" /\ job'.ev = seen /\ job'.pc = job.pc
        /\ job'.recover = job.recover /\ job'.before = job.before
        /\ job'.required = job.required /\ job'.pinned = job.pinned
        /\ job'.pinOk = job.pinOk /\ job'.handed = job.handed
        /\ job'.deployOk = job.deployOk /\ job'.failure = job.failure
        /\ job'.settled = job.settled /\ job'.sent = job.sent
        /\ job'.verdict = job.verdict
    BY <2>1, <2>a, <2>b, <2>c, <2>d, <1>a DEF RolloutJob
  <2>5. RolloutTypes'
    BY <2>2, <2>3, <2>4, <1>a, <1>b, <1>c
  <2>6. PinIsTracked'
    BY <2>2, <2>3, <2>4, <1>a, <1>b, <1>c
  <2>7. RolledBack'
    BY <2>2, <2>3, <2>4, <1>a, <1>b, <1>c
  <2>8. DeployStands'
    BY <2>2, <2>3, <2>4, <1>a, <1>b, <1>c
  <2> QED
    BY <2>5, <2>6, <2>7, <2>8
<1>14. CASE TestWebSocketReady
  <2>a. PICK x \in BOOLEAN :
          /\ job.script = "socket" /\ env' = env
          /\ job' = [[job EXCEPT !.script = "emit"] EXCEPT !.ev.socket = x]
    BY <1>14, <1>b DEF TestWebSocketReady, In, Script, Step
  <2>b. [job.ev EXCEPT !.socket = x] \in RolloutEvidence
        /\ [job.ev EXCEPT !.socket = x].canonical = job.ev.canonical
    BY <1>b DEF RolloutEvidence
  <2>c. PICK seen \in RolloutEvidence : /\ seen = [job.ev EXCEPT !.socket = x]
                                        /\ seen.canonical = job.ev.canonical
    BY <2>b
  <2>d. job' = [[job EXCEPT !.script = "emit"] EXCEPT !.ev = seen]
    BY <2>a, <2>c, <1>a DEF RolloutJob
  <2>1. /\ job.script = "socket" /\ (seen.canonical <=> job.ev.canonical) /\ env' = env
        /\ job' = [[job EXCEPT !.script = "emit"] EXCEPT !.ev = seen]
    BY <1>14, <2>a, <2>b, <2>c, <2>d DEF TestWebSocketReady, In, Script, Throw, Step, At
  <2>2. /\ job.script = "socket" /\ (seen.canonical <=> job.ev.canonical) /\ env' = env
    BY <2>1, <2>a, <2>b, <2>c, <2>d
  <2>3. job' \in RolloutJob
    BY <2>1, <2>a, <2>b, <2>c, <2>d, <1>a, <1>b, <1>c DEF RolloutJob
  <2>4. /\ job'.script = "emit" /\ job'.ev = seen /\ job'.pc = job.pc
        /\ job'.recover = job.recover /\ job'.before = job.before
        /\ job'.required = job.required /\ job'.pinned = job.pinned
        /\ job'.pinOk = job.pinOk /\ job'.handed = job.handed
        /\ job'.deployOk = job.deployOk /\ job'.failure = job.failure
        /\ job'.settled = job.settled /\ job'.sent = job.sent
        /\ job'.verdict = job.verdict
    BY <2>1, <2>a, <2>b, <2>c, <2>d, <1>a DEF RolloutJob
  <2>5. RolloutTypes'
    BY <2>2, <2>3, <2>4, <1>a, <1>b, <1>c
  <2>6. PinIsTracked'
    BY <2>2, <2>3, <2>4, <1>a, <1>b, <1>c
  <2>7. RolledBack'
    BY <2>2, <2>3, <2>4, <1>a, <1>b, <1>c
  <2>8. DeployStands'
    BY <2>2, <2>3, <2>4, <1>a, <1>b, <1>c
  <2> QED
    BY <2>5, <2>6, <2>7, <2>8
<1>15. CASE EmitEvidence
  <2>1. PICK sent \in {"lost", "go", "no-go"} :
          /\ job.script = "emit" /\ (sent = "go" => job.deployOk /\ job.ev.canonical)
          /\ env' = env /\ job' = [[job EXCEPT !.script = "gone"] EXCEPT !.sent = sent]
    BY <1>15 DEF EmitEvidence, Go, SourceCommitVerified, In, Script, Throw, Step, At
  <2>2. /\ job.script = "emit" /\ (sent = "go" => job.deployOk /\ job.ev.canonical)
        /\ env' = env
    BY <2>1
  <2>3. job' \in RolloutJob
    BY <2>1, <1>a, <1>b, <1>c DEF RolloutJob
  <2>4. /\ job'.script = "gone" /\ job'.sent = sent /\ job'.pc = job.pc
        /\ job'.recover = job.recover /\ job'.before = job.before
        /\ job'.required = job.required /\ job'.pinned = job.pinned
        /\ job'.pinOk = job.pinOk /\ job'.handed = job.handed
        /\ job'.deployOk = job.deployOk /\ job'.failure = job.failure
        /\ job'.settled = job.settled /\ job'.ev = job.ev /\ job'.verdict = job.verdict
    BY <2>1, <1>a DEF RolloutJob
  <2>5. RolloutTypes'
    BY <2>2, <2>3, <2>4, <1>a, <1>b, <1>c
  <2>6. PinIsTracked'
    BY <2>2, <2>3, <2>4, <1>a, <1>b, <1>c
  <2>7. RolledBack'
    BY <2>2, <2>3, <2>4, <1>a, <1>b, <1>c
  <2>8. DeployStands'
    BY <2>2, <2>3, <2>4, <1>a, <1>b, <1>c
  <2> QED
    BY <2>5, <2>6, <2>7, <2>8
<1>16. CASE WorkerRestarts
  <2>a. PICK ready \in BOOLEAN : ready = (~ env.ready)
    OBVIOUS
  <2>b. PICK c \in Commits : c = IF env.ready THEN env.head ELSE env.runtime
    BY <1>b
  <2>1. /\ job.script # "gone" /\ c \in {env.head, env.runtime}
        /\ env' = [env EXCEPT !.ready = ready, !.runtime = c] /\ job' = job
    BY <1>16, <2>a, <2>b DEF WorkerRestarts, In, Script, Throw, Step, At
  <2>2. /\ job.script # "gone" /\ c \in {env.head, env.runtime} /\ job' = job
    BY <2>1, <2>a, <2>b
  <2>3. env' \in RolloutEnv
    BY <2>1, <2>a, <2>b, <1>a, <1>b, <1>c DEF RolloutEnv
  <2>4. /\ env'.ready = ready /\ env'.runtime = c /\ env'.head = env.head
        /\ env'.ledger = env.ledger /\ env'.restarted = env.restarted
        /\ env'.canonical = env.canonical /\ env'.fenced = env.fenced
    BY <2>1, <2>a, <2>b, <1>a DEF RolloutEnv
  <2> QED
    BY <2>2, <2>a, <2>b, <2>3, <2>4, <1>a, <1>b, <1>c
<1>17. CASE ReturnFromSsh
  <2>a. [job EXCEPT !.pc = "verify"] = [job EXCEPT !.pc = "verify", !.sent = job.sent]
    BY <1>a DEF RolloutJob
  <2>1. PICK sent \in {"lost", job.sent} :
          /\ job.pc = "ssh" /\ job.script = "gone" /\ env' = env
          /\ job' = [job EXCEPT !.pc = "verify", !.sent = sent]
    BY <1>17, <2>a DEF ReturnFromSsh, In, Script, Throw, Step, At
  <2>2. /\ job.pc = "ssh" /\ job.script = "gone" /\ env' = env
    BY <2>1, <2>a
  <2>3. job' \in RolloutJob
    BY <2>1, <2>a, <1>a, <1>b, <1>c DEF RolloutJob
  <2>4. /\ job'.pc = "verify" /\ job'.sent = sent /\ job'.script = job.script
        /\ job'.recover = job.recover /\ job'.before = job.before
        /\ job'.required = job.required /\ job'.pinned = job.pinned
        /\ job'.pinOk = job.pinOk /\ job'.handed = job.handed
        /\ job'.deployOk = job.deployOk /\ job'.failure = job.failure
        /\ job'.settled = job.settled /\ job'.ev = job.ev /\ job'.verdict = job.verdict
    BY <2>1, <2>a, <1>a DEF RolloutJob
  <2> QED
    BY <2>2, <2>a, <2>3, <2>4, <1>a, <1>b, <1>c
<1>18. CASE SshTimesOut
  <2>1. /\ job.pc = "ssh" /\ env' = env
        /\ job' = [job EXCEPT !.pc = "verify", !.sent = "lost"]
    BY <1>18 DEF SshTimesOut, In, Script, Throw, Step, At
  <2>2. /\ job.pc = "ssh" /\ env' = env
    BY <2>1
  <2>3. job' \in RolloutJob
    BY <2>1, <1>a, <1>b, <1>c DEF RolloutJob
  <2>4. /\ job'.pc = "verify" /\ job'.sent = "lost" /\ job'.script = job.script
        /\ job'.recover = job.recover /\ job'.before = job.before
        /\ job'.required = job.required /\ job'.pinned = job.pinned
        /\ job'.pinOk = job.pinOk /\ job'.handed = job.handed
        /\ job'.deployOk = job.deployOk /\ job'.failure = job.failure
        /\ job'.settled = job.settled /\ job'.ev = job.ev /\ job'.verdict = job.verdict
    BY <2>1, <1>a DEF RolloutJob
  <2> QED
    BY <2>2, <2>3, <2>4, <1>a, <1>b, <1>c
<1>19. CASE VerifyRollout
  <2>1. PICK v \in {"accepted", "rejected"} :
          /\ job.pc = "verify" /\ (v = "accepted" => job.sent = "go") /\ env' = env
          /\ job' = [job EXCEPT !.pc = "done", !.verdict = v]
    BY <1>19 DEF VerifyRollout, Ends, Verified, In, Script, Throw, Step, At
  <2>2. /\ job.pc = "verify" /\ (v = "accepted" => job.sent = "go") /\ env' = env
    BY <2>1
  <2>3. job' \in RolloutJob
    BY <2>1, <1>a, <1>b, <1>c DEF RolloutJob
  <2>4. /\ job'.pc = "done" /\ job'.verdict = v /\ job'.script = job.script
        /\ job'.recover = job.recover /\ job'.before = job.before
        /\ job'.required = job.required /\ job'.pinned = job.pinned
        /\ job'.pinOk = job.pinOk /\ job'.handed = job.handed
        /\ job'.deployOk = job.deployOk /\ job'.failure = job.failure
        /\ job'.settled = job.settled /\ job'.ev = job.ev /\ job'.sent = job.sent
    BY <2>1, <1>a DEF RolloutJob
  <2>5. RolloutTypes'
    BY <2>2, <2>3, <2>4, <1>a, <1>b, <1>c
  <2>6. PinIsTracked'
    BY <2>2, <2>3, <2>4, <1>a, <1>b, <1>c
  <2>7. RolledBack'
    BY <2>2, <2>3, <2>4, <1>a, <1>b, <1>c
  <2>8. DeployStands'
    BY <2>2, <2>3, <2>4, <1>a, <1>b, <1>c
  <2> QED
    BY <2>5, <2>6, <2>7, <2>8
<1> QED
  BY <1>1, <1>2, <1>3, <1>4, <1>5, <1>6, <1>7, <1>8, <1>9, <1>10, <1>11, <1>12, <1>13, <1>14, <1>15, <1>16, <1>17, <1>18, <1>19 DEF RolloutNext

\* The invariant gives the verdict's truth.
LEMMA RolloutSafe == RolloutInv => RolloutVerdictIsTrue
  BY DEF RolloutInv, RolledBack, DeployStands, RolloutVerdictIsTrue

-----------------------------------------------------------------------------
(* WgMasqProbe: the masquerade probe of the WireGuard path. *)

Readings == Nat \cup {Absent}
MasqEnv ==
  [defect : MasqDefects \cup {"sound"}, rule : BOOLEAN, counter : Nat, viaRule : BOOLEAN,
   pod : BOOLEAN, changes : Nat, window : BOOLEAN, carried : Nat]
MasqJob ==
  [pc : {"facts", "select", "before", "probe", "host", "verify", "done"}, failed : BOOLEAN,
   podValid : BOOLEAN, before : Readings, ruleBefore : BOOLEAN, tries : Nat, connected : Nat,
   after : Readings, verdict : {"none", "accepted", "rejected"}]

MasqTypes == env \in MasqEnv /\ job \in MasqJob

(* The window is open from one read of the counter to the other.  In it the
   counter has no more than it had and what the rule carried: less, when the
   rule was installed anew. *)
CounterInWindow ==
  /\ env.window <=> job.pc = "probe"
  /\ job.pc = "probe" /\ job.before # Absent => env.counter <= job.before + env.carried

(* What the checks that only the collector makes have ruled out. *)
CollectedSound ==
  /\ ~ job.failed /\ job.pc # "facts" => ~ Is("chain-check-fails")
  /\ job.podValid => ~ Is("two-pods") /\ ~ Is("pod-off-node")
  /\ ~ job.failed /\ job.pc \in {"verify", "done"} => ~ Is("no-exec-stop")
  /\ ~ job.failed /\ job.pc \in {"host", "verify"} => env.carried >= Attempts

MasqJudged ==
  job.verdict = "accepted" =>
    /\ job.pc = "done" /\ env.defect = "sound"
    /\ job.connected = Attempts /\ env.carried >= Attempts

MasqInv == MasqTypes /\ CounterInWindow /\ CollectedSound /\ MasqJudged

\* A new collector has read nothing and its window is closed.
LEMMA MasqStart == MasqInit => MasqInv
BY DEF MasqInit, MasqInv, MasqTypes, MasqEnv, MasqJob, Readings, CounterInWindow, CollectedSound,
       MasqJudged, Is

\* A failed check is remembered and the collection goes on.
LEMMA CollectsKeeps ==
  ASSUME MasqTypes, NEW next \in {"select", "before", "host", "verify"}, NEW passed, NEW q,
         q = Collects(next, passed)
  PROVE  /\ q \in MasqJob /\ q.pc = next /\ (~ q.failed => ~ job.failed /\ passed)
         /\ q.podValid = job.podValid /\ q.before = job.before /\ q.verdict = job.verdict
         /\ q.connected = job.connected
<1>1. PICK failed \in BOOLEAN : failed = (job.failed \/ ~ passed)
  OBVIOUS
<1>2. q = [job EXCEPT !.pc = next, !.failed = failed]
  BY <1>1 DEF Collects
<1>3. job \in MasqJob
  BY DEF MasqTypes
<1> QED
  BY <1>1, <1>2, <1>3 DEF MasqJob

\* A packet over the rule moves the counter, and the window's count with it.
LEMMA CarriedKeeps ==
  ASSUME NEW e \in MasqEnv, NEW q, q = Carried(e)
  PROVE  /\ q \in MasqEnv /\ q.defect = e.defect /\ q.window = e.window
         /\ q.counter \in Nat /\ q.carried \in Nat /\ q.changes = e.changes
         /\ \/ q.counter = e.counter /\ q.carried = e.carried
            \/ q.counter = e.counter + 1 /\ q.carried = IF e.window THEN e.carried + 1 ELSE e.carried
<1>1. e.counter \in Nat /\ e.carried \in Nat
  BY DEF MasqEnv
<1>2. CASE e.rule /\ e.counter < MaxCounter
  <2>1. PICK counter \in Nat, carried \in Nat :
          /\ counter = e.counter + 1
          /\ carried = IF e.window THEN e.carried + 1 ELSE e.carried
    BY <1>1
  <2>2. q = [e EXCEPT !.counter = counter, !.carried = carried]
    BY <1>2, <2>1 DEF Carried
  <2> QED
    BY <2>1, <2>2 DEF MasqEnv
<1>3. CASE ~ (e.rule /\ e.counter < MaxCounter)
  BY <1>1, <1>3 DEF Carried
<1> QED
  BY <1>2, <1>3

\* Every step of the collector, the verifier and the host keeps the invariant.
LEMMA MasqStep == MasqInv /\ MasqNext => MasqInv'
<1> SUFFICES ASSUME MasqInv, MasqNext PROVE MasqInv'
  OBVIOUS
<1> USE DEF MasqInv, MasqTypes, CounterInWindow, CollectedSound, MasqJudged, Is
<1>a. env \in MasqEnv /\ job \in MasqJob
  OBVIOUS
<1>b. /\ env.counter \in Nat /\ env.carried \in Nat /\ env.changes \in Nat
      /\ job.before \in Readings /\ job.tries \in Nat /\ job.connected \in Nat
  BY <1>a DEF MasqEnv, MasqJob
<1>1. CASE CollectFacts
  <2>1. PICK passed : /\ env' = env /\ job.pc = "facts" /\ job' = Collects("select", passed)
                      /\ passed => HostOwnedChain
    BY <1>1 DEF CollectFacts, Step, At
  <2>2. /\ job' \in MasqJob /\ job'.pc = "select" /\ (~ job'.failed => ~ job.failed /\ passed)
        /\ job'.podValid = job.podValid /\ job'.before = job.before /\ job'.verdict = job.verdict
        /\ job'.connected = job.connected
    BY <2>1, CollectsKeeps
  <2> QED
    BY <2>1, <2>2, <1>a DEF HostOwnedChain
<1>2. CASE SelectProbePod
  <2>1. PICK valid \in BOOLEAN : valid = (env.pod /\ ~Is("two-pods") /\ ~Is("pod-off-node"))
    OBVIOUS
  <2>2. PICK q : q = Collects("before", valid)
    OBVIOUS
  <2>3. /\ env' = env /\ job.pc = "select" /\ job' = [q EXCEPT !.podValid = valid]
    BY <1>2, <2>1, <2>2 DEF SelectProbePod, Step, At
  <2>4. /\ q \in MasqJob /\ q.pc = "before" /\ (~ q.failed => ~ job.failed /\ valid)
        /\ q.verdict = job.verdict
    BY <2>2, CollectsKeeps
  <2>5. /\ job' \in MasqJob /\ job'.pc = "before" /\ job'.failed = q.failed
        /\ job'.podValid = valid /\ job'.verdict = job.verdict
    BY <2>3, <2>4 DEF MasqJob
  <2> QED
    BY <2>1, <2>3, <2>4, <2>5, <1>a
<1>3. CASE ReadBefore
  <2>1. PICK before \in Readings, ruleBefore \in BOOLEAN :
          /\ job.pc = "before" /\ env' = [env EXCEPT !.window = TRUE, !.carried = 0]
          /\ job' = [job EXCEPT !.pc = "probe", !.ruleBefore = ruleBefore, !.before = before]
          /\ before # Absent => before = env.counter
    BY <1>3, <1>a, <1>b DEF ReadBefore, Step, At, ReadRule, MasqEnv, Readings
  <2>2. env' \in MasqEnv
    BY <2>1, <1>a DEF MasqEnv
  <2>3. /\ env'.window = TRUE /\ env'.carried = 0 /\ env'.counter = env.counter
        /\ env'.defect = env.defect
    BY <2>1, <1>a DEF MasqEnv
  <2>4. job' \in MasqJob
    BY <2>1, <1>a, Zenon DEF MasqJob
  <2>5. /\ job'.pc = "probe" /\ job'.before = before /\ job'.failed = job.failed
        /\ job'.podValid = job.podValid /\ job'.verdict = job.verdict
    BY <2>1, <1>a DEF MasqJob
  <2> QED
    BY <2>1, <2>2, <2>3, <2>4, <2>5, <1>b
<1>4. CASE Probe
  <2>1. PICK connected \in {job.connected, job.connected + 1} :
          job' = [job EXCEPT !.tries = @ + 1, !.connected = connected]
    <3>2. CASE job' = [job EXCEPT !.tries = @ + 1, !.connected = @ + 1]
      BY <3>2
    <3>3. CASE job' = [job EXCEPT !.tries = @ + 1]
      <4>1. job' = [job EXCEPT !.tries = @ + 1, !.connected = job.connected]
        BY <3>3, <1>a DEF MasqJob
      <4> QED
        BY <4>1
    <3> QED
      BY <1>4, <3>2, <3>3 DEF Probe, Step
  <2>2. job.pc = "probe" /\ (env' = env \/ env' = Carried(env))
    BY <1>4 DEF Probe, Step, At
  <2>3. job.tries + 1 \in Nat /\ connected \in Nat
    BY <2>1, <1>b
  <2>4. job' \in MasqJob
    BY <2>1, <2>3, <1>a, Zenon DEF MasqJob
  <2>5. /\ job'.pc = "probe" /\ job'.before = job.before /\ job'.failed = job.failed
        /\ job'.podValid = job.podValid /\ job'.verdict = job.verdict
    BY <2>1, <2>2, <1>a DEF MasqJob
  <2>6. /\ env' \in MasqEnv /\ env'.defect = env.defect /\ env'.window = env.window
        /\ env'.counter \in Nat /\ env'.carried \in Nat
        /\ \/ env'.counter = env.counter /\ env'.carried = env.carried
           \/ env'.counter = env.counter + 1 /\ env'.carried = env.carried + 1
    <3>1. CASE env' = env
      BY <3>1, <1>a, <1>b
    <3>2. CASE env' = Carried(env)
      BY <2>2, <3>2, <1>a, CarriedKeeps
    <3> QED
      BY <2>2, <3>1, <3>2
  <2>7. job.before # Absent => env'.counter <= job.before + env'.carried
    BY <2>2, <2>6, <1>b DEF Readings
  <2> QED
    BY <2>2, <2>4, <2>5, <2>6, <2>7
<1>5. CASE ReadAfter
  <2>1. PICK after \in Readings : after = IF env.rule THEN env.counter ELSE Absent
    BY <1>b DEF Readings
  <2>2. PICK passed, q :
          /\ passed = (TcpPass /\ job.ruleBefore /\ ReadRule /\ CounterPass(after))
          /\ q = Collects("host", passed)
    OBVIOUS
  <2>3. /\ job.pc = "probe" /\ env' = [env EXCEPT !.window = FALSE]
        /\ job' = [q EXCEPT !.after = after]
    BY <1>5, <2>1, <2>2 DEF ReadAfter, Step, At
  <2>4. /\ q \in MasqJob /\ q.pc = "host" /\ (~ q.failed => ~ job.failed /\ passed)
        /\ q.podValid = job.podValid /\ q.verdict = job.verdict
    BY <2>2, CollectsKeeps
  <2>5. /\ job' \in MasqJob /\ job'.pc = "host" /\ job'.failed = q.failed
        /\ job'.podValid = job.podValid /\ job'.verdict = job.verdict
    BY <2>3, <2>4 DEF MasqJob
  <2>6. env' \in MasqEnv /\ ~ env'.window /\ env'.carried = env.carried /\ env'.defect = env.defect
    BY <2>3, <1>a DEF MasqEnv
  <2>7. passed => env.carried >= Attempts
    <3>1. passed => /\ after # Absent /\ job.before # Absent /\ after - job.before >= Attempts
      BY <2>2 DEF CounterPass
    <3>2. passed => after = env.counter /\ job.before \in Nat
      BY <2>1, <3>1, <1>b DEF Readings
    <3> QED
      BY <2>3, <3>1, <3>2, <1>b, MasqAssumption
  <2> QED
    BY <2>3, <2>4, <2>5, <2>6, <2>7
<1>6. CASE CollectHost
  <2>1. PICK passed : /\ env' = env /\ job.pc = "host" /\ job' = Collects("verify", passed)
                      /\ passed => ~ Is("no-exec-stop")
    BY <1>6 DEF CollectHost, Step, At
  <2>2. /\ job' \in MasqJob /\ job'.pc = "verify" /\ (~ job'.failed => ~ job.failed /\ passed)
        /\ job'.podValid = job.podValid /\ job'.before = job.before /\ job'.verdict = job.verdict
        /\ job'.connected = job.connected
    BY <2>1, CollectsKeeps
  <2> QED
    BY <2>1, <2>2, <1>a
<1>7. CASE VerifyMasq
  <2>1. PICK v \in {"accepted", "rejected"} :
          /\ env' = env /\ job' = Ends(job, v) /\ job.pc = "verify"
          /\ v = "accepted" => RequiredMetadata /\ FactSemantics /\ HostSemantics /\ ProbeSemantics
    BY <1>7 DEF VerifyMasq, Step, At
  <2>2. job' \in MasqJob
    BY <2>1, <1>a DEF Ends, MasqJob
  <2>3. /\ job'.pc = "done" /\ job'.verdict = v /\ job'.failed = job.failed
        /\ job'.podValid = job.podValid /\ job'.connected = job.connected
    BY <2>1, <1>a DEF Ends, MasqJob
  <2>4. v = "accepted" => /\ ~ job.failed /\ job.podValid /\ job.connected = Attempts
                          /\ env.carried >= Attempts
    BY <2>1 DEF RequiredMetadata, ProbeSemantics, TcpPass
  <2>5. v = "accepted" => env.defect \notin MasqDefects
    BY <2>1, <2>4 DEF MasqDefects, FactSemantics, HostSemantics, ProbeSemantics, ClusterIdentity,
       EffectiveCidr, NodePodCidrs, ScriptAuthority, PeerRoute, Systemd, DriftTimer, RollbackDrill,
       HistoricalRollback, BroadNat
  <2>6. env.defect \in MasqDefects \cup {"sound"}
    BY <1>a DEF MasqEnv
  <2> QED
    BY <2>1, <2>2, <2>3, <2>4, <2>5, <2>6, <1>a
<1>8. CASE OtherTraffic
  <2>1. PICK e : /\ e = Carried(env) /\ env' = [e EXCEPT !.changes = @ + 1] /\ job' = job
                 /\ job.pc # "done"
    BY <1>8 DEF OtherTraffic, Changing, Step, Live
  <2>2. /\ e \in MasqEnv /\ e.defect = env.defect /\ e.window = env.window
        /\ e.counter \in Nat /\ e.carried \in Nat
        /\ \/ e.counter = env.counter /\ e.carried = env.carried
           \/ e.counter = env.counter + 1 /\ e.carried = IF env.window THEN env.carried + 1 ELSE env.carried
    BY <2>1, <1>a, CarriedKeeps
  <2>3. /\ env' \in MasqEnv /\ env'.defect = env.defect /\ env'.window = env.window
        /\ env'.counter = e.counter /\ env'.carried = e.carried
    BY <2>1, <2>2 DEF MasqEnv
  <2>4. job.pc = "probe" /\ job.before # Absent => env'.counter <= job.before + env'.carried
    BY <2>2, <2>3, <1>b DEF Readings
  <2> QED
    BY <2>1, <2>2, <2>3, <2>4, <1>a, <1>b, MasqAssumption
<1>9. CASE RuleDropped
  <2>1. /\ env' = [env EXCEPT !.rule = FALSE, !.counter = 0, !.changes = @ + 1] /\ job' = job
    BY <1>9 DEF RuleDropped, Step
  <2>2. env.changes + 1 \in Nat /\ 0 \in Nat
    BY <1>b
  <2>3. env' \in MasqEnv
    BY <2>1, <2>2, <1>a, Zenon DEF MasqEnv
  <2>4. /\ env'.defect = env.defect /\ env'.window = env.window /\ env'.counter = 0
        /\ env'.carried = env.carried
    BY <2>1, <1>a DEF MasqEnv
  <2>5. job.pc = "probe" /\ job.before # Absent => env'.counter <= job.before + env'.carried
    BY <2>4, <1>b DEF Readings
  <2> QED
    BY <2>1, <2>3, <2>4, <2>5, <1>a
<1>10. CASE RuleReinstalled
  <2>1. /\ env' = [env EXCEPT !.rule = TRUE] /\ job' = job
    BY <1>10 DEF RuleReinstalled, Step
  <2>2. /\ env' \in MasqEnv
        /\ env'.defect = env.defect /\ env'.window = env.window /\ env'.counter = env.counter
        /\ env'.carried = env.carried
    BY <2>1, <1>a DEF MasqEnv
  <2> QED
    BY <2>1, <2>2, <1>a
<1>11. CASE PodGone
  <2>1. /\ env' = [env EXCEPT !.pod = FALSE, !.changes = @ + 1] /\ job' = job
    BY <1>11 DEF PodGone, Step
  <2>2. env.changes + 1 \in Nat
    BY <1>b
  <2>3. env' \in MasqEnv
    BY <2>1, <2>2, <1>a, Zenon DEF MasqEnv
  <2>4. /\ env'.defect = env.defect /\ env'.window = env.window /\ env'.counter = env.counter
        /\ env'.carried = env.carried
    BY <2>1, <1>a DEF MasqEnv
  <2> QED
    BY <2>1, <2>3, <2>4, <1>a
<1> QED
  BY <1>1, <1>2, <1>3, <1>4, <1>5, <1>6, <1>7, <1>8, <1>9, <1>10, <1>11 DEF MasqNext

\* The invariant contains the claim about accepted masquerade evidence.
LEMMA MasqSafe == MasqInv => AcceptedMasqIsCarried
BY DEF MasqInv, MasqJudged, AcceptedMasqIsCarried

-----------------------------------------------------------------------------
(* AuditControls: the audit controls' snapshot. *)

Snapshots ==
  [at : Int, real : Nat, failed : SUBSET Controls, told : SUBSET Controls, maxAge : Nat,
   made : BOOLEAN]
Skews == {-BoundedSkew, BoundedSkew, Fast}
ControlsEnv ==
  [pinned : BOOLEAN, clock : Nat, skew : Skews, failing : SUBSET Controls, snap : Snapshots,
   writes : Nat, faults : Nat]
ControlsJob ==
  [pc : {"start", "ssh", "journal", "wireguard", "preflight", "verify", "done"}, now : Nat,
   started : Nat, snap : Snapshots, reached : BOOLEAN, openssh : BOOLEAN, tcp : BOOLEAN,
   staging : BOOLEAN, verdict : {"none", "accepted", "rejected"}]

ControlsTypes == env \in ControlsEnv /\ job \in ControlsJob

(* A snapshot has the host's time, and a runaway clock among its failures. *)
SnapshotTrue(s) ==
  s.made => s.at = s.real + env.skew /\ (env.skew = Fast => "time-sync" \in s.failed)

ControlsJudged ==
  job.verdict = "accepted" =>
    /\ job.pc = "done" /\ job.snap.made /\ job.snap.failed = {}
    /\ env.clock - job.snap.real <= MaxAge + BoundedSkew
    /\ job.staging /\ env.pinned

ControlsInv ==
  /\ ControlsTypes /\ SnapshotTrue(env.snap) /\ SnapshotTrue(job.snap)
  /\ job.reached => env.pinned
  /\ ControlsJudged

\* No snapshot has been written or fetched.
LEMMA ControlsStart == ControlsInit => ControlsInv
<1> SUFFICES ASSUME ControlsInit PROVE ControlsInv
  OBVIOUS
<1>1. NoSnapshot \in Snapshots /\ ~ NoSnapshot.made
  BY ControlsAssumption DEF NoSnapshot, Snapshots
<1>2. PICK skew \in Skews, pinned \in BOOLEAN :
        env = [pinned |-> pinned, clock |-> 0, skew |-> skew, failing |-> {}, snap |-> NoSnapshot,
               writes |-> 0, faults |-> 0]
  BY DEF ControlsInit, Skews
<1>3. job = [pc |-> "start", now |-> 0, started |-> 0, snap |-> NoSnapshot, reached |-> FALSE,
             openssh |-> FALSE, tcp |-> FALSE, staging |-> FALSE, verdict |-> "none"]
  BY DEF ControlsInit
<1>4. env \in ControlsEnv
  BY <1>1, <1>2 DEF ControlsEnv
<1>5. job \in ControlsJob
  BY <1>1, <1>3 DEF ControlsJob
<1> QED
  BY <1>1, <1>2, <1>3, <1>4, <1>5 DEF ControlsInv, ControlsTypes, SnapshotTrue, ControlsJudged

\* Every step of the host, the collector and the verifier keeps the invariant.
LEMMA ControlsStep == ControlsInv /\ ControlsNext => ControlsInv'
<1> SUFFICES ASSUME ControlsInv, ControlsNext PROVE ControlsInv'
  OBVIOUS
<1>a. env \in ControlsEnv /\ job \in ControlsJob
  BY DEF ControlsInv, ControlsTypes
<1>b. /\ env.clock \in Nat /\ env.writes \in Nat /\ env.faults \in Nat /\ env.skew \in Skews
      /\ env.failing \in SUBSET Controls /\ env.snap \in Snapshots /\ job.snap \in Snapshots
  BY <1>a DEF ControlsEnv, ControlsJob
<1>c. env.skew \in Int
  BY <1>b, ControlsAssumption DEF Skews
<1> USE DEF ControlsInv, ControlsTypes, SnapshotTrue, ControlsJudged
<1>1. CASE WriteSnapshot
  <2>1. PICK maxAge \in {MaxAge, MaxAge + 3}, told \in {{}, Failing} :
          /\ env' = [env EXCEPT !.writes = @ + 1,
                       !.snap = [at |-> env.clock + env.skew, real |-> env.clock,
                                 failed |-> Failing, told |-> told, maxAge |-> maxAge, made |-> TRUE]]
          /\ job' = job /\ job.pc # "done"
    BY <1>1 DEF WriteSnapshot, Step, Live
  <2>2. Failing \in SUBSET Controls /\ (env.skew = Fast => "time-sync" \in Failing)
    BY <1>b DEF Failing, Controls
  <2>3. PICK snap : snap = [at |-> env.clock + env.skew, real |-> env.clock,
                            failed |-> Failing, told |-> told, maxAge |-> maxAge, made |-> TRUE]
    OBVIOUS
  <2>4. /\ snap \in Snapshots /\ snap.at = snap.real + env.skew
        /\ env.skew = Fast => "time-sync" \in snap.failed
    BY <2>2, <2>3, <1>b, <1>c, ControlsAssumption DEF Snapshots
  <2>5. env' = [env EXCEPT !.writes = @ + 1, !.snap = snap]
    BY <2>1, <2>3
  <2>6. env.writes + 1 \in Nat
    BY <1>b
  <2>7. env' \in ControlsEnv
    BY <2>4, <2>5, <2>6, <1>a, Zenon DEF ControlsEnv
  <2>8. /\ env'.snap = snap /\ env'.skew = env.skew /\ env'.clock = env.clock
        /\ env'.pinned = env.pinned
    BY <2>5, <1>a DEF ControlsEnv
  <2> QED
    BY <2>1, <2>4, <2>7, <2>8, <1>a
<1>2. CASE ControlChanges
  <2>1. PICK f \in {{}, {"eset-firewall-drift"}} :
          env' = [env EXCEPT !.failing = f, !.faults = @ + 1] /\ job' = job
    BY <1>2 DEF ControlChanges, Step
  <2>2. f \in SUBSET Controls /\ env.faults + 1 \in Nat
    BY <1>b DEF Controls
  <2>3. env' \in ControlsEnv
    BY <2>1, <2>2, <1>a, Zenon DEF ControlsEnv
  <2>4. /\ env'.snap = env.snap /\ env'.skew = env.skew /\ env'.clock = env.clock
        /\ env'.pinned = env.pinned
    BY <2>1, <1>a DEF ControlsEnv
  <2> QED
    BY <2>1, <2>3, <2>4, <1>a
<1>3. CASE TimePasses
  <2>1. env' = [env EXCEPT !.clock = @ + 1] /\ job' = job /\ job.pc # "done"
    BY <1>3 DEF TimePasses, Step, Live
  <2>2. env' \in ControlsEnv
    BY <2>1, <1>a DEF ControlsEnv
  <2>3. env'.snap = env.snap /\ env'.skew = env.skew /\ env'.pinned = env.pinned
    BY <2>1, <1>a DEF ControlsEnv
  <2> QED
    BY <2>1, <2>2, <2>3, <1>a
<1>4. CASE Start
  <2>1. /\ env' = env /\ job.pc = "start"
        /\ job' = [job EXCEPT !.pc = "ssh", !.now = env.clock, !.started = env.clock]
    BY <1>4 DEF Start, Step, At
  <2>2. job' \in ControlsJob
    BY <2>1, <1>a, <1>b, Zenon DEF ControlsJob
  <2>3. job'.snap = job.snap /\ job'.reached = job.reached /\ job'.verdict = job.verdict
    BY <2>1, <1>a DEF ControlsJob
  <2> QED
    BY <2>1, <2>2, <2>3, <1>a
<1>5. CASE FetchSnapshot
  <2>1. PICK openssh \in BOOLEAN :
          /\ env' = env /\ job.pc = "ssh"
          /\ \/ /\ env.pinned
                /\ job' = [job EXCEPT !.pc = "journal", !.reached = TRUE, !.snap = env.snap,
                                      !.openssh = openssh]
             \/ job' = [job EXCEPT !.pc = "journal"]
    BY <1>5 DEF FetchSnapshot, KnownHostsPinned, Step, At
  <2>2. job' \in ControlsJob
    <3>1. CASE job' = [job EXCEPT !.pc = "journal"]
      BY <3>1, <1>a DEF ControlsJob
    <3>2. CASE job' = [job EXCEPT !.pc = "journal", !.reached = TRUE, !.snap = env.snap,
                                  !.openssh = openssh]
      BY <3>2, <1>a, <1>b, Zenon DEF ControlsJob
    <3> QED
      BY <2>1, <3>1, <3>2
  <2>3. /\ job'.snap = job.snap \/ job'.snap = env.snap
        /\ job'.reached => env.pinned
        /\ job'.verdict = job.verdict
    BY <2>1, <1>a DEF ControlsJob
  <2> QED
    BY <2>1, <2>2, <2>3, <1>a
<1>6. CASE CorrelateJournal
  <2>1. PICK staging \in BOOLEAN :
          /\ env' = env /\ job.pc = "journal"
          /\ job' = [job EXCEPT !.pc = "wireguard", !.staging = staging]
    BY <1>6 DEF CorrelateJournal, Step, At
  <2>2. job' \in ControlsJob
    BY <2>1, <1>a DEF ControlsJob
  <2>3. job'.snap = job.snap /\ job'.reached = job.reached /\ job'.verdict = job.verdict
    BY <2>1, <1>a DEF ControlsJob
  <2> QED
    BY <2>1, <2>2, <2>3, <1>a
<1>7. CASE SelectInterface
  <2>1. PICK staging \in BOOLEAN :
          /\ env' = env /\ job.pc = "wireguard"
          /\ job' = [job EXCEPT !.pc = "preflight", !.staging = staging]
    BY <1>7 DEF SelectInterface, Step, At
  <2>2. job' \in ControlsJob
    BY <2>1, <1>a DEF ControlsJob
  <2>3. job'.snap = job.snap /\ job'.reached = job.reached /\ job'.verdict = job.verdict
    BY <2>1, <1>a DEF ControlsJob
  <2> QED
    BY <2>1, <2>2, <2>3, <1>a
<1>8. CASE SshPreflight
  <2>1. PICK staging, tcp \in BOOLEAN :
          /\ env' = env /\ job.pc = "preflight"
          /\ job' = [job EXCEPT !.pc = "verify", !.staging = staging, !.tcp = tcp]
    BY <1>8 DEF SshPreflight, Step, At
  <2>2. job' \in ControlsJob
    BY <2>1, <1>a DEF ControlsJob
  <2>3. job'.snap = job.snap /\ job'.reached = job.reached /\ job'.verdict = job.verdict
    BY <2>1, <1>a DEF ControlsJob
  <2> QED
    BY <2>1, <2>2, <2>3, <1>a
<1>9. CASE VerifyControls
  <2>1. PICK v \in {"accepted", "rejected"} :
          /\ env' = env /\ job' = Ends(job, v)
          /\ v = "accepted" => CollectorSemantics /\ ValidateChecks
    BY <1>9 DEF VerifyControls, Step
  <2>2. job' \in ControlsJob
    BY <2>1, <1>a DEF Ends, ControlsJob
  <2>3. /\ job'.snap = job.snap /\ job'.reached = job.reached /\ job'.verdict = v
        /\ job'.pc = "done" /\ job'.staging = job.staging
    BY <2>1, <1>a DEF Ends, ControlsJob
  <2>4. ASSUME v = "accepted"
        PROVE  /\ job.snap.made /\ job.snap.failed = {} /\ job.staging /\ job.reached
               /\ env.clock - job.snap.at <= MaxAge
    <3>1. job.snap.failed \in SUBSET Controls /\ "time-sync" \in Controls
      BY <1>b DEF Snapshots, Controls
    <3>2. /\ \A c \in Controls : ValidateControl(c)
          /\ job.staging /\ job.reached
      BY <2>1, <2>4 DEF ValidateChecks, CollectorSemantics
    <3>3. job.snap.made /\ env.clock - job.snap.at <= MaxAge
      BY <3>1, <3>2 DEF ValidateControl, ControlPasses, SnapshotUsable, ControlFresh, FreshIn
    <3>4. \A c \in Controls : c \notin job.snap.failed
      BY <3>2 DEF ValidateControl, ControlSemantics
    <3> QED
      BY <3>1, <3>2, <3>3, <3>4
  <2>5. v = "accepted" => env.clock - job.snap.real <= MaxAge + BoundedSkew
    <3>1. job.snap.at \in Int /\ job.snap.real \in Nat
      BY <1>b DEF Snapshots
    <3>2. v = "accepted" => env.skew # Fast /\ job.snap.at = job.snap.real + env.skew
      BY <2>4
    <3>3. env.skew # Fast => env.skew <= BoundedSkew
      BY <1>b, ControlsAssumption DEF Skews
    <3> QED
      BY <2>4, <3>1, <3>2, <3>3, <1>b, <1>c, ControlsAssumption
  <2> QED
    BY <2>1, <2>2, <2>3, <2>4, <2>5, <1>a
<1> QED
  BY <1>1, <1>2, <1>3, <1>4, <1>5, <1>6, <1>7, <1>8, <1>9 DEF ControlsNext

\* The invariant contains the claim about accepted audit controls.
LEMMA ControlsSafe == ControlsInv => AcceptedControlsAreRecent
BY DEF ControlsInv, ControlsJudged, AcceptedControlsAreRecent

-----------------------------------------------------------------------------
(* MtlsPreflight: the mTLS seed and its preflight. *)

MtlsSections == {"environment", "desired", "aggregate", "external", "runtime", "probe"}
MtlsFault == MtlsFaults \cup {"none"}
MtlsEnv ==
  [fault : MtlsFault, vault : Nat, elsewhere : Nat, secret : Nat, ready : BOOLEAN,
   mounted : Nat, podReady : BOOLEAN, pod : {1, 2}, enabled : BOOLEAN, trusted : SUBSET Nat,
   served : SUBSET Nat, changes : Nat]
SeedSteps == {"seed", "patch", "seeded", "choose"}
PreflightSteps == {"access", "desired", "aggregate", "external", "secret", "pod", "probe", "verify"}
MtlsJob ==
  [pc : SeedSteps \cup PreflightSteps \cup {"done"}, seed : Nat, apply : BOOLEAN, path : BOOLEAN,
   patched : BOOLEAN, seedOk : BOOLEAN, fails : SUBSET MtlsSections, pod : {0, 1, 2},
   verdict : {"none", "error", "accepted", "refused"}]

MtlsTypes == env \in MtlsEnv /\ job \in MtlsJob

(* Whatever Secret, mount and STT host have seen came from the Vault path. *)
MaterialFlows ==
  /\ env.secret <= env.vault /\ env.mounted <= env.vault /\ env.served \subseteq 1..env.vault
  /\ job.pc \in SeedSteps => env.vault <= job.seed

SeedHolds ==
  /\ job.pc \in {"seed", "patch"} => ~ job.patched
  /\ job.pc = "seeded" /\ job.patched /\ job.path => env.vault = job.seed
  /\ job.pc = "choose" /\ job.seedOk => env.vault = job.seed

(* What a preflight without a failure code has ruled out at each step. *)
PreflightRules ==
  job.fails = {} =>
    /\ job.pc \in PreflightSteps \ {"access"} => env.fault # "unreachable"
    /\ job.pc \in PreflightSteps \ {"access", "desired"} =>
         env.fault \notin {"no-mount", "mandatory-mount", "host-alias", "env-from"}
    /\ job.pc \in {"external", "secret", "pod", "probe", "verify"} =>
         env.fault \notin {"aggregate", "contaminated"}
    /\ job.pc \in {"secret", "pod", "probe", "verify"} => env.fault \notin {"store", "mapping"}
    /\ job.pc \in {"pod", "probe", "verify"} => env.fault # "netpol"
    /\ job.pc \in {"probe", "verify"} => env.fault # "digest"
    /\ job.pc = "verify" => env.served # {}

MtlsJudged ==
  job.verdict = "accepted" => job.pc = "done" /\ env.fault = "none" /\ env.served # {}

MtlsInv == MtlsTypes /\ MaterialFlows /\ SeedHolds /\ PreflightRules /\ MtlsJudged

\* No material is anywhere when the first seed starts.
LEMMA MtlsStart == MtlsInit => MtlsInv
<1> SUFFICES ASSUME MtlsInit PROVE MtlsInv
  OBVIOUS
<1>1. PICK f \in MtlsFault, t \in {{}, {1}, {2}} :
        env = [fault |-> f, vault |-> 0, elsewhere |-> 0, secret |-> 0, ready |-> FALSE,
               mounted |-> 0, podReady |-> TRUE, pod |-> 1, enabled |-> FALSE, trusted |-> t,
               served |-> {}, changes |-> 0]
  BY DEF MtlsInit, MtlsFault
<1>2. job = [pc |-> "seed", seed |-> 0, apply |-> FALSE, path |-> TRUE, patched |-> FALSE,
             seedOk |-> FALSE, fails |-> {}, pod |-> 0, verdict |-> "none"]
  BY DEF MtlsInit
<1>3. env \in MtlsEnv
  BY <1>1 DEF MtlsEnv
<1>4. job \in MtlsJob
  BY <1>2 DEF MtlsJob, SeedSteps
<1> QED
  BY <1>1, <1>2, <1>3, <1>4 DEF MtlsInv, MtlsTypes, MaterialFlows, SeedHolds, PreflightRules,
     MtlsJudged, PreflightSteps

\* A change of the cluster counts, and changes nothing else on top.
LEMMA MtlsChangeKeeps ==
  ASSUME NEW e \in MtlsEnv, MtlsChange(e)
  PROVE  /\ job' = job /\ env' \in MtlsEnv /\ env'.fault = e.fault /\ env'.vault = e.vault
         /\ env'.secret = e.secret /\ env'.mounted = e.mounted /\ env'.served = e.served
<1>1. env' = [e EXCEPT !.changes = @ + 1] /\ job' = job
  BY DEF MtlsChange, Step
<1> QED
  BY <1>1 DEF MtlsEnv

\* A failed read is a failure code of its section.
LEMMA ReadKeeps ==
  ASSUME MtlsTypes, NEW section \in MtlsSections, NEW next \in PreflightSteps, NEW passed \in BOOLEAN,
         job' = [job EXCEPT !.pc = next, !.fails = FailuresAfter(section, passed)]
  PROVE  /\ job' \in MtlsJob /\ job'.pc = next /\ (job'.fails = {} => job.fails = {} /\ passed)
         /\ job'.verdict = job.verdict /\ job'.pod = job.pod
<1>1. job \in MtlsJob /\ job.fails \in SUBSET MtlsSections
  BY DEF MtlsTypes, MtlsJob
<1>2. PICK fails \in SUBSET MtlsSections :
        fails = FailuresAfter(section, passed) /\ (fails = {} => job.fails = {} /\ passed)
  <2>1. CASE passed
    BY <1>1, <2>1 DEF FailuresAfter
  <2>2. CASE ~ passed
    <3>1. FailuresAfter(section, passed) = job.fails \cup {section}
      BY <2>2 DEF FailuresAfter
    <3>2. job.fails \cup {section} \in SUBSET MtlsSections /\ job.fails \cup {section} # {}
      BY <1>1
    <3> QED
      BY <3>1, <3>2, Zenon
  <2> QED
    BY <2>1, <2>2
<1>3. job' = [job EXCEPT !.pc = next, !.fails = fails]
  BY <1>2
<1>4. next \in SeedSteps \cup PreflightSteps \cup {"done"}
  OBVIOUS
<1>5. job' \in MtlsJob
  BY <1>1, <1>3, <1>4, Zenon DEF MtlsJob
<1> QED
  BY <1>1, <1>2, <1>3, <1>5 DEF MtlsJob

\* Every step of the seed operator, of the cluster and of the preflight keeps
\* the invariant.
LEMMA MtlsStep == MtlsInv /\ MtlsNext => MtlsInv'
<1> SUFFICES ASSUME MtlsInv, MtlsNext PROVE MtlsInv'
  OBVIOUS
<1>s. /\ {"desired", "aggregate", "external", "secret", "pod", "probe", "verify"} \subseteq PreflightSteps
      /\ {"environment", "desired", "aggregate", "external", "runtime"} \subseteq MtlsSections
      /\ MtlsTypes
  BY DEF PreflightSteps, MtlsSections, MtlsInv
<1>k. \A section \in {"environment", "desired", "aggregate", "external", "runtime"},
         next \in {"desired", "aggregate", "external", "secret", "pod", "probe", "verify"},
         passed \in BOOLEAN :
        job' = [job EXCEPT !.pc = next, !.fails = FailuresAfter(section, passed)] =>
          /\ job' \in MtlsJob /\ job'.pc = next /\ (job'.fails = {} => job.fails = {} /\ passed)
          /\ job'.verdict = job.verdict /\ job'.pod = job.pod
  BY <1>s, ReadKeeps, Zenon
<1> USE DEF MtlsInv, MtlsTypes, MaterialFlows, SeedHolds, PreflightRules, MtlsJudged, PreflightSteps,
            SeedSteps
<1>a. env \in MtlsEnv /\ job \in MtlsJob
  OBVIOUS
<1>b. /\ env.vault \in Nat /\ env.secret \in Nat /\ env.mounted \in Nat /\ env.served \in SUBSET Nat
      /\ job.seed \in Nat /\ job.fails \in SUBSET MtlsSections
  BY <1>a DEF MtlsEnv, MtlsJob
<1>1. CASE EsoSyncs
  <2>1. env' = [env EXCEPT !.secret = env.vault, !.ready = TRUE] /\ job' = job
    BY <1>1 DEF EsoSyncs, Step
  <2>2. env' \in MtlsEnv
    BY <2>1, <1>a, <1>b, Zenon DEF MtlsEnv
  <2>3. /\ env'.fault = env.fault /\ env'.vault = env.vault /\ env'.secret = env.vault
        /\ env'.mounted = env.mounted /\ env'.served = env.served
    BY <2>1, <1>a DEF MtlsEnv
  <2> QED
    BY <2>1, <2>2, <2>3, <1>a, <1>b
<1>2. CASE EsoFails
  <2>1. PICK e : e = [env EXCEPT !.ready = FALSE] /\ MtlsChange(e)
    BY <1>2 DEF EsoFails
  <2>2. /\ e \in MtlsEnv /\ e.fault = env.fault /\ e.vault = env.vault /\ e.secret = env.secret
        /\ e.mounted = env.mounted /\ e.served = env.served
    BY <2>1, <1>a DEF MtlsEnv
  <2> QED
    BY <2>1, <2>2, <1>a, MtlsChangeKeeps, ZenonT(60)
<1>3. CASE KubeletRefreshes
  <2>1. env' = [env EXCEPT !.mounted = env.secret] /\ job' = job
    BY <1>3 DEF KubeletRefreshes, Step
  <2>2. env' \in MtlsEnv
    BY <2>1, <1>a, <1>b DEF MtlsEnv
  <2>3. /\ env'.fault = env.fault /\ env'.vault = env.vault /\ env'.secret = env.secret
        /\ env'.mounted = env.secret /\ env'.served = env.served
    BY <2>1, <1>a DEF MtlsEnv
  <2> QED
    BY <2>1, <2>2, <2>3, <1>a
<1>4. CASE GatewayPodReplaced
  <2>1. PICK r \in BOOLEAN :
          MtlsChange([env EXCEPT !.pod = 3 - @, !.podReady = r,
                                 !.mounted = IF env.fault = "no-mount" THEN 0 ELSE env.secret])
    BY <1>4 DEF GatewayPodReplaced
  <2>2. PICK mounted \in Nat : /\ mounted = IF env.fault = "no-mount" THEN 0 ELSE env.secret
                               /\ mounted <= env.vault
    BY <1>b
  <2>3. PICK e : e = [env EXCEPT !.pod = 3 - @, !.podReady = r, !.mounted = mounted]
    OBVIOUS
  <2>4. MtlsChange(e)
    BY <2>1, <2>2, <2>3
  <2>5. 3 - env.pod \in {1, 2}
    BY <1>a DEF MtlsEnv
  <2>6. e \in MtlsEnv
    BY <2>3, <2>5, <1>a, Zenon DEF MtlsEnv
  <2>7. /\ e.fault = env.fault /\ e.vault = env.vault /\ e.secret = env.secret
        /\ e.mounted = mounted /\ e.served = env.served
    BY <2>3, <1>a DEF MtlsEnv
  <2> QED
    BY <2>2, <2>4, <2>6, <2>7, <1>a, MtlsChangeKeeps
<1>5. CASE FlagFlipped
  <2>1. PICK e : e = [env EXCEPT !.enabled = ~ @] /\ MtlsChange(e)
    BY <1>5 DEF FlagFlipped
  <2>2. /\ e \in MtlsEnv /\ e.fault = env.fault /\ e.vault = env.vault /\ e.secret = env.secret
        /\ e.mounted = env.mounted /\ e.served = env.served
    BY <2>1, <1>a DEF MtlsEnv
  <2> QED
    BY <2>1, <2>2, <1>a, MtlsChangeKeeps, ZenonT(60)
<1>6. CASE ReadMaterial
  <2>0. env' = env /\ job.pc = "seed"
    BY <1>6 DEF ReadMaterial, Step, At
  <2>1. CASE job' = Ends(job, "error")
    <3>1. /\ job' \in MtlsJob /\ job'.pc = "done" /\ job'.verdict = "error"
      BY <2>1, <1>a DEF Ends, MtlsJob
    <3> QED
      BY <2>0, <3>1, <1>a
  <2>2. CASE \E apply, path \in BOOLEAN :
               job' = [job EXCEPT !.pc = "patch", !.seed = @ + 1, !.apply = apply, !.path = path]
    <3>1. PICK apply, path \in BOOLEAN :
            job' = [job EXCEPT !.pc = "patch", !.seed = @ + 1, !.apply = apply, !.path = path]
      BY <2>2
    <3>2. job.seed + 1 \in Nat
      BY <1>b
    <3>3. job' \in MtlsJob
      BY <3>1, <3>2, <1>a, Zenon DEF MtlsJob
    <3>4. /\ job'.pc = "patch" /\ job'.seed = job.seed + 1 /\ job'.verdict = job.verdict
          /\ job'.patched = job.patched
      BY <3>1, <1>a DEF MtlsJob
    <3> QED
      BY <2>0, <3>3, <3>4, <1>a, <1>b
  <2> QED
    BY <1>6, <2>1, <2>2 DEF ReadMaterial, Step
<1>7. CASE PatchVault
  <2>1. PICK e \in {env, Patched}, patched \in BOOLEAN :
          /\ job.pc = "patch" /\ env' = e
          /\ \/ job' = [job EXCEPT !.pc = "seeded", !.patched = patched] /\ (patched => e = Patched)
             \/ job' = [job EXCEPT !.pc = "seeded"]
    BY <1>7 DEF PatchVault, Step, At
  <2>2. /\ env' \in MtlsEnv /\ env'.fault = env.fault /\ env'.secret = env.secret
        /\ env'.mounted = env.mounted /\ env'.served = env.served
        /\ env'.vault = env.vault \/ env'.vault = job.seed
        /\ e = Patched /\ job.path => env'.vault = job.seed
    BY <2>1, <1>a, <1>b DEF Patched, MtlsEnv
  <2>3. /\ job' \in MtlsJob /\ job'.pc = "seeded" /\ job'.seed = job.seed /\ job'.path = job.path
        /\ job'.verdict = job.verdict
    BY <2>1, <1>a, ZenonT(60) DEF MtlsJob
  <2>4. job'.patched /\ ~ job.patched => e = Patched
    BY <2>1, <1>a DEF MtlsJob
  <2> QED
    BY <2>1, <2>2, <2>3, <2>4, <1>a, <1>b
<1>8. CASE VerifySeed
  <2>1. PICK ok \in BOOLEAN : ok = (SeedTopLevel /\ SeedVault /\ SeedResult)
    BY <1>a DEF MtlsJob, SeedResult, SeedVault, SeedTopLevel
  <2>2. env' = env /\ job.pc = "seeded" /\ job' = [job EXCEPT !.pc = "choose", !.seedOk = ok]
    BY <1>8, <2>1 DEF VerifySeed, Step, At
  <2>3. /\ job' \in MtlsJob /\ job'.pc = "choose" /\ job'.seed = job.seed /\ job'.seedOk = ok
        /\ job'.verdict = job.verdict
    BY <2>2, <1>a DEF MtlsJob
  <2> QED
    BY <2>1, <2>2, <2>3, <1>a DEF SeedVault, SeedResult
<1>9. CASE GoOn
  <2>0. env' = env /\ job.pc = "choose"
    BY <1>9 DEF GoOn, Step, At
  <2>1. PICK again \in BOOLEAN :
          job' = [job EXCEPT !.pc = IF again THEN "seed" ELSE "access", !.apply = FALSE,
                             !.path = TRUE, !.patched = FALSE,
                             !.seed = IF again THEN @ ELSE 0, !.seedOk = ~ again /\ @]
    BY <1>9 DEF GoOn, Step
  <2>2. PICK pc \in {"seed", "access"}, seed \in Nat, ok \in BOOLEAN :
          /\ pc = (IF again THEN "seed" ELSE "access") /\ seed = (IF again THEN job.seed ELSE 0)
          /\ ok = (~ again /\ job.seedOk)
    BY <1>b
  <2>3. job' = [job EXCEPT !.pc = pc, !.apply = FALSE, !.path = TRUE, !.patched = FALSE,
                           !.seed = seed, !.seedOk = ok]
    BY <2>1, <2>2
  <2>4. pc \in SeedSteps \cup PreflightSteps \cup {"done"}
    BY <2>2
  <2>5. job' \in MtlsJob
    BY <2>2, <2>3, <2>4, <1>a, ZenonT(60) DEF MtlsJob
  <2>6. job'.pc = pc /\ job'.seed = seed /\ job'.verdict = job.verdict /\ ~ job'.patched
    BY <2>3, <1>a DEF MtlsJob
  <2> QED
    BY <2>0, <2>2, <2>5, <2>6, <1>a
<1>10. CASE CheckAccess
  <2>0. job.pc = "access" /\ env' = env
    BY <1>10 DEF CheckAccess, ReadObjects, Step, At
  <2>1. CASE env.fault = "unreachable"
    <3>1. job' = [job EXCEPT !.pc = "verify", !.fails = {"environment"}]
      BY <1>10, <2>1 DEF CheckAccess, Step
    <3>2. /\ job' \in MtlsJob /\ job'.pc = "verify" /\ job'.fails = {"environment"}
          /\ job'.verdict = job.verdict
      BY <3>1, <1>a DEF MtlsJob, MtlsSections
    <3> QED
      BY <2>0, <3>2, <1>a
  <2>2. CASE env.fault # "unreachable"
    <3>1. PICK passed \in BOOLEAN :
            job' = [job EXCEPT !.pc = "desired", !.fails = FailuresAfter("environment", passed)]
      BY <1>10, <2>2 DEF CheckAccess, ReadObjects, Step
    <3>2. /\ job' \in MtlsJob /\ job'.pc = "desired" /\ (job'.fails = {} => job.fails = {})
          /\ job'.verdict = job.verdict
      BY <3>1, <1>k
    <3> QED
      BY <2>0, <2>2, <3>2, <1>a
  <2> QED
    BY <2>1, <2>2
<1>11. CASE ReadDesired
  <2>1. PICK passed \in BOOLEAN :
          /\ env' = env /\ job.pc = "desired" /\ (passed => MountInfo /\ HostAlias /\ NotEnvFrom)
          /\ job' = [job EXCEPT !.pc = "aggregate", !.fails = FailuresAfter("desired", passed)]
    BY <1>11 DEF ReadDesired, ReadObjects, Step, At
  <2>2. /\ job' \in MtlsJob /\ job'.pc = "aggregate" /\ (job'.fails = {} => job.fails = {} /\ passed)
        /\ job'.verdict = job.verdict /\ job'.pod = job.pod
    BY <2>1, <1>k
  <2> QED
    BY <2>1, <2>2, <1>a DEF MountInfo, HostAlias, NotEnvFrom
<1>12. CASE ReadAggregate
  <2>1. PICK passed \in BOOLEAN :
          /\ env' = env /\ job.pc = "aggregate" /\ (passed => AggregateSound)
          /\ job' = [job EXCEPT !.pc = "external", !.fails = FailuresAfter("aggregate", passed)]
    BY <1>12 DEF ReadAggregate, ReadObjects, Step, At
  <2>2. /\ job' \in MtlsJob /\ job'.pc = "external" /\ (job'.fails = {} => job.fails = {} /\ passed)
        /\ job'.verdict = job.verdict /\ job'.pod = job.pod
    BY <2>1, <1>k
  <2> QED
    BY <2>1, <2>2, <1>a DEF AggregateSound
<1>13. CASE ReadExternalSecret
  <2>1. PICK passed \in BOOLEAN :
          /\ env' = env /\ job.pc = "external" /\ (passed => ExternalSecretSound)
          /\ job' = [job EXCEPT !.pc = "secret", !.fails = FailuresAfter("external", passed)]
    BY <1>13 DEF ReadExternalSecret, ReadObjects, Step, At
  <2>2. /\ job' \in MtlsJob /\ job'.pc = "secret" /\ (job'.fails = {} => job.fails = {} /\ passed)
        /\ job'.verdict = job.verdict /\ job'.pod = job.pod
    BY <2>1, <1>k
  <2> QED
    BY <2>1, <2>2, <1>a DEF ExternalSecretSound
<1>14. CASE ReadSecret
  <2>1. PICK passed \in BOOLEAN :
          /\ env' = env /\ job.pc = "secret" /\ (passed => NetpolSound)
          /\ job' = [job EXCEPT !.pc = "pod", !.fails = FailuresAfter("runtime", passed)]
    BY <1>14 DEF ReadSecret, ReadObjects, Step, At
  <2>2. /\ job' \in MtlsJob /\ job'.pc = "pod" /\ (job'.fails = {} => job.fails = {} /\ passed)
        /\ job'.verdict = job.verdict /\ job'.pod = job.pod
    BY <2>1, <1>k
  <2> QED
    BY <2>1, <2>2, <1>a DEF NetpolSound
<1>15. CASE FindPod
  <2>1. PICK answered \in BOOLEAN :
          /\ env' = env /\ job.pc = "pod"
          /\ job' = [job EXCEPT !.pc = "probe", !.pod = IF answered THEN env.pod ELSE 0,
                                !.fails = FailuresAfter("environment", answered /\ PodSound)]
    BY <1>15 DEF FindPod, Step, At
  <2>2. PICK pod \in {0, 1, 2}, fails \in SUBSET MtlsSections :
          /\ pod = IF answered THEN env.pod ELSE 0
          /\ fails = FailuresAfter("environment", answered /\ PodSound)
    BY <1>a, <1>b DEF MtlsEnv, FailuresAfter, MtlsSections
  <2>3. fails = {} => job.fails = {} /\ PodSound
    BY <2>2 DEF FailuresAfter
  <2>4. job' = [job EXCEPT !.pc = "probe", !.pod = pod, !.fails = fails]
    BY <2>1, <2>2
  <2>5. job' \in MtlsJob
    BY <2>4, <1>a DEF MtlsJob
  <2>6. job'.pc = "probe" /\ job'.fails = fails /\ job'.verdict = job.verdict
    BY <2>4, <1>a DEF MtlsJob
  <2> QED
    BY <2>1, <2>3, <2>5, <2>6, <1>a DEF PodSound
<1>16. CASE RunProbe
  <2>0. job.pc = "probe"
    BY <1>16 DEF RunProbe, At
  <2>1. CASE /\ Handshake /\ env' = [env EXCEPT !.served = @ \cup {env.mounted}]
             /\ job' = [job EXCEPT !.pc = "verify"]
    <3>1. env.mounted \in 1..env.vault
      BY <2>1, <1>b DEF Handshake
    <3>2. env' \in MtlsEnv
      BY <2>1, <1>a, <1>b DEF MtlsEnv
    <3>3. /\ env'.fault = env.fault /\ env'.vault = env.vault /\ env'.secret = env.secret
          /\ env'.mounted = env.mounted /\ env'.served = env.served \cup {env.mounted}
      BY <2>1, <1>a DEF MtlsEnv
    <3>4. /\ job' \in MtlsJob /\ job'.pc = "verify" /\ job'.fails = job.fails
          /\ job'.verdict = job.verdict
      BY <2>1, <1>a DEF MtlsJob
    <3> QED
      BY <2>0, <3>1, <3>2, <3>3, <3>4
  <2>2. CASE env' = env /\ job' = [job EXCEPT !.pc = "verify", !.fails = @ \cup {"probe"}]
    <3>1. /\ job' \in MtlsJob /\ job'.pc = "verify" /\ job'.fails # {}
          /\ job'.verdict = job.verdict
      BY <2>2, <1>a DEF MtlsJob, MtlsSections
    <3> QED
      BY <2>0, <2>2, <3>1, <1>a
  <2> QED
    BY <1>16, <2>1, <2>2 DEF RunProbe, Step
<1>17. CASE VerifyPreflight
  <2>1. PICK v \in {"accepted", "refused"} :
          /\ env' = env /\ job' = Ends(job, v) /\ job.pc = "verify"
          /\ v = "accepted" => job.fails = {}
    BY <1>17 DEF VerifyPreflight, PreflightPasses, PreflightTopLevel, Step, At
  <2>2. job' \in MtlsJob
    BY <2>1, <1>a DEF Ends, MtlsJob
  <2>3. job'.pc = "done" /\ job'.verdict = v
    BY <2>1, <1>a DEF Ends, MtlsJob
  <2>4. v = "accepted" => env.fault \notin MtlsFaults /\ env.served # {}
    BY <2>1 DEF MtlsFaults
  <2>5. env.fault \in MtlsFaults \cup {"none"}
    BY <1>a DEF MtlsEnv, MtlsFault
  <2> QED
    BY <2>1, <2>2, <2>3, <2>4, <2>5, <1>a
<1> QED
  BY <1>1, <1>2, <1>3, <1>4, <1>5, <1>6, <1>7, <1>8, <1>9, <1>10, <1>11, <1>12, <1>13, <1>14,
     <1>15, <1>16, <1>17 DEF MtlsNext

\* The invariant contains the claim about accepted seeds and preflights.
LEMMA MtlsSafe == MtlsInv => AcceptedMtlsIsServed
BY DEF MtlsInv, MaterialFlows, SeedHolds, MtlsJudged, AcceptedMtlsIsServed

-----------------------------------------------------------------------------
(* The lanes together.  The invariant of a lane is about its own job and the
   system it calls; a step of another lane never begins in this one. *)

(* A behaviour is about one lane: no step of any lane renames it. *)
LEMMA LaneStays == [JobsNext]_jobVars => lane' = lane
<1> SUFFICES ASSUME JobsNext PROVE lane' = lane
  BY DEF jobVars
<1>1. E2eNext => lane' = lane
  BY DEF E2eNext, ValidateToken, CallAnswered, StatusUnreadable, CallFailed, Transcribe,
         AuditAdvances, SessionExpires, StreamRolls, PodReplaced, Collected, ReadCluster,
         MtlsProbe, WaitForResult, ReadStreams, WaitForAudit, ReadLogs, VerifyE2e, Step
<1>2. ExpiryNext => lane' = lane
  BY DEF ExpiryNext, Fail, Setup, Baseline, StartFirst, UploadFirst, Waits, WaitReserved,
         CapacityFull, WaitExpired, ExpiredNotFound, StartReused, UploadReused, WaitReused,
         FinishReused, WaitReleased, RequestFails, SweepSession, CleanUp, ForeignStart,
         ForeignUpload, Step
<1>3. RealtimeNext => lane' = lane
  BY DEF RealtimeNext, CreateLifecycle, StartAudio, SendFrame, StartSilence, StopRecording,
         SendEof, AwaitDrained, StreamBreaks, Receive, Observe, FinishLifecycle, Poll,
         ReadbackEnds, ReadSource, Reopen, Judge, GatewayEvent, AnalysisEvent,
         StoreTranscript, StoreResult, Step
<1>4. IngestNext => lane' = lane
  BY DEF IngestNext, SetupIngest, LoadSecret, TokenRefusals, AnonymousIngest,
         IssueCapability, IngestResult, AcceptIngest, AnalyzerWrites, Step
<1>5. RolloutNext => lane' = lane
  BY DEF RolloutNext, CheckTarget, ReadTasks, UpdaterWhatIf, PinWithoutRestart,
         MigrateTasks, ReadBackTasks, Deploy, Catch, Finally, ReadDiagnostic, WaitSettled,
         ReadHealth, ReadReadiness, TestWebSocketReady, EmitEvidence, WorkerRestarts,
         ReturnFromSsh, SshTimesOut, VerifyRollout, Step
<1>6. MasqNext => lane' = lane
  BY DEF MasqNext, CollectFacts, SelectProbePod, ReadBefore, Probe, ReadAfter, CollectHost,
         VerifyMasq, OtherTraffic, RuleDropped, RuleReinstalled, PodGone, Step
<1>7. ControlsNext => lane' = lane
  BY DEF ControlsNext, WriteSnapshot, ControlChanges, TimePasses, Start, FetchSnapshot,
         CorrelateJournal, SelectInterface, SshPreflight, VerifyControls, Step
<1>8. MtlsNext => lane' = lane
  BY DEF MtlsNext, MtlsChange, EsoSyncs, EsoFails, KubeletRefreshes, GatewayPodReplaced,
         FlagFlipped, ReadMaterial, PatchVault, VerifySeed, GoOn, ReadObjects, CheckAccess,
         ReadDesired, ReadAggregate, ReadExternalSecret, ReadSecret, FindPod, RunProbe,
         VerifyPreflight, Step
<1>9. BridgeNext => lane' = lane
  BY DEF BridgeNext, AlertChanges, PostWebhook, IndexCatchesUp, OperatorCloses, ClockTicks,
         PodRestarts, ReceiveWebhook, Searched, SearchIssue, CreateIssue, CommentIssue,
         CloseIssue, PageBySms, PageByEmail, Step
<1>10. PollerNext => lane' = lane
  BY DEF PollerNext, NewDelivery, DeliveryListed, WorkerDecides, PollerTick, PollFails,
         BeginPoll, Decide, DecideFails, AdvanceHighWater, FinishPoll, PollerRestarts, Step
<1>11. SlaNext => lane' = lane
  BY DEF SlaNext, MergeFix, DeployRuns, IssueClosed, HourPasses, ScanAgain, StartScan,
         NextPr, CorrelateDeploys, OpenIssue, WarnOnPr, EndScan, Step
<1>12. CeremonyNext => lane' = lane
  BY DEF CeremonyNext, SendScript, ScriptStep, RemoteAnswers, CheckRoot, CallCutOff,
         StrayStep, IssuePermit, ReadHead, Step
<1>13. ReconcileNext => lane' = lane
  BY DEF ReconcileNext, SourceChanges, RowLoaded, Connect, QueryRaises, FetchExpected,
         LookupHashes, ChecksumPg, CountMssql, CountPg, FetchSample, JudgeTable, NextTable,
         Step
<1>14. TransitNext => lane' = lane
  BY DEF TransitNext, Disturbs, RoleRecreated, PolicyReplaced, KeyRotated, Request, Read,
         RunAgain, CheckHealth, EnsureMount, DeleteRole, DeleteAcl, VerifyRoleAbsent,
         VerifyAclAbsent, EnsureKey, ReadKey, InstallPolicy, VerifyPolicy, WriteReceipt,
         Step
<1>15. PromotionNext => lane' = lane
  BY DEF PromotionNext, TestBump, ArgoSync, NextDay, EntryAdded, Checkout, ProbeService,
         MarkVerified, VariantSmoke, GatePasses, MergePr, LagCheck, Step
<1> QED
  BY <1>1, <1>2, <1>3, <1>4, <1>5, <1>6, <1>7, <1>8, <1>9, <1>10, <1>11, <1>12, <1>13,
     <1>14, <1>15 DEF JobsNext

(* E2eInv is about env and job only. *)
LEMMA E2eStutter == E2eInv /\ UNCHANGED jobVars => E2eInv'
BY DEF ValidateFlow, E2eTypes, CallsMade, SmokeIsWhole, CollectedStands, E2eJudged, E2eInv,
       jobVars

(* ExpiryInv is about env and job only. *)
LEMMA ExpiryStutter == ExpiryInv /\ UNCHANGED jobVars => ExpiryInv'
BY DEF ExpiryTypes, FaultsShow, FirstIsOut, FirstIsTracked, ExpiryJudged, ExpiryInv, jobVars

(* RealtimeInv is about env and job only. *)
LEMMA RealtimeStutter == RealtimeInv /\ UNCHANGED jobVars => RealtimeInv'
BY DEF RealtimeTypes, RecordingBeforeEof, EventsInOrder, ReadIsStored, RealtimeJudged,
       RealtimeInv, jobVars

(* IngestInv is about env and job only. *)
LEMMA IngestStutter == IngestInv /\ UNCHANGED jobVars => IngestInv'
BY DEF IngestTypes, RefusalsHeld, CapabilitiesHeld, WritesHeld, IngestJudged, IngestInv,
       jobVars

(* RolloutInv is about env and job only. *)
LEMMA RolloutStutter == RolloutInv /\ UNCHANGED jobVars => RolloutInv'
BY DEF RolloutTypes, PinIsTracked, RolledBack, DeployStands, RolloutInv, jobVars

(* MasqInv is about env and job only. *)
LEMMA MasqStutter == MasqInv /\ UNCHANGED jobVars => MasqInv'
BY DEF Is, MasqTypes, CounterInWindow, CollectedSound, MasqJudged, MasqInv, jobVars

(* ControlsInv is about env and job only. *)
LEMMA ControlsStutter == ControlsInv /\ UNCHANGED jobVars => ControlsInv'
BY DEF ControlsTypes, SnapshotTrue, ControlsJudged, ControlsInv, jobVars

(* MtlsInv is about env and job only. *)
LEMMA MtlsStutter == MtlsInv /\ UNCHANGED jobVars => MtlsInv'
BY DEF MtlsTypes, MaterialFlows, SeedHolds, PreflightRules, MtlsJudged, MtlsInv, jobVars

AcceptanceInv ==
  /\ lane = "e2e" => E2eInv
  /\ lane = "expiry" => ExpiryInv
  /\ lane = "realtime" => RealtimeInv
  /\ lane = "ingest" => IngestInv
  /\ lane = "rollout" => RolloutInv
  /\ lane = "masq" => MasqInv
  /\ lane = "controls" => ControlsInv
  /\ lane = "mtls" => MtlsInv

(* What each acceptance job holds at each of its steps is so in every state. *)
THEOREM AcceptanceInvariant == JobsSpec => []AcceptanceInv
<1>1. JobsInit => AcceptanceInv
  BY E2eStart, ExpiryStart, RealtimeStart, IngestStart, RolloutStart, MasqStart,
     ControlsStart, MtlsStart
     DEF JobsInit, AcceptanceInv, E2eInit, ExpiryInit, RealtimeInit, IngestInit,
         RolloutInit, MasqInit, ControlsInit, MtlsInit, BridgeInit, PollerInit, SlaInit,
         CeremonyInit, ReconcileInit, TransitInit, PromotionInit
<1>2. AcceptanceInv /\ [JobsNext]_jobVars => AcceptanceInv'
  <2> SUFFICES ASSUME AcceptanceInv, [JobsNext]_jobVars PROVE AcceptanceInv'
    OBVIOUS
  <2>1. lane' = lane
    BY LaneStays
  <2>2. (lane = "e2e" => E2eInv)'
    <3> SUFFICES ASSUME lane = "e2e" PROVE E2eInv'
      BY <2>1
    <3>1. E2eInv
      BY DEF AcceptanceInv
    <3>2. E2eNext \/ UNCHANGED jobVars
      BY DEF JobsNext
    <3> QED
      BY <3>1, <3>2, E2eStep, E2eStutter
  <2>3. (lane = "expiry" => ExpiryInv)'
    <3> SUFFICES ASSUME lane = "expiry" PROVE ExpiryInv'
      BY <2>1
    <3>1. ExpiryInv
      BY DEF AcceptanceInv
    <3>2. ExpiryNext \/ UNCHANGED jobVars
      BY DEF JobsNext
    <3> QED
      BY <3>1, <3>2, ExpiryStep, ExpiryStutter
  <2>4. (lane = "realtime" => RealtimeInv)'
    <3> SUFFICES ASSUME lane = "realtime" PROVE RealtimeInv'
      BY <2>1
    <3>1. RealtimeInv
      BY DEF AcceptanceInv
    <3>2. RealtimeNext \/ UNCHANGED jobVars
      BY DEF JobsNext
    <3> QED
      BY <3>1, <3>2, RealtimeStep, RealtimeStutter
  <2>5. (lane = "ingest" => IngestInv)'
    <3> SUFFICES ASSUME lane = "ingest" PROVE IngestInv'
      BY <2>1
    <3>1. IngestInv
      BY DEF AcceptanceInv
    <3>2. IngestNext \/ UNCHANGED jobVars
      BY DEF JobsNext
    <3> QED
      BY <3>1, <3>2, IngestStep, IngestStutter
  <2>6. (lane = "rollout" => RolloutInv)'
    <3> SUFFICES ASSUME lane = "rollout" PROVE RolloutInv'
      BY <2>1
    <3>1. RolloutInv
      BY DEF AcceptanceInv
    <3>2. RolloutNext \/ UNCHANGED jobVars
      BY DEF JobsNext
    <3> QED
      BY <3>1, <3>2, RolloutStep, RolloutStutter
  <2>7. (lane = "masq" => MasqInv)'
    <3> SUFFICES ASSUME lane = "masq" PROVE MasqInv'
      BY <2>1
    <3>1. MasqInv
      BY DEF AcceptanceInv
    <3>2. MasqNext \/ UNCHANGED jobVars
      BY DEF JobsNext
    <3> QED
      BY <3>1, <3>2, MasqStep, MasqStutter
  <2>8. (lane = "controls" => ControlsInv)'
    <3> SUFFICES ASSUME lane = "controls" PROVE ControlsInv'
      BY <2>1
    <3>1. ControlsInv
      BY DEF AcceptanceInv
    <3>2. ControlsNext \/ UNCHANGED jobVars
      BY DEF JobsNext
    <3> QED
      BY <3>1, <3>2, ControlsStep, ControlsStutter
  <2>9. (lane = "mtls" => MtlsInv)'
    <3> SUFFICES ASSUME lane = "mtls" PROVE MtlsInv'
      BY <2>1
    <3>1. MtlsInv
      BY DEF AcceptanceInv
    <3>2. MtlsNext \/ UNCHANGED jobVars
      BY DEF JobsNext
    <3> QED
      BY <3>1, <3>2, MtlsStep, MtlsStutter
  <2> QED
    BY <2>2, <2>3, <2>4, <2>5, <2>6, <2>7, <2>8, <2>9 DEF AcceptanceInv
<1> QED
  BY <1>1, <1>2, PTL DEF JobsSpec

(* Evidence the direct-STT verifier lets through is about a recording that went
   all the way, whatever the gateway, the pod and the streams did between the
   collector's calls. *)
THEOREM RecordingsAreReal == JobsSpec => []AcceptedRecordingIsReal
<1>1. AcceptanceInv => AcceptedRecordingIsReal
  BY E2eSafe DEF AcceptanceInv, AcceptedRecordingIsReal
<1> QED
  BY <1>1, AcceptanceInvariant, PTL

(* The expiry smoke passes on no gateway with one of the faults it looks for,
   whoever else uses the pod and however much. *)
THEOREM ExpiryVerdictsAreSound == JobsSpec => []ExpiryPassMeansSound
<1>1. AcceptanceInv => ExpiryPassMeansSound
  BY ExpirySafe DEF AcceptanceInv, ExpiryPassMeansSound
<1> QED
  BY <1>1, AcceptanceInvariant, PTL

(* A pass of the realtime acceptance saw a live analysis of its own session and
   read back one stored run of it, for any number of frames, of events in
   flight and of stored runs. *)
THEOREM RealtimeVerdictsAreLive == JobsSpec => []RealtimePassIsLive
<1>1. AcceptanceInv => RealtimePassIsLive
  BY RealtimeSafe DEF AcceptanceInv, RealtimePassIsLive
<1> QED
  BY <1>1, AcceptanceInvariant, PTL

(* The ingest smoke accepts no service with one of the faults, and never when
   another writer of the run got in between. *)
THEOREM IngestIsIdempotent == JobsSpec => []AcceptedIngestIsIdempotent
<1>1. AcceptanceInv => AcceptedIngestIsIdempotent
  BY IngestSafe DEF AcceptanceInv, AcceptedIngestIsIdempotent
<1> QED
  BY <1>1, AcceptanceInvariant, PTL

(* The verdict of a rollout is true of the host, also when a script fails at any
   step, the ssh call times out or the worker restarts meanwhile. *)
THEOREM RolloutVerdictsAreTrue == JobsSpec => []RolloutVerdictIsTrue
<1>1. AcceptanceInv => RolloutVerdictIsTrue
  BY RolloutSafe DEF AcceptanceInv, RolloutVerdictIsTrue
<1> QED
  BY <1>1, AcceptanceInvariant, PTL

(* Accepted I6 evidence is about a sound host whose rule carried a packet per
   connect between the two reads, for any number of connects and packets. *)
THEOREM MasqProbesAreCarried == JobsSpec => []AcceptedMasqIsCarried
<1>1. AcceptanceInv => AcceptedMasqIsCarried
  BY MasqSafe DEF AcceptanceInv, AcceptedMasqIsCarried
<1> QED
  BY <1>1, AcceptanceInvariant, PTL

(* When the I3 verifier accepts, the controls were in order no longer ago than
   the maximum age and the skew, whatever the ages, windows and skews are. *)
THEOREM ControlsAreRecent == JobsSpec => []AcceptedControlsAreRecent
<1>1. AcceptanceInv => AcceptedControlsAreRecent
  BY ControlsSafe DEF AcceptanceInv, AcceptedControlsAreRecent
<1> QED
  BY <1>1, AcceptanceInvariant, PTL

(* An accepted seed is where External Secrets reads it and an accepted preflight
   had a call served with such a seed, for any number of seeds and changes. *)
THEOREM MtlsMaterialIsServed == JobsSpec => []AcceptedMtlsIsServed
<1>1. AcceptanceInv => AcceptedMtlsIsServed
  BY MtlsSafe DEF AcceptanceInv, AcceptedMtlsIsServed
<1> QED
  BY <1>1, AcceptanceInvariant, PTL

=============================================================================
