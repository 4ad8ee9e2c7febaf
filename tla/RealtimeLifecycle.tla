------------------------- MODULE RealtimeLifecycle -------------------------
(***************************************************************************)
(* run_speechmatics_realtime_lifecycle_acceptance.py: three asyncio tasks  *)
(* share one job.  The sender (stream_audio) plays the recording into a    *)
(* WebSocket, the receiver counts the events that come back, and the       *)
(* observer (live_analysis_observer.py) follows the live analysis of the   *)
(* meeting; then the stored result is read back twice.  A task runs alone  *)
(* between two awaits, so a step below is what happens between two awaits. *)
(* Gateway, provider and analysis are external.                            *)
(***************************************************************************)
EXTENDS AcceptanceJob, Naturals, Sequences

CONSTANTS Frames, InFlight, Runs   \* bounds: frames of speech, events in flight, stored runs

NoMetrics == [ready |-> FALSE, providerReady |-> FALSE, partial |-> FALSE, final |-> FALSE,
              whileSpeaking |-> FALSE, eofAck |-> FALSE, drained |-> FALSE,
              late |-> FALSE, error |-> FALSE, words |-> FALSE]
NoResult == [run |-> 0, own |-> FALSE, usable |-> FALSE]

RealtimeInit ==
  /\ lane = "realtime"
  /\ env = [session |-> "none", ws |-> <<>>, sse |-> <<>>, told |-> {}, eof |-> FALSE,
            usableEarly |-> FALSE, transcripts |-> FALSE, result |-> NoResult]
  /\ job = [pc |-> "create", snd |-> "off", frames |-> 0, speaking |-> FALSE,
            recording |-> FALSE, usable |-> FALSE, m |-> NoMetrics, finished |-> FALSE,
            count |-> FALSE, first |-> NoResult, source |-> 0, same |-> FALSE,
            verdict |-> "none"]

(***************************************************************************)
(* create_lifecycle: meeting, consent, session, lifecycle start.  When it  *)
(* raises after the session was started the caller has no session ID, so   *)
(* nobody finishes that session.                                           *)
(***************************************************************************)
CreateLifecycle ==
  /\ At("realtime", "create")
  /\ \/ Step([env EXCEPT !.session = "active"], [job EXCEPT !.pc = "stream", !.snd = "connect"])
     \/ Step(env, Ends(job, "fail"))
     \/ Step([env EXCEPT !.session = "active"], Ends(job, "fail"))

Sending(state) == At("realtime", "stream") /\ job.snd = state

(* The stream ends with its metrics, or with an exception that loses them;
   either way finally stops the observer and finishes the session. *)
StreamEnds(m) == [job EXCEPT !.pc = "finish", !.snd = "off", !.speaking = FALSE,
                             !.recording = FALSE, !.m = m]
StreamRaises == StreamEnds(NoMetrics)
(* What was in flight on a closed connection is gone. *)
Closed == [env EXCEPT !.ws = <<>>, !.sse = <<>>, !.told = {}]

(* Connected and ready within the timeout: the clock of the audio starts. *)
StartAudio ==
  /\ Sending("connect") /\ job.m.ready
  /\ Step(env, [job EXCEPT !.snd = "audio", !.speaking = TRUE, !.recording = TRUE])

SendFrame ==
  /\ Sending("audio") /\ job.frames < Frames
  /\ Step(env, [job EXCEPT !.frames = @ + 1])

(* The recording is over; paced silence keeps the session open for the
   live analysis until it is usable or the wait is over. *)
StartSilence ==
  /\ Sending("audio") /\ job.frames = Frames
  /\ Step(env, [job EXCEPT !.snd = "silence", !.speaking = FALSE, !.frames = 0])

(* Mutant: recording is switched off only after EOF went out. *)
CloseRecordingLate == [job EXCEPT !.snd = "eof"]
CloseRecording == [job EXCEPT !.snd = "eof", !.recording = FALSE]

StopRecording ==
  /\ Sending("silence")
  /\ Step(env, CloseRecording)

SendEof ==
  /\ Sending("eof")
  /\ Step([env EXCEPT !.eof = TRUE], [job EXCEPT !.snd = "drain"])

(* asyncio.wait_for(drained): the receiver's exception surfaces here; the
   keywords are counted in what was heard. *)
AwaitDrained ==
  /\ Sending("drain")
  /\ \/ job.m.error /\ Step(Closed, StreamRaises)
     \/ /\ ~job.m.error
        /\ \E words \in BOOLEAN :
             Step(Closed, StreamEnds([job.m EXCEPT !.late = ~job.m.drained, !.words = words]))

(* Connection refused, no ready event in time, or the socket closed. *)
StreamBreaks ==
  /\ At("realtime", "stream")
  /\ Step(Closed, StreamRaises)

(***************************************************************************)
(* receive: one event per step, until drained or an error ends the task.   *)
(***************************************************************************)
Metered(m, e) ==
  CASE e = "ready" -> [m EXCEPT !.ready = TRUE, !.providerReady = TRUE]
    [] e = "ready-other" -> [m EXCEPT !.ready = TRUE, !.providerReady = FALSE]
    [] e = "partial" -> [m EXCEPT !.partial = TRUE, !.whileSpeaking = @ \/ job.speaking]
    [] e = "final" -> [m EXCEPT !.final = TRUE]
    [] e = "eof_ack" -> [m EXCEPT !.eofAck = TRUE]
    [] e = "drained" -> [m EXCEPT !.drained = TRUE]
    [] e = "error" -> [m EXCEPT !.error = TRUE]
Receive ==
  /\ At("realtime", "stream")
  /\ env.ws # <<>> /\ ~job.m.drained /\ ~job.m.error
  /\ Step([env EXCEPT !.ws = Tail(@)], [job EXCEPT !.m = Metered(@, Head(env.ws))])

(* AnalysisObserver.push: only a snapshot with a visible summary, decisions
   and actions that arrives while the recording is open counts. *)
Observe ==
  /\ At("realtime", "stream") /\ env.sse # <<>>
  /\ Step([env EXCEPT !.sse = Tail(@)],
          [job EXCEPT !.usable = @ \/ (Head(env.sse) = "usable" /\ job.recording)])

(* finish_lifecycle: finish, status, lifecycle end. *)
FinishLifecycle ==
  /\ At("realtime", "finish")
  /\ \/ Step([env EXCEPT !.session = "finished"], [job EXCEPT !.pc = "read", !.finished = TRUE])
     \/ \E s \in {"active", "finished"} : Step([env EXCEPT !.session = s], [job EXCEPT !.pc = "judge"])

(***************************************************************************)
(* durable_readback: each poll reads the transcripts, then the result; the *)
(* last count and the last result stay when a later poll answers 404.      *)
(***************************************************************************)
Poll ==
  /\ At("realtime", "read")
  /\ LET count == job.count \/ env.transcripts
         seen  == IF env.result # NoResult THEN env.result ELSE job.first
     IN  Step(env, [job EXCEPT !.count = count, !.first = seen,
                               !.pc = IF count /\ seen.own THEN "source" ELSE "read"])

ReadbackEnds ==
  /\ At("realtime", "read")
  /\ \/ Step(env, [job EXCEPT !.pc = IF job.first.own THEN "source" ELSE "judge"])
     \/ Step(env, [job EXCEPT !.pc = "judge", !.first = NoResult, !.count = FALSE])

(* reopen_evidence: the transcript of the run that was read, then the
   result once more. *)
ReadSource ==
  /\ At("realtime", "source")
  /\ \E available \in BOOLEAN :
       Step(env, [job EXCEPT !.pc = "reopen", !.source = IF available THEN job.first.run ELSE 0])
Reopen ==
  /\ At("realtime", "reopen")
  /\ \/ Step(env, [job EXCEPT !.pc = "judge", !.same = env.result = job.first])
     \/ Step(env, [job EXCEPT !.pc = "judge", !.first = NoResult, !.count = FALSE])

(* product_evidence: a persisted, grounded summary with decisions and actions. *)
ProductEvidence(r) == r # NoResult /\ r.usable

(* The conjunction at the end of run, with the live analysis asked for. *)
Passed ==
  /\ job.finished
  /\ job.m.ready /\ job.m.providerReady /\ job.m.whileSpeaking /\ job.m.partial
  /\ job.m.final /\ job.m.eofAck /\ job.m.drained /\ ~job.m.late /\ job.m.words
  /\ job.count /\ job.first.own /\ ProductEvidence(job.first) /\ job.same /\ job.source # 0
  /\ job.usable
Judge ==
  /\ At("realtime", "judge")
  /\ Step(env, Ends(job, IF Passed THEN "pass" ELSE "fail"))

(***************************************************************************)
(* The external side.  Events keep their order on each connection, and     *)
(* each kind is sent once.                                                 *)
(***************************************************************************)
Due(e) ==
  /\ e \notin env.told
  /\ CASE e \in {"ready", "ready-other"} -> env.told \cap {"ready", "ready-other"} = {}
       [] e \in {"partial", "final"} -> job.frames > 0 \/ env.eof \/ job.snd = "silence"
       [] e \in {"eof_ack", "drained"} -> env.eof
       [] e = "error" -> TRUE
GatewayEvent ==
  /\ At("realtime", "stream") /\ Len(env.ws) < InFlight
  /\ \E e \in {"ready", "ready-other", "partial", "final", "eof_ack", "drained", "error"} :
       Due(e) /\ Step([env EXCEPT !.ws = Append(@, e), !.told = @ \cup {e}], job)

AnalysisEvent ==
  /\ At("realtime", "stream") /\ Len(env.sse) = 0
  /\ \E a \in {"usable", "thin"} :
       /\ a \notin env.told
       /\ Step([env EXCEPT !.sse = Append(@, a), !.told = @ \cup {a},
                           !.usableEarly = @ \/ (a = "usable" /\ ~env.eof)], job)

(* Transcripts and analysis runs are stored while the job reads them back. *)
StoreTranscript ==
  /\ lane = "realtime" /\ job.finished /\ job.pc # "done" /\ ~env.transcripts
  /\ Step([env EXCEPT !.transcripts = TRUE], job)
StoreResult ==
  /\ lane = "realtime" /\ job.finished /\ job.pc # "done" /\ env.result.run + 1 \in Runs
  /\ \E own, usable \in BOOLEAN :
       Step([env EXCEPT !.result = [run |-> env.result.run + 1, own |-> own, usable |-> usable]], job)

RealtimeNext ==
  \/ CreateLifecycle \/ StartAudio \/ SendFrame \/ StartSilence \/ StopRecording \/ SendEof
  \/ AwaitDrained \/ StreamBreaks \/ Receive \/ Observe \/ FinishLifecycle
  \/ Poll \/ ReadbackEnds \/ ReadSource \/ Reopen \/ Judge
  \/ GatewayEvent \/ AnalysisEvent \/ StoreTranscript \/ StoreResult

(***************************************************************************)
(* A realtime acceptance that passes saw a usable live analysis that the   *)
(* gateway had published before it was told the recording was over, on a   *)
(* session that is finished, and read back one stored analysis run of that *)
(* session: the source it opened belongs to the run of both reads.         *)
(***************************************************************************)
RealtimePassIsLive ==
  lane = "realtime" /\ job.verdict = "pass" =>
    /\ env.usableEarly /\ env.eof /\ env.session = "finished" /\ env.transcripts
    /\ job.source = job.first.run /\ env.result.run >= job.source
    /\ env.result.run = job.source => env.result.own /\ env.result.usable
=============================================================================
