---------------------------- MODULE ExpirySmoke ----------------------------
(***************************************************************************)
(* run_audio_gateway_session_expiry_smoke.py: on a transient gateway pod   *)
(* with room for one session, a session is left to expire and its room     *)
(* must be usable again.  The smoke sees the gateway only through status   *)
(* codes and a handful of metrics.  The gateway is external and may have   *)
(* any one fault of Faults; another client may use the pod meanwhile.      *)
(***************************************************************************)
EXTENDS AcceptanceJob, Naturals

CONSTANTS MaxExpired, MaxChunks   \* bounds of the other client: sessions left, chunks

(* What the acceptance is meant to rule out. *)
Faults == {"leaks-reservation", "cleanup-error", "unbounded-registry",
           "never-expires", "keeps-status"}
GatewayFaults == Faults \cup {"sound"}

ExpiryInit ==
  /\ lane = "expiry"
  /\ \E f \in GatewayFaults :
       env = [fault |-> f, registry |-> {}, reserved |-> {}, expired |-> 0,
              cleanupErrors |-> 0, buffered |-> 0, dropped |-> 0, ended |-> {}]
  /\ job = [pc |-> "setup", verdict |-> "none"]

(* maxActiveSessions and maxBufferedSessions are overridden to one. *)
RegistryFull == ~(env.fault = "unbounded-registry") /\ env.registry # {}

Started(s) == [env EXCEPT !.registry = @ \cup {s}]
(* A chunk of an active session reserves frames in the aggregator, if the
   aggregator has room; if not, the chunk is dropped and counted. *)
Buffered(s) ==
  IF env.reserved \ {s} = {} THEN [env EXCEPT !.reserved = {s}, !.buffered = @ + 1]
                             ELSE [env EXCEPT !.dropped = @ + 1]

Fail == Step(env, Ends(job, "fail"))
Goto(pc) == [job EXCEPT !.pc = pc]

(* Loopback URLs, immutable image, pod UID, token contract, meeting and
   consent: any of them may raise. *)
Setup ==
  /\ At("expiry", "setup")
  /\ Step(env, Goto("baseline"))

(* _metrics_snapshot: every metric of the transient pod must read zero. *)
AllZero == env.expired = 0 /\ env.cleanupErrors = 0 /\ env.buffered = 0 /\ env.dropped = 0
           /\ env.reserved = {}
Baseline ==
  /\ At("expiry", "baseline")
  /\ IF AllZero THEN Step(env, Goto("start-first")) ELSE Fail

(* _start_session must answer 201 here and 503 at "capacity-full". *)
StartFirst ==
  /\ At("expiry", "start-first")
  /\ IF RegistryFull THEN Fail ELSE Step(Started("first"), Goto("upload-first"))

UploadFirst ==
  /\ At("expiry", "upload-first")
  /\ IF "first" \in env.registry
     THEN Step(Buffered("first"), Goto("reserved")) ELSE Fail

(* Predicates of the four _wait_for_metrics calls.  A metric is a total:
   it does not say whose session it counts. *)
OneReserved(chunks) ==
  env.reserved # {} /\ env.buffered = chunks
Reused == OneReserved(2) /\ env.dropped = 0

Drained == env.expired = 1 /\ env.cleanupErrors = 0 /\ env.reserved = {}

NoneReserved == env.reserved = {} /\ env.cleanupErrors = 0

(* A poll that never finds its predicate true raises at the deadline. *)
Waits(pred, pc, next) ==
  /\ At("expiry", pc)
  /\ IF pred THEN Step(env, next) ELSE Fail

WaitReserved == Waits(OneReserved(1), "reserved", Goto("capacity-full"))

CapacityFull ==
  /\ At("expiry", "capacity-full")
  /\ IF RegistryFull THEN Step(env, Goto("drained"))
     ELSE Step(Started("second"), Ends(job, "fail"))

WaitExpired == Waits(Drained, "drained", Goto("gone"))

(* The expired session must answer 404: out of the registry, and its status
   with it. *)
(* Mutant: the smoke looks at the registry only through its capacity. *)
AnyAnswer == TRUE
NotFound == "first" \notin env.registry /\ env.fault # "keeps-status"

ExpiredNotFound ==
  /\ At("expiry", "gone")
  /\ IF NotFound THEN Step(env, Goto("start-reused")) ELSE Fail

StartReused ==
  /\ At("expiry", "start-reused")
  /\ IF RegistryFull THEN Fail ELSE Step(Started("reused"), Goto("upload-reused"))

UploadReused ==
  /\ At("expiry", "upload-reused")
  /\ IF "reused" \in env.registry
     THEN Step(Buffered("reused"), Goto("reused")) ELSE Fail

WaitReused == Waits(Reused, "reused", Goto("finish"))

FinishReused ==
  /\ At("expiry", "finish")
  /\ IF "reused" \in env.registry
     THEN Step([env EXCEPT !.registry = @ \ {"reused"}, !.reserved = @ \ {"reused"}],
               Goto("released"))
     ELSE Fail

WaitReleased == Waits(NoneReserved, "released", Ends(job, "pass"))

(* Any request may time out or answer with another status. *)
RequestFails ==
  /\ lane = "expiry"
  /\ job.pc \in {"setup", "baseline", "start-first", "upload-first", "capacity-full",
                 "gone", "start-reused", "upload-reused", "finish"}
  /\ Fail

(***************************************************************************)
(* The gateway.  The sweep takes a session out of the registry, then its   *)
(* cleanup releases the reservation and counts.                            *)
(***************************************************************************)
SweepSession(s) ==
  /\ Live("expiry") /\ s \in env.registry
  /\ env.fault # "never-expires"
  /\ Step([env EXCEPT !.registry = @ \ {s}, !.ended = @ \cup {s}], job)

CleanUp(s) ==
  /\ Live("expiry") /\ s \in env.ended
  /\ Step([env EXCEPT
             !.ended = @ \ {s}, !.expired = @ + 1,
             !.cleanupErrors = IF env.fault = "cleanup-error" THEN @ + 1 ELSE @,
             !.reserved = IF env.fault = "leaks-reservation" THEN @ ELSE @ \ {s}], job)

(* Another client of the pod, as long as the registry lets it in; MaxExpired
   and MaxChunks bound what it does. *)
ForeignStart ==
  /\ Live("expiry") /\ "foreign" \notin env.registry \cup env.ended /\ ~RegistryFull
  /\ env.expired < MaxExpired
  /\ Step(Started("foreign"), job)
ForeignUpload ==
  /\ Live("expiry") /\ "foreign" \in env.registry /\ env.buffered + env.dropped < MaxChunks
  /\ Step(Buffered("foreign"), job)

Sessions == {"first", "second", "reused", "foreign"}
ExpiryNext ==
  \/ Setup \/ Baseline \/ StartFirst \/ UploadFirst \/ WaitReserved \/ CapacityFull
  \/ WaitExpired \/ ExpiredNotFound \/ StartReused \/ UploadReused \/ WaitReused
  \/ FinishReused \/ WaitReleased \/ RequestFails \/ ForeignStart \/ ForeignUpload
  \/ \E s \in Sessions : SweepSession(s) \/ CleanUp(s)

(***************************************************************************)
(* The smoke passes on no gateway with one of the faults it is there to    *)
(* rule out, whoever else uses the pod: when it passes, the session that   *)
(* was left alone is out of the registry, its cleanup is done and its      *)
(* reservation is free.                                                    *)
(***************************************************************************)
ExpiryPassMeansSound ==
  lane = "expiry" /\ job.verdict = "pass" =>
    /\ env.fault = "sound"
    /\ "first" \notin env.registry \cup env.ended \cup env.reserved
=============================================================================
