--------------------------- MODULE MC_Acceptance ---------------------------
(***************************************************************************)
(* The acceptance jobs and the operational services for TLC.  A behaviour  *)
(* is one job, or one service, of one lane; the lanes share the frame of   *)
(* AcceptanceJob and nothing else, so they are checked side by side.       *)
(***************************************************************************)
EXTENDS RecorderE2e, ExpirySmoke, RealtimeLifecycle, AnalysisIngest, GpuRollout,
        WgMasqProbe, AuditControls, MtlsPreflight, AlertBridge, DeliveryPoller, SlaMonitor,
        HostCeremony, EtlReconcile, TransitBootstrap, PromotionLedger

(* The reconcile command: table a has up to two rows, so that the sample (10
   rows of the code) is smaller than the table, and the row limit covers it.
   The load left rows out of PostgreSQL, or an older content. *)
MCEtlTables == <<"a", "b">>
MCEtlStart ==
  LET Rows(one, two) == [a |-> one, b |-> two]
      Row(c) == [k \in EtlKeys |-> IF k = 1 THEN c ELSE "none"]
  IN  {[src |-> Rows(sa, Row(sb)), pg |-> Rows(pa, Row(pb))] :
         sa \in [EtlKeys -> {"none", "v1", "bad"}], pa \in [EtlKeys -> {"none", "v1", "v2"}],
         sb \in {"v1", "bad"}, pb \in {"none", "v1"}}

JobsInit == E2eInit \/ ExpiryInit \/ RealtimeInit \/ IngestInit \/ RolloutInit
            \/ MasqInit \/ ControlsInit \/ MtlsInit \/ BridgeInit \/ PollerInit \/ SlaInit
            \/ CeremonyInit \/ ReconcileInit \/ TransitInit \/ PromotionInit
JobsNext ==
  \/ lane = "e2e" /\ E2eNext
  \/ lane = "expiry" /\ ExpiryNext
  \/ lane = "realtime" /\ RealtimeNext
  \/ lane = "ingest" /\ IngestNext
  \/ lane = "rollout" /\ RolloutNext
  \/ lane = "masq" /\ MasqNext
  \/ lane = "controls" /\ ControlsNext
  \/ lane = "mtls" /\ MtlsNext
  \/ lane = "bridge" /\ BridgeNext
  \/ lane = "poller" /\ PollerNext
  \/ lane = "sla" /\ SlaNext
  \/ lane = "ceremony" /\ CeremonyNext
  \/ lane = "reconcile" /\ ReconcileNext
  \/ lane = "transit" /\ TransitNext
  \/ lane = "promotion" /\ PromotionNext
JobsSpec == JobsInit /\ [][JobsNext]_jobVars
=============================================================================
