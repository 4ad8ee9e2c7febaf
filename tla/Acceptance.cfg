SPECIFICATION JobsSpec
CHECK_DEADLOCK FALSE
CONSTANTS
  \* RealtimeLifecycle
  Frames = 1
  InFlight = 2
  Runs = {1, 2}
  \* ExpirySmoke
  MaxExpired = 2
  MaxChunks = 3
  \* WgMasqProbe
  Attempts = 2
  MaxCounter = 5
  MaxChanges = 2
  \* AuditControls
  MaxAge = 2
  FutureSkew = 1
  Window = 1
  MaxTime = 4
  BoundedSkew = 1
  Fast = 4
  \* MtlsPreflight
  MaxSeeds = 2
  MaxMtlsChanges = 1
  \* AlertBridge
  SmsCap = 1
  Hour = 1
  TokenLife = 1
  MaxHooks = 3
  MaxBacklog = 2
  MaxAlertChanges = 2
  MaxBridgeFaults = 1
  BridgeEnd = 2
  \* DeliveryPoller
  MaxDeliveries = 3
  PollerEnd = 3
  MaxOutages = 1
  MaxAgeTicks = 3
  Overlap = 1
  StaleAfter = 1
  PageCap = 2
  \* SlaMonitor
  FixPrs = {6, 64}
  WarningHours = 1
  CriticalHours = 2
  WindowHours = 2
  MaxDeploys = 2
  MaxHours = 3
  MaxGhFaults = 1
  \* HostCeremony
  MaxHostFaults = 2
  \* EtlReconcile
  EtlTables <- MCEtlTables
  EtlKeys = {1, 2}
  EtlStart <- MCEtlStart
  SampleRows = 1
  RowLimit = 2
  MaxEtlChanges = 1
  \* TransitBootstrap
  MaxTransitFaults = 1
  MaxTransitRuns = 2
  MaxKeyVersion = 2
  \* PromotionLedger
  LagDays = 0
  MaxMoves = 3
  MaxSmokes = 2
  MaxPrs = 2
INVARIANTS
  
  ExpiryPassMeansSound
  RealtimePassIsLive
  AcceptedIngestIsIdempotent
  RolloutVerdictIsTrue
  AcceptedMasqIsCarried
  
  
  
  
  ReadyMeansCaughtUp
  
  
  MatchMeansSameRows
  ReceiptIsWhatWasRead
  
