SPECIFICATION RunSpec
CONSTANTS
  Families <- MCFamilies
  Findings = {"F1"}
  TrustKeys <- MCTrustKeys
  RootUntil = 9
  Skew = 0
  MaxGrantTtl = 3
  Executions <- MCExecutions
  Leases <- MCLeases
  Workflows <- MCWorkflows
  Entries <- MCEntries
  Drifts = {"environment", "ref", "runners"}
  ReviewTtl = 1
  GrantEnd = 2
  ListTtl = 1
  PinnedUntil = 2
  DispatchDelay = 1
  BootstrapDelay = 1
  MaxClock = 2
  MaxReviews = 4
  MaxChanges = 1
  NoValue = NoValue
  Jobs = {j1}
  Workers = {w1, w2}
  FinalizedAt <- MCFinalizedAt
  IntentExpiresAt <- ShortExpiresAt
  MaxDispatchDelay = 2
  MaxQueryWindow = 2
  MaxClockSkew = 1
  MaxNow = 3
  MaxRuns = 2
SYMMETRY Symmetry
INVARIANTS
  OnePostAboveWatermark
  AgreedKnowingTheAnswers
  
CHECK_DEADLOCK FALSE
