CONSTANTS
  None = None
  Requests = {r1}
  Req = r1
  Claims <- ApplyOnly
  Active <- ApplyOnly
  Bootstrapping <- ApplyOnly
  Unreliable <- ApplyOnly
  ExpiresAt <- ShortExpiresAt
  MaxStageOutcomeWait = 1
  RollbackDispatchHeadroom = 1
  MaxClock = 3
  RejectCodes = {"REJECTED"}
  MaxDispatchDelay = 1
  MaxBootstrapDelay = 1
  MaxClockSkew = 0
  QueueSize = 1
  MaxCrashes = 1
SPECIFICATION SvcSpec
CHECK_DEADLOCK FALSE
INVARIANTS
  OneDecisionGatesProgress
PROPERTIES
  ImplementsRegistry
