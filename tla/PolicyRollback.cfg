CONSTANTS
  None = None
  Requests = {r1}
  Req = r1
  Claims <- ApplyAndRollback
  Active <- ApplyAndRollback
  Bootstrapping = {}
  Unreliable <- ApplyOnly
  ExpiresAt <- ShortExpiresAt
  MaxStageOutcomeWait = 1
  RollbackDispatchHeadroom = 1
  MaxClock = 3
  RejectCodes = {"REJECTED"}
  MaxDispatchDelay = 1
  MaxBootstrapDelay = 0
  MaxClockSkew = 1
  QueueSize = 1
  MaxCrashes = 0
SPECIFICATION SvcSpec
CHECK_DEADLOCK FALSE
INVARIANTS
  RollbackAfterApplyRun
