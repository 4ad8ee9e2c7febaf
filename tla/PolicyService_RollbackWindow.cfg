CONSTANTS
  None = None
  Requests = {r1}
  Req = r1
  Claims <- ApplyOnly
  Active <- ApplyOnly
  Bootstrapping <- ApplyOnly
  Unreliable <- ApplyOnly
  ExpiresAt <- HourExpiresAt
  MaxStageOutcomeWait = 6
  RollbackDispatchHeadroom = 3
  MaxClock = 12
  RejectCodes = {"REJECTED"}
  MaxDispatchDelay = 2
  MaxBootstrapDelay = 0
  MaxClockSkew = 0
  QueueSize = 1
  MaxCrashes = 0
SPECIFICATION SvcSpec
CHECK_DEADLOCK FALSE
INVARIANT
  UnlockedRollbackAdmissible
