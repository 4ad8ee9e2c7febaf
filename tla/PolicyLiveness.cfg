CONSTANTS
  None = None
  Requests = {r1}
  Req = r1
  Claims <- ApplyOnly
  Active <- ApplyOnly
  Bootstrapping = {}
  Unreliable <- ApplyOnly
  ExpiresAt <- ShortExpiresAt
  MaxStageOutcomeWait = 1
  RollbackDispatchHeadroom = 1
  MaxClock = 3
  RejectCodes = {"REJECTED"}
  MaxDispatchDelay = 1
  MaxBootstrapDelay = 0
  MaxClockSkew = 0
  QueueSize = 1
  MaxCrashes = 0
SPECIFICATION FairSpec
CHECK_DEADLOCK FALSE
PROPERTIES
  LeaseEnforced
  OverdueResolved
  
