CONSTANTS
  None = None
  Requests = {r1}
  Claims = {c1, c2, c3}
  ExpiresAt <- MCExpiresAt
  MaxStageOutcomeWait = 2
  RollbackDispatchHeadroom = 1
  MaxClock = 5
SYMMETRY Symmetry
SPECIFICATION Spec
CHECK_DEADLOCK FALSE
INVARIANTS
  Inv
PROPERTIES
  ImplementsOneTimeGrant
