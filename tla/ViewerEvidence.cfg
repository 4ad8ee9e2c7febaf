SPECIFICATION ViewerSpec
CONSTANTS
  p1 = p1
  p2 = p2
  c1 = c1
  Negative = Negative
  Nothing = Nothing
  Pilots <- MCPilots
  Cases <- MCCases
  CollectorFiles = {"browser", "consent", "consent-source"}
  AuthTtl = 1
  RunSkew = 0
  ActivationDelay = 0
  MinPilot = 0
  MaxPilot = 1
  MatrixWindow = 1
  MaxAge = 0
  MaxActivations = 2
  MaxFrames = 1
  MaxNow = 1
INVARIANTS
  OnePilot
  
  
CHECK_DEADLOCK FALSE
