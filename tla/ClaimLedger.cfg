SPECIFICATION Spec
CONSTANTS
    s1 = s1
    s2 = s2
    p1 = p1
    p2 = p2
    NoSession = NoSession
    Sessions <- MCSessions
    Planners <- MCPlanners
    HeartbeatWindow = 0
    ClaimTtl = 1
    MaxClock = 2
    MaxEvents = 4
SYMMETRY Symmetry
INVARIANTS OustedStaysOut 
PROPERTIES PlansStayCurrent
CHECK_DEADLOCK FALSE
