SPECIFICATION Spec
CONSTANTS
    e1 = e1
    g1 = g1
    g2 = g2
    k1 = k1
    Null = Null
    ActivationMode = "reactivation"
    Events <- MCEvents
    Signers <- MCSigners
    Tokens <- MCTokens
    Freshness = 1
    MaxCollection = 1
    MaxAge = 1
    SkewAllowed = 0
    RedisScanMax = 1
    MaxOccurrences = 1
    MaxClock = 3
    MaxCollections = 1
SYMMETRY Symmetry
INVARIANTS PermitIsJustified OneTokenOnePermit
CHECK_DEADLOCK FALSE
