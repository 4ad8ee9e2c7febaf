SPECIFICATION AppendSpec
CONSTANTS
    r1 = r1
    r2 = r2
    e1 = e1
    i1 = i1
    i2 = i2
    i3 = i3
    u1 = u1
    u2 = u2
    Retriers <- MCRetriers
    Emitters <- MCEmitters
    Intents <- MCIntents
    Fresh <- MCOneFresh
    QueueLimit = 3
    Tolerance = 0
    MaxQueue = 3
    MaxMinutes = 1
    MaxCrashes = 1
SYMMETRY Symmetry
INVARIANTS AckedIsRecorded
PROPERTIES RefinesLog
CHECK_DEADLOCK FALSE
