SPECIFICATION Spec
CONSTANTS
    b1 = b1
    b2 = b2
    b3 = b3
    t1 = t1
    t2 = t2
    t3 = t3
    Bodies = {b1, b2, b3}
    Carries <- MCCarries
    Filed = {b3}
    KnownBodies = 2
    MaxLives = 1
    Wait = 1
    MaxSpans = 4
    MaxTraces = 2
    MayDie = TRUE
    Graphs = {"new", "absent"}
    MayFailAtClose = FALSE
INVARIANTS EachSpanIsKeptOnce WhatAFileSaidIsCountedOnce ASweepReachesAllThatIsDue StoppedMeansWritten
PROPERTIES TheOldestGoesFirst TakenIsWritten ClosingEnds
CHECK_DEADLOCK FALSE
