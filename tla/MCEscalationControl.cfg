SPECIFICATION EscalationFairSpec
CONSTANTS
    r1 = r1
    r2 = r2
    Goroutines <- TwoGoroutines
    Asks <- MCAsks
    WindowSize = 2
    TargetRate = 20
    InitialThreshold = 10
    StrictPenalty = 3
    Ceiling = 8
    MaxHistory = 4
INVARIANT EscalationTypeOK
PROPERTIES
    MovesOnEvidence
    StrictModeEnds
