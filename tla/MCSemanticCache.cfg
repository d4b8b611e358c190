SPECIFICATION Spec
CONSTANTS
    k1 = k1
    k2 = k2
    w1 = w1
    w2 = w2
    Nobody = Nobody
    Keys <- MCKeys
    LogKey <- MCLogKey
    Workers <- MCWorkers
    Operations = {"ask", "record", "reset"}
    MinSamples = 2
    MinConfidence = 75
    Ttl = 0
    DatabaseFails = TRUE
    MaxObjects = 2
    MaxClock = 1
    MaxCalls = 2
SYMMETRY MCSymmetry
INVARIANTS
    EvidenceIsReal
    AnswersAreBacked
    WaitersAreServed
PROPERTY
    LoadLosesNothing
