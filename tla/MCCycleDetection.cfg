SPECIFICATION CyclesSpec
CONSTANTS
    s1 = s1
    s2 = s2
    s3 = s3
    r1 = r1
    r2 = r2
    Sessions <- ThreeSessions
    Requests <- TwoRequests
    Prompts = {1, 2}
    Responses = {1, 2}
    None = 0
    SimHash <- HashOf
    Threshold = 1
    MaxSize = 2
    MaxHashes = 2
SYMMETRY Alike
INVARIANTS
    CyclesTypeOK
    KeepsLatestSessions
    RepetitionIsSeen
