SPECIFICATION FairSpec
CONSTANTS
    a = a
    b = b
    e1 = e1
    e2 = e2
    Judges = {a, b}
    ModelOrder <- AThenB
    Evaluations = {e1, e2}
    Configured <- MCConfigured
    FailureThreshold = 2
    Cooldown = 1
    MaxAttempts = 2
INVARIANTS
    FailingJudgeIsSpared
    HeuristicIsLastResort
PROPERTIES
    TriedAgain
