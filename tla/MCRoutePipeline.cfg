SPECIFICATION FairSpec
CONSTANTS
    StrictPenalty = 15
    r1 = r1
    m1 = m1
    m2 = m2
    m3 = m3
    NoModel = NoModel
    Requests <- MCRequests
    Models <- MCModels
    WeakTier <- MCWeak
    StrongTier <- MCStrong
    JudgeOrder <- MCJudges
    KeyCount <- MCKeyCount
    Scores = {10, 80}
    Thresholds = {0, 70}
INVARIANTS
    AnswerFromTier
    CycleGoesStrong
    JudgeAsPromised
    InactiveNeverAnswers
PROPERTIES
    Answered
