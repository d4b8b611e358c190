SPECIFICATION LimiterFairSpec
CONSTANTS
    w1 = w1
    w2 = w2
    w3 = w3
    Workers <- ThreeWorkers
    Margin = 95
    Rpm = 4
    Tpm = 40
    Rpd = 6
    Tpd = 60
    Minute = 1
    Day = 3
    Tokens = {0, 10}
INVARIANTS
    LimiterTypeOK
    OvershootBounded
    MinuteIsLatestOfDay
PROPERTIES
    Recovers
