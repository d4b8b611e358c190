SPECIFICATION FairSpec
CONSTANTS
    s1 = s1
    s2 = s2
    r1 = r1
    r2 = r2
    Sessions <- MCSessions
    Requests <- MCTwoRequests
    Estimate = 4
    Epsilon = 2
    MaxRetries = 2
    EnvLimit = 10
    PolicyLimits <- MCPolicyLimits
    Costs <- MCCosts
    KillSwitch = TRUE
INVARIANTS
    WithinLimit
    HeldCovered
    CostIsAccounted
    SpendWithinLimit
PROPERTIES
    RefinesLedger
    Answered
