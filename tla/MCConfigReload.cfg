SPECIFICATION FairSpec
CONSTANTS
    p1 = p1
    p2 = p2
    k1 = k1
    Watcher = Watcher
    Patches <- OnePatch
    KeyUpdates <- OneKey
    MaxEdits = 1
    MaxCrashes = 1
CHECK_DEADLOCK FALSE
INVARIANTS
    InForceWasGood
    DigestIsHonest
    DashboardKeepsFileGood
PROPERTIES
    FileTakesEffect
