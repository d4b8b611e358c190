SPECIFICATION Spec
CONSTANTS
    p1 = p1
    p2 = p2
    k1 = k1
    Watcher = Watcher
    Patches <- TwoPatches
    KeyUpdates <- NoKeys
    MaxEdits = 0
    MaxCrashes = 0
CHECK_DEADLOCK FALSE
INVARIANT AcknowledgedIsKept
