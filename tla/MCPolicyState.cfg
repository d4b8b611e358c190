SPECIFICATION Spec
CONSTANTS
    h1 = h1
    h2 = h2
    Handlers <- Two
    Costs = {0, 1, 2}
    BaseCost = 1
    Modes = {"never", "smart"}
    BaseMode = "smart"
    SessionIds = {1, 2}
    BaseId = 1
SYMMETRY Alike
INVARIANTS
    UpdatesSurvive
    SavedWasInForce
