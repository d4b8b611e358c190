SPECIFICATION Spec
CONSTANTS
    NoInstance = NoInstance
    NoValue = NoValue
    Env <- MCEnv
    ModelIds <- MCModels
    LegacyFiles <- MCLegacy
    EnvKeys <- MCEnvKeys
    Gemini = "g"
    JudgeNamed = {3}
    NewModels <- MCNewModels
    ModelUpdates <- MCUpdates
    OrderUpdates <- MCOrders
    JudgeUpdates <- MCJudges
    KeyUpdates <- MCKeys
    FilesByHand <- MCFiles
    MaxChanges = 4
INVARIANT PipelineGetsWhatItNeeds
PROPERTIES
    KeysNeverBreakTheFile
    OnlyTheTargetChanges
