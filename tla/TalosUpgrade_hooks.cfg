SPECIFICATION HistorySpec
CONSTANTS
    N = 2
    ControlPlane = {1}
    Parallelism = 1
    PreHooks = 2
    PostHooks = 2
    DrainOwned = TRUE
    MaxCompletionCycles = 1
    Targets = {1}
    LateNodes = {2}
    UserActions = {"edit"}
    MaxGeneration = 2
    MaxFaults = 1
    ControllerDowntime = TRUE
    PromptReboots = FALSE
INVARIANTS
    HooksRunAlone
PROPERTIES
    UpgradeOnlyAfterPreHooks
    RollsOut
