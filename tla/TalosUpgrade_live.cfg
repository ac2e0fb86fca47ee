SPECIFICATION FairSpec
CONSTANTS
    N = 3
    ControlPlane = {1}
    Parallelism = 1
    PreHooks = 1
    PostHooks = 1
    DrainOwned = TRUE
    MaxCompletionCycles = 1
    Targets = {1}
    LateNodes = {2}
    UserActions = {}
    MaxGeneration = 1
    MaxFaults = 0
    ControllerDowntime = FALSE
    PromptReboots = FALSE
PROPERTIES
    RunEnds
    RebootsResolve
