SPECIFICATION Spec
CONSTANTS
    N = 2
    ControlPlane = {1}
    Parallelism = 1
    PreHooks = 1
    PostHooks = 1
    DrainOwned = FALSE
    MaxCompletionCycles = 0
    Targets = {1}
    LateNodes = {}
    UserActions = {"suspend"}
    MaxGeneration = 1
    MaxFaults = 0
    ControllerDowntime = FALSE
    PromptReboots = TRUE
PROPERTIES
    FailedPreHookSkipsUpgrade
