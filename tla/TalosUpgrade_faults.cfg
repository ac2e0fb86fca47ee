SPECIFICATION Spec
CONSTANTS
    N = 2
    ControlPlane = {1}
    Parallelism = 1
    PreHooks = 0
    PostHooks = 1
    DrainOwned = TRUE
    MaxCompletionCycles = 0
    Targets = {1}
    LateNodes = {}
    UserActions = {"suspend", "reset", "edit"}
    MaxGeneration = 2
    MaxFaults = 1
    ControllerDowntime = TRUE
    PromptReboots = FALSE
INVARIANTS
    OneBatchAtATime
    OutcomesAreSettled
    CompletedHidesNoFailure
