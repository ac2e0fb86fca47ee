SPECIFICATION Spec
CONSTANTS
    N = 4
    ControlPlane = {1, 3}
    Parallelism = 2
    PreHooks = 0
    PostHooks = 0
    DrainOwned = TRUE
    MaxCompletionCycles = 1
    Targets = {1}
    LateNodes = {3, 4}
    UserActions = {"suspend"}
    MaxGeneration = 1
    MaxFaults = 0
    ControllerDowntime = TRUE
    PromptReboots = TRUE
INVARIANTS
    TypeOK
    OneBatchAtATime
    OneControlPlaneDown
    CompletedAtTarget
    CompletedLeavesNoMarks
    DrainedBatchMayStart
PROPERTIES
    EndsHealthy
