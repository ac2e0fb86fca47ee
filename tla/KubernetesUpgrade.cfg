SPECIFICATION FairSpec
CONSTANTS
    Node = {c1, w1}
    ControlPlane = {c1}
    LateNodes = {w1}
    FirstTarget = 1
    Targets = {1, 2}
    MaxCompletionCycles = 1
    UserActions = {"suspend", "reset", "edit"}
    MaxGeneration = 2
    MaxJobs = 2
    MaxFaults = 1
INVARIANTS
    TypeOK
    EndedRunIsIdle
    OneLateStart
    OneJobAtATime
PROPERTIES
    RunEnds
    LagResolves
    CompletesAtTarget
