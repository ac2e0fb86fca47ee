SPECIFICATION Spec
CONSTANTS
    Node = {c1, w1}
    ControlPlane = {c1}
    LateNodes = {w1}
    FirstTarget = 1
    Targets = {1}
    MaxCompletionCycles = 1
    UserActions = {}
    MaxGeneration = 1
    MaxJobs = 1
    MaxFaults = 0
PROPERTIES
    ReopenedRunHasOwnJob
