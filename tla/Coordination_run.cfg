SPECIFICATION Spec
CONSTANTS
    p = p
    q = q
    NoPlan = NoPlan
    Plan = {p, q}
    N = 2
    ControlPlane = {1, 2}
    Parallelism = 1
    Selected <- LastAndAll
    Target <- SameTarget
    Windowed = {}
    Upgrades = 1
    MaySuspend = {p}
    MaxFaults = 1
INVARIANTS
    OneControlPlaneAway
    DrainedSlotStaysFree
