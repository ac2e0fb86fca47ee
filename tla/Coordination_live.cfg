SPECIFICATION FairSpec
CONSTANTS
    p = p
    q = q
    NoPlan = NoPlan
    Plan = {p, q}
    N = 2
    ControlPlane = {1, 2}
    Parallelism = 1
    Selected <- Apart
    Target <- OwnTarget
    Windowed = {q}
    Upgrades = 1
    MaySuspend = {"kubernetes"}
    MaxFaults = 0
PROPERTIES
    KubernetesFindsClusterUp
    EverythingSettles
