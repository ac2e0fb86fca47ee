SPECIFICATION FairSpec
CONSTANTS
    N = 2
    ControlPlane = {}
    Parallelism = 2
    Images = {a, b}
    a = a
    b = b
    FirstImage = a
    NoImage = NoImage
    Old = {}
    db = db
    web = web
    late = late
    Pod = {db, web, late}
    Nowhere = Nowhere
    Home <- Homes
    OnCluster = {db, web}
    Exempt = {}
    Claims = {db}
    Guarded = {db}
    PrePullEnabled = TRUE
    DrainEnabled = TRUE
    WaitForVolumeDetach = FALSE
    MaxChanges = 1
    MaxFaults = 1
INVARIANTS
    FleetIsWarm
    PullsResume
    StreakEnds
    DrainedNodesAreEmpty
    EvictedVolumesDetach
    ParkedNodesAreSchedulable
PROPERTIES
    EveryNodeUpgrades
