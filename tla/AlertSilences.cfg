SPECIFICATION Spec
CONSTANTS
    s1 = s1
    s2 = s2
    s3 = s3
    s4 = s4
    NoId = NoId
    Id = {s1, s2, s3, s4}
    Specs <- ShrinkingSpecs
    SilenceTTL = 5
    SilenceTail = 1
    RenewLeeway = 1
    MaxDuration <- Durations
    LongestHold = 5
    MaxEdits = 1
    MaxFaults = 1
SYMMETRY Interchangeable
INVARIANTS
    TypeOK
    LeasesDoNotLapse
    ScopesFollowSpec
    StuckRunsAlert
    ReleasedAfterTail
    EverythingLapses
