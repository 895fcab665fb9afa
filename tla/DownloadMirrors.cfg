CONSTANTS
    Sources = 2
    SizeOf <- TwoVersions
    Remotes <- Ranged
    Options <- ChecksumOrNot
    Concurrency = 2
    Faults <- MirrorFaults
    MaxCrashes = 1
    MaxChanges = 1
    ChangeMidRun = FALSE
SPECIFICATION OrderlySpec
INVARIANTS OneContent GoodSourceVerifies
PROPERTIES CancelBurnsNoMirror
