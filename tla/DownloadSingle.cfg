CONSTANTS
    Sources = 1
    SizeOf <- TwoVersions
    Remotes <- AnyRemote
    Options <- NoChecksum
    Concurrency = 2
    Faults <- SingleFaults
    MaxCrashes = 1
    MaxChanges = 1
    ChangeMidRun = FALSE
SPECIFICATION Spec
INVARIANTS TypeOK FinalWhole
PROPERTIES NothingRefetched
