CONSTANTS
    Sources = 1
    SizeOf <- OneVersion
    Remotes <- OneTagged
    Options <- NoChecksum
    Concurrency = 1
    Faults <- NoFaults
    MaxCrashes = 2
    MaxChanges = 0
    ChangeMidRun = FALSE
SPECIFICATION Spec
INVARIANT FinalWhole
