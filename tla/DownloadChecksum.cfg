CONSTANTS
    Sources = 2
    SizeOf <- SmallVersions
    Remotes <- AnyTagged
    Options <- ChecksumOrNot
    Concurrency = 2
    Faults <- AllFaults
    MaxCrashes = 1
    MaxChanges = 1
    ChangeMidRun = TRUE
SPECIFICATION Spec
PROPERTIES FinalVerified
