CONSTANTS
    Sources = 1
    SizeOf <- OneVersion
    Remotes <- OneTagged
    Options <- Plain
    Concurrency = 2
    Faults <- NetFaults
    MaxCrashes = 1
    MaxChanges = 0
    ChangeMidRun = FALSE
SPECIFICATION FairSpec
PROPERTIES Delivered
