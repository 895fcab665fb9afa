CONSTANTS
    Plan <- PlanThree
    Concurrency = 2
    MaxRetries = 0
    MaxRead = 1
    Limited = FALSE
    Faults <- NetFaults
    SaveMayFail = TRUE
SPECIFICATION Spec
INVARIANTS Bounded
PROPERTIES QuietAfterReturn StopReturns
