CONSTANTS
    Plan <- PlanTwo
    Concurrency = 1
    MaxRetries = 1
    MaxRead = 2
    Limited = FALSE
    Faults <- NoFaults
    SaveMayFail = FALSE
SPECIFICATION Spec
INVARIANT NilAlwaysComplete
