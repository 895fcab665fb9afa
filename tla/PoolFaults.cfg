CONSTANTS
    Plan <- PlanTwo
    Concurrency = 2
    MaxRetries = 1
    MaxRead = 2
    Limited = TRUE
    Faults <- AllFaults
    SaveMayFail = FALSE
SPECIFICATION Spec
INVARIANTS TypeOK BytesInPlace CursorsBacked NothingForgotten CauseReported NilMeansComplete
PROPERTIES KeepsPromise Returns
