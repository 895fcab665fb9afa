CONSTANTS
    Sources = 2
    Size = 3
    Servers <- AnyServer
    MaxRead = 2
    Pipe = 2
    Limited = TRUE
    Faults <- AllFaults
SPECIFICATION Spec
INVARIANTS OneHead NilMeansWhole Justified LineComplete
PROPERTIES CleanFailover CancelReturns
