CONSTANTS
    Canonical <- Hosts
    Commands <- AllCommands
    Netrcs <- TwoEntries
    Lines <- FileLines
    OldFiles <- AnyFiles
    Faults <- AllFaults
SPECIFICATION Spec
INVARIANTS TypeOK Accounted ExitTells StdoutPure RightCredential RecordTrue
