CONSTANTS
    FileId = {f1, f2}
    DirectorySyncs = TRUE
    MaxFaults = 2
    MaxCrashes = 1
SPECIFICATION Spec
INVARIANTS
    NoDanglingReference
    AnswerIsDurable
    EmptyJobStaysListed
PROPERTIES
    ImplementsManifestStore
CHECK_DEADLOCK FALSE
