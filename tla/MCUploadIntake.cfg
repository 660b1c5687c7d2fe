CONSTANTS
    Request = {u1, u2}
    DisplayName <- Names
    DiskSize = 5
    MinFreeSpace = 1
    MaxUploadSize = 3
    Allowance = 1
    MaxFiles = 3
    MaxFormFields = 1
    MaxForeign = 2
SYMMETRY Symmetric
SPECIFICATION Spec
INVARIANTS
    UploadsSpareTheFloor
    AnswerMatchesDisk
    StatusIsHonest
CHECK_DEADLOCK FALSE
