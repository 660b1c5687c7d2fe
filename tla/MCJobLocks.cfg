SPECIFICATION LiveSpec
CONSTANTS
    Process = {p1, p2, p3}
    Key = {k1, k2}
    Object = {o1, o2, o3}
    Nobody = Nobody
INVARIANTS
    MutualExclusion
    TableIsExact
PROPERTIES
    ImplementsMutex
    LockCallCompletes
