SPECIFICATION Spec
CONSTANTS
    Job = {j1, j2}
    Worker = {w1}
    Reader = {}
    MaxFiles = 1
    QueueDepth = 1
    MaxStarts = 1
    MaxFaults = 0
SYMMETRY Symmetry
INVARIANTS
    SlotsAreCounted
    StatsAreExact
    ActiveIsScheduled
    DrainedIsQuiet
