SPECIFICATION LiveSpec
CONSTANTS
    Job = {j1}
    Worker = {w1}
    Reader = {r1}
    MaxFiles = 2
    QueueDepth = 1
    MaxStarts = 1
    MaxFaults = 0
PROPERTIES
    StartedJobSettles
    ShutdownDrains
    ExpiredJobIsRemoved
