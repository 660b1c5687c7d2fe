SPECIFICATION LiveSpec
CONSTANTS
    Job = {j1}
    Worker = {w1}
    Reader = {}
    MaxFiles = 1
    QueueDepth = 1
    MaxStarts = 1
    MaxFaults = 1
PROPERTIES
    ExpiredJobIsRemoved
