SPECIFICATION Spec
CONSTANTS
    Job = {j1}
    Worker = {w1, w2}
    Reader = {r1}
    MaxFiles = 2
    QueueDepth = 1
    MaxStarts = 2
    MaxFaults = 1
SYMMETRY Symmetry
INVARIANTS
    TypeOK
    TerminalJobIsSettled
    OutcomeIsHonest
    LeasesAreCounted
    JobInUseExists
    ScheduledOnce
    CancelReachesConverter
    OldJobsAreInterrupted
PROPERTIES
    SweepSparesJobsInUse
    TerminalIsFinal
    ImplementsLifecycle
