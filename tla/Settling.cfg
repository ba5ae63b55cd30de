SPECIFICATION SettlingSpec
CONSTANTS
    t1 = t1
    t2 = t2
    t3 = t3
    t4 = t4
    t5 = t5
    Tasks <- ThreeTasks
    Classes <- LLMandRAM
    Measured <- OnlyRAM
    Capacity <- OneOfEach
    Need <- NeedOne
    Priority <- UserWorkKeepsComing
    MaxWait <- TwoCycles
    Guaranteed <- PromotedToP2
    Policy <- AllCheckpointOnly
    Deadline <- NoDeadline
    Deps <- NoDeps
    Recurring <- UserWork
    LastTask = 4
    Base <- TheBase
    PromotedTo <- ThePromotedTo
    WaitLimit <- TheWaitLimit
    Interruption <- TheInterruption
    After <- TheAfter
    Asks <- TheAsks
    Endless = {1}
    Capacities = {1, 3}
    JobIds = {j1, j2}
    NoJob = NoJob
    MaxCrashes = 2
INVARIANTS
    SnapshotLoads
    JobsAreOwned
PROPERTIES
    QueuedWorkIsServed
    QueuedTaskGetsFocus
    EveryJobIsSettled
CHECK_DEADLOCK FALSE
