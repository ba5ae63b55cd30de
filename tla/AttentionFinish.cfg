SPECIFICATION Spec
CONSTANTS
    t1 = t1
    t2 = t2
    t3 = t3
    t4 = t4
    t5 = t5
    Tasks <- ThreeTasks
    Classes <- LLMandRAM
    Measured <- OnlyRAM
    Capacity <- TwoOfEach
    Need <- UrgentNeedsTwo
    Priority <- PerceptAndSituations
    MaxWait <- TwoCycles
    Guaranteed <- PromotedToP2
    Policy <- AllCheckpointOnly
    Deadline <- NoDeadline
    Deps <- NoDeps
    Recurring <- Nothing
INVARIANTS
    FinishedTaskCanBePublished
