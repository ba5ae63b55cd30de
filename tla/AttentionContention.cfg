SPECIFICATION Spec
CONSTANTS
    t1 = t1
    t2 = t2
    t3 = t3
    t4 = t4
    t5 = t5
    Tasks <- FiveTasks
    Classes <- LLMandRAM
    Measured <- OnlyRAM
    Capacity <- ThreeLLMOneRAM
    Need <- UrgentNeedsMore
    Priority <- MixedPriority
    MaxWait <- TwoCycles
    Guaranteed <- PromotedToP2
    Policy <- MixedPolicy
    Deadline <- NoDeadline
    Deps <- AtomicDepends
    Recurring <- Nothing
INVARIANTS
    CommittedStateCanBePlanned
PROPERTIES
    InterruptionIsJustified
    HeldRoomIsKept
