SPECIFICATION Spec
CONSTANTS
    a1 = a1
    s1 = s1
    s2 = s2
    NoWorker = NoWorker
    Workers = {w1}
    ObservationMaxAge = 1
    EffectPolicy <- MixedPolicies
    Assignments <- OneAssignment
    Steps <- OneStep
    AssignmentOf <- SharedAssignment
    Units <- OneUnit
    Capacity = 1
    LeaseSeconds = {1, 2}
    MaxAttempts = 3
    MaxRevisions = 2
    MaxTime = 3
INVARIANTS
    ResultClosesStep
    ResumesLatestCheckpoint
    CheckpointChain
    LeasesDoNotOverlap
PROPERTIES
    NoEarlyAbandonment
CHECK_DEADLOCK FALSE
