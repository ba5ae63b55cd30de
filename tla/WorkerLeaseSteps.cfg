SPECIFICATION Spec
CONSTANTS
    a1 = a1
    s1 = s1
    s2 = s2
    NoWorker = NoWorker
    Workers = {w1, w2}
    ObservationMaxAge = 1
    EffectPolicy <- MixedPolicies
    Assignments <- OneAssignment
    Steps <- TwoSteps
    AssignmentOf <- SharedAssignment
    Units <- OneUnit
    Capacity = 2
    LeaseSeconds = {1}
    MaxAttempts = 2
    MaxRevisions = 1
    MaxTime = 2
SYMMETRY WorkersAlike
INVARIANTS
    TypeOK
    OneActiveClaimPerAssignment
    AmbiguousEffectNotRetried
    LiveClaimsStayCurrent
CHECK_DEADLOCK FALSE
