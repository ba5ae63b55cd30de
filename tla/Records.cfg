SPECIFICATION RecordsSpec
CONSTANTS
    Events = {e1, e2}
    Scoped = {e1}
    Keys = {k1}
    Recorders = {r1, r2}
    NoEvent = NoEvent
    MaxFaults = 2
    a1 = a1
    a2 = a2
    b1 = b1
    o1 = o1
    o2 = o2
    o3 = o3
    o4 = o4
    o5 = o5
    c1 = c1
    c2 = c2
    d1 = d1
    Assertions = {a1, a2, b1}
    Observations = {o1, o2, o3, o4, o5}
    Snapshots = {1, 2}
    Consolidations = {c1, c2}
    Callers = {d1}
    Derivers = {w1, w2}
    None = None
    PageSize = 2
    MaxDeaths = 1
    ValueOf <- TheValueOf
    ValidFrom <- Always
    ValidUntil <- Always
    AssertionOf <- TheAssertionOf
    Relation <- TheRelation
    ObservedAt <- TheObservedAt
    StatesIn <- TheStatesIn
    AfterKey <- TheAfterKey
    Reports <- TheReports
    ResolvedAt <- TheResolvedAt
INVARIANTS
    EventsAreOnRecord
    FactsFollowEvidence
PROPERTIES
    TornReceiptIsCompleted
    EveryJobPublishes
CHECK_DEADLOCK FALSE
