SPECIFICATION Spec
CONSTANTS
    d1 = d1
    d2 = d2
    d3 = d3
    t1 = t1
    t2 = t2
    Situations = {1, 2}
    Deliveries = {d1, d2, d3}
    Refs <- DeliveryRefs
    ObservedAt <- DeliveryTimes
    Surprising = {d1, d3}
    NoPercept = NoPercept
    MaxSnapshots = 5
    Ticks = {t1, t2}
    Worlds <- AllWorlds
    PageSize = 1
    MaxFaults = 1
INVARIANTS
    IntakeNeverGoesBack
    OneSnapshotAtATime
PROPERTIES
    EverySituationSettles
    DeliveryCompletes
