SPECIFICATION SafeguardsSpec
CONSTANTS
    MaxCandidates = 3
    MaxDeficit = 3
    Priorities = {3, 4}
    LastItem = 3
    MaxPriority = 1
    Reps = {1, 2}
    Generalized = {1}
    SelfReported = {2}
    Slow = {1}
    LastRoot = 3
    UserPrompts = {1, 2}
    Eligible = {1, 2}
    Tags = {"s1", "s2", "told"}
    Reflections = {1, 2}
    ContextRefs <- TheContextRefs
    Script <- TheScript
    Objections <- TheObjections
    Parents <- TheParents
    Predictions = {1}
    PredictionTags <- ThePredictionTags
    Interactions = {i1}
    Matches <- TheMatches
    Related <- NothingRelated
    Limit = 2
    MaxCore = 1
    MaxRoutes = 2
    MaxInterrupts = 1
    LastSeq = 3
    Mentions = {1, 2, 3}
    Changes = {2, 3}
    Unresolved = {1, 2}
    Resolved = {3}
    MaxHops = 3
    Recalls = {r1, r2}
    Scanners = {s1, s2}
    Resources = {a}
    LastScan = 3
    MaxScanDeaths = 1
    NoRecorder = NoRecorder
    Paths = {p1, p2}
    NoPath = NoPath
    Chunks = 2
    MaxVersions = 3
    MaxOperations = 3
    MaxEffort = 4
    MaxFileDeaths = 1
    Processes = {p, q}
    Scopes = {"a", "b", "f"}
    PolicyFiles = {"network", "folders"}
    KeptIn <- TheKeptIn
    Folders = {"f"}
    LastVersion = 2
    NoProcess = NoProcess
INVARIANTS
    SelectsIntendedVictims
    OrderIsLeast
    SelfIsGrounded
    RecallIsFaithful
    InventoryFollowsScans
    FilesAreAccounted
    RevocationSticks
    PermitsWhatWasAccepted
PROPERTIES
    ManagedContentSurvives
CHECK_DEADLOCK FALSE
