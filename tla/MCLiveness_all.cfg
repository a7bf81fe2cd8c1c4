\* The pipeline without faults; three tasks share the breaker: one of them
\* probes while two that were let in before it opened are still in flight.
CONSTANTS
    r1 = r1
    r2 = r2
    p1 = p1
    p2 = p2
    x = x
    y = y
    feed = feed
    a1 = a1
    q1 = q1
    Replicas <- OneReplica
    Projects <- OneProject
    Posts <- TwoPosts
    PlatformOf <- SamePlatform
    MaxResults = 2
    RequestBatch = 1
    MaxRounds = 1
    MaxRequests = 1
    MaxExpiries = 1
    Analyzers <- OneAnalyzer
    BatchSize = 2
    Stores <- OneStore
    StoreBatch = 2
    Malformed <- SecondPost
    MaxLen = 9
    Replies <- NoFaults
    MayCrash = FALSE
    Callers = {a, b, c}
    FailureThreshold = 2
    RecoveryTimeout = 2
    CountCap = 3
SPECIFICATION LivenessSpec
INVARIANTS
    HalfOpenHasProbe
PROPERTIES
    HalfOpenSettles
    RecoversWithDependency
    EveryMentionDelivered
    StoredBecomesSearchable
CHECK_DEADLOCK FALSE
