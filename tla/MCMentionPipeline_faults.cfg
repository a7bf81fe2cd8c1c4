CONSTANTS
    r1 = r1
    r2 = r2
    p1 = p1
    p2 = p2
    x = x
    y = y
    feed = feed
    a1 = a1
    q1 = q1
    Replicas <- TwoReplicas
    Projects <- OneProject
    Posts <- TwoPosts
    PlatformOf <- SamePlatform
    MaxResults = 1
    RequestBatch = 1
    MaxRounds = 2
    MaxRequests = 0
    MaxExpiries = 2
    Analyzers <- OneAnalyzer
    BatchSize = 2
    Stores <- OneStore
    StoreBatch = 2
    Malformed <- SecondPost
    MaxLen = 2
    Replies <- BusReplies
    MayCrash = TRUE
SYMMETRY ReplicaSymmetry
SPECIFICATION PipelineSpec
PROPERTIES
    ImplementsDelivery
CHECK_DEADLOCK FALSE
