\* Two projects match the same post.
CONSTANTS
    r1 = r1
    r2 = r2
    p1 = p1
    p2 = p2
    x = x
    y = y
    feed = feed
    a1 = a1
    q1 = q1
    Replicas <- OneReplica
    Projects <- TwoProjects
    Posts <- OnePost
    PlatformOf <- OnePlatform
    MaxResults = 1
    RequestBatch = 1
    MaxRounds = 1
    MaxRequests = 0
    MaxExpiries = 0
    Analyzers <- OneAnalyzer
    BatchSize = 1
    Stores <- OneStore
    StoreBatch = 1
    Malformed <- NoMention
    MaxLen = 8
    Replies <- NoFaults
    MayCrash = FALSE
SPECIFICATION PipelineSpec
PROPERTIES
    SkippedIsDuplicate
CHECK_DEADLOCK FALSE
