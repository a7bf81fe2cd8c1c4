CONSTANTS
    p1 = p1
    p2 = p2
    x = x
    y = y
    feed = feed
    video = video
    r1 = r1
    a1 = a1
    a2 = a2
    q1 = q1
    q2 = q2
    m1 = m1
    m2 = m2
    Replicas <- OneReplica
    Projects <- TwoProjects
    Posts <- TwoPosts
    PlatformOf <- TwoPlatforms
    MaxResults = 1
    RequestBatch = 2
    MaxRounds = 1
    MaxRequests = 1
    MaxExpiries = 0
    Analyzers <- TwoAnalyzers
    BatchSize = 2
    Mentions <- OneMention
    MentionKeys <- TwoMentions
    MaxRaw = 4
    Stores <- TwoStores
    StoreBatch = 2
    Malformed <- BadMention
    MaxAnalyzed = 3
    MaxLen = 2
    Replies <- BusReply
    MayCrash = TRUE
SYMMETRY Symmetry
SPECIFICATION ServicesSpec
INVARIANTS
    ForwardedAtMostOnce
    NeverForwardedAndDead
    AckedIsAccountedFor
    StoredOnce
    AckedIsStoredOrDead
    OnePublishPerWorker
PROPERTIES
    FailureIsContained
CHECK_DEADLOCK FALSE
