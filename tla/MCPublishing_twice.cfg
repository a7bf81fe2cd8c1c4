CONSTANTS
    s1 = s1
    c1 = c1
    r1 = r1
    r2 = r2
    p1 = p1
    p2 = p2
    Schedulers <- None
    Consumers <- None
    Requests <- TwoRequests
    Posts <- OnePost
    Unsupported <- None
    TweetReplies <- None
    Operations <- ApproveAndPublish
    RequestBatch = 2
    MaxEvents = 0
    MaxSent = 2
    MaxLen = 4
    PlatformReplies <- NoFaults
    DatabaseReplies <- NoFaults
    Replies <- NoFaults
    AwareReplies <- BusReply
    MayCrash = FALSE
SPECIFICATION PublishingSpec
INVARIANTS
    PublishedOnce
CHECK_DEADLOCK FALSE
