CONSTANTS
    s1 = s1
    c1 = c1
    r1 = r1
    r2 = r2
    p1 = p1
    p2 = p2
    Schedulers <- OneScheduler
    Consumers <- None
    Requests <- OneRequest
    Posts <- OnePost
    Unsupported <- None
    TweetReplies <- None
    Operations <- ApproveAndPublish
    RequestBatch = 2
    MaxEvents = 0
    MaxSent = 1
    MaxLen = 4
    PlatformReplies <- NoFaults
    DatabaseReplies <- NoFaults
    Replies <- NoFaults
    AwareReplies <- Refused
    MayCrash = FALSE
SPECIFICATION FairPublishingSpec
PROPERTIES
    EveryDuePostSettles
CHECK_DEADLOCK FALSE
