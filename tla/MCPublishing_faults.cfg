CONSTANTS
    s1 = s1
    c1 = c1
    r1 = r1
    r2 = r2
    p1 = p1
    p2 = p2
    Schedulers <- OneScheduler
    Consumers <- OneConsumer
    Requests <- OneRequest
    Posts <- TwoPosts
    Unsupported <- SecondPost
    TweetReplies <- OnePost
    Operations <- AllOperations
    RequestBatch = 2
    MaxEvents = 2
    MaxSent = 1
    MaxLen = 1
    PlatformReplies <- BusReply
    DatabaseReplies <- BusReply
    Replies <- BusReply
    AwareReplies <- BusReply
    MayCrash = TRUE
SPECIFICATION PublishingSpec
VIEW WithoutTrail
INVARIANTS
    StatusIsTrue
    SchedulerPublishesApproved
PROPERTIES
    AskIsAcked
CHECK_DEADLOCK FALSE
