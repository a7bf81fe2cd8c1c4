CONSTANTS
    r1 = r1
    r2 = r2
    u1 = u1
    u2 = u2
    u3 = u3
    a = a
    b = b
    Services <- OnlySearch
    Founders <- OneFounder
    Publishers <- OnePublisher
    MaxLen = 1
    Requests <- TwoRequests
    Outcomes = {"ok", "lost", "failed"}
    Emails = {"e1"}
    Subjects = {"s1"}
    MaxSessions = 2
    MaxPasswords = 2
    MaxStates = 1
    People <- ThreePeople
    Plans <- SmallPlans
    RolesGiven = {"owner", "admin"}
    MaxKeys = 1
    MaxReported = 2
    IntegrationTypes <- EveryType
    SyncProjects = {"p1", "p2"}
    SyncLimit = 2
    SyncBatch = 1
    DayTicks = 0
    MaxSyncTick = 2
    MaxCollected = 2
    Sockets = {"c1"}
    SseClients = {"e1"}
    QueueSize = 2
    MaxErrors = 2
    AcceptsTwice = TRUE
    MaxMessages = 3
    MaxHandled = 3
    Callers <- TwoCallers
    MaxRequests = 1
    Window = 3
    Slack = 1
    MaxTime = 5
    MaxMembers = 5
    Platforms <- PlatformCollectors
    Catalogue <- SixPosts
    AnswersGiven <- SomeAnswers
    Targets = 2
    SearchCap = 3
    TopPages = 1
    MaxSeen = 2
    MaxAttempts = 2
    TrackedPlatforms <- SomeTracked
    FreeAnswers <- SomeFreeAnswers
    MaxDirectRuns = 1
    TaskPlatforms <- TwoTaskProjects
    TaskAnswers <- SomeTaskAnswers
    UnfitPosts = {"bad"}
    MaxTasks = 2
SPECIFICATION HandlersSpec
INVARIANTS
    FreshPostsAreReturned
SYMMETRY CallersAlike
CHECK_DEADLOCK FALSE
