CONSTANTS
    w1 = w1
    w2 = w2
    Services <- AllServices
    MaxLen = 1
    Workers = {w1, w2}
    BatchSize = 2
    MaxEntries = 2
    Replies = {"ok", "lost", "failed"}
    MayCrash = TRUE
    MediaRequests <- SomeRequestsForMedia
    MissingMentions = {}
    EnrichableMentions = {1, 2}
    MissingRows = {}
    AuthorOf <- TwoAuthors
    MaxLapses = 1
    MaxRequests = 3
    AnalyzedMentions <- SomeAnalyzed
    AlertRules <- TwoRules
    MinSample = 1
    KeepTicks = 2
    MaxClock = 2
    Orgs = {"o1", "o2"}
    Users = {"u"}
    AuditEvents <- TwoAuditEvents
    Policies <- OnePolicy
    DefaultDays = 0
    InitialRows <- RowsAtFirst
    Rounds = {"loop", "org"}
    OrgRounds = {"org"}
    Purges = {"p"}
    MaxDay = 1
    MaxConfigured = 2
    ReportRequests <- SomeRequestsForReports
    KnownProjects = {1}
    TriggerMentions <- SomeMentions
    Definitions <- OneDefinition
    MaxWorkflows = 1
    Projects = {1}
    Period = 3
    WindowTicks = 2
    RetryTicks = 1
    Answers = {"ok", "failed"}
    MaxTick = 3
    MaxRestarts = 1
    Corpus <- TwoMentions
    ExportRequests <- SomeExports
    PdfRows = 1
    Payloads = {"p1", "p2"}
    MaxTries = 1
    Operators = {"o1"}
    ReprocessCount = 2
SPECIFICATION ConsumersSpec
INVARIANTS
    ConsumersTypeOK
    MediaRowWasAnnounced
    RepeatIsExplained
    AlertIsJustified
    ReportRequestsAnswered
    ExecutionsAddUp
    ExportsSettled
    OncePerWindow
    PurgedIsForgotten
    DeletedWasExpired
    NothingLostByTheBus
SYMMETRY ReplicasAlike
CHECK_DEADLOCK FALSE
