CONSTANTS
    a1 = a1
    a2 = a2
    m1 = m1
    m2 = m2
    Analyzers <- OneAnalyzer
    BatchSize = 2
    Mentions <- OneMention
    MaxRaw = 2
    MaxLen = 2
    Replies <- NoFaults
    MayCrash = TRUE
SPECIFICATION FairAnalyzerSpec
PROPERTIES
    EveryMentionSettles
CHECK_DEADLOCK FALSE
