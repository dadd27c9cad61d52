SPECIFICATION Spec
CONSTANTS
    None = None
    Other = Other
    MaxIndexedMessages = 4
    LoopRun = 3
    ProviderCap = 1
    ModelCap = 1
    ServiceCap = 1
    ToolCap = 1
    MaxSeries = 3
    MaxToolSeries = 2
    ScoreWindow = 3
    ScoreNamesCap = 1
    TimeBuckets <- MCTimeBuckets
    Batches <- MCBatches
    Posts <- MCPosts
    Table <- MCTable
    Rules <- MCRules
    MaxBatches = 3
    MaxSteps = 4
INVARIANTS
    EveryScoreCounted CallsCountedOnce ReportsAgree UsageIsExact
CHECK_DEADLOCK FALSE
