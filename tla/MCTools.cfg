SPECIFICATION ToolsSpec
CONSTANTS
    AlignBytes = 16
    EngineHeaderBytes = 5
    ManifestHeaderBytes = 3
    LayerDescBytes = 2
    ExpertDescBytes = 1
    BlockHeaderBytes = 2
    RecordBytes = 1
    NameBytes = 1
    ConvertCommands <- MCConvertCommands
    MinFreeAfter = 10
    MaxConvertRuns = 2
    Plan <- MCPlan
    StreamCommands <- MCStreamReliable
    MaxStreamCrashes = 2
    PackExperts = 4
    ChunkExperts = 2
    KeepShards = {TRUE, FALSE}
    MaxPackCrashes = 3
    Shards <- MCShards
    ShardUnits = 2
    Repositories <- MCRepositories
    RequiredMetadata = {"config.json"}
    MaxFileUnits = 3
    MaxTotalUnits = 4
    MinFree = 1
    ShardLimits = {0, 1}
    MaxFaults = 2
    Jobs = {j1, j2}
    JobKinds <- MCJobKinds
    SourceTensors = {1, 2}
    SourceModel = {2, 3}
    MaxJobDeaths = 1
    Handlers = {h1, h2}
    ExpertFiles = {"e1"}
    BodyUnits = 2
    MaxAttempts = 2
    MaxConnections = 2
    MaxGone = 1
    Cores <- MCCores
    CoreFiles <- MCCoreFiles
    OpCommands <- MCOpCommands
    ShimTokens = {"w", "sp", "te", "tool", "eos", "half1", "half2"}
    ReplAnswers <- MCReplAnswers
    ChatTokens = {"s1", "s2", "eos"}
    Questions = {"q1", "q2"}
    StopSequence <- MCStopSequence
    MaxNewTokens = 3
    HistoryMessages = {0, 3}
    MaxTurns = 2
    Puts = {p1, p2}
    StoredExperts = {"x1", "x2", "x3"}
    FileUnits = 2
    MaxPutCuts = 1
    CacheSetups <- MCCacheSetups
    MaxCacheFaults = 1
INVARIANTS
    CoreReadable
    NothingDropped
    ReadyIsWhole
    CompletedHasCopy
    SuccessIsServable
    PackSound
    DownloadSound
    CatalogSound
    ConnectionExclusive
    RelayExact
    MergedServable
    AnswersAgree
    ExpertsArrive
PROPERTIES
    EventuallySucceeds
    PackReachesIndex
    DownloadCompletes
    RelayAnswers
    RequestServed
CHECK_DEADLOCK FALSE
