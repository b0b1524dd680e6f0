SPECIFICATION StructSpec
CONSTANTS
    Nodes = {n1, n2, n3, n4}
    Before = Before
    Null = Null
    MaxSize = 6
    Producers = {p1, p2}
    Consumers = {c1, c2, c3}
    Timed = {c3}
    Capacity = 2
    Writers = {"w"}
    Readers = {"r"}
    Slots = 3
    MaxCalls = 7
    FirstSize = 2
    ExtraSize = 2
    MaxLength = 4
    Keys = {k1, k2}
    Value = v1
    Values <- MCValues
    Shards = 2
    ShardOf <- MCShardOf
    Durations = {0, 1}
    MaxNow = 4
    Fds = {f1, f2}
    Workers = {w1}
    Timeout = 1
    MaxUsers = 2
    MaxTime = 2
    MaxClients = 2
    Hosts = {h1, h2}
    NoHost = NoHost
    MaxRequests = 3
    MaxMoves = 2
    MaxReads = 4
    Small = 3
    Block = 2
    MaxFile = 7
    Url = url
    FileUrl = file
    StaticUrl = static
    Pattern = regex
    UrlPart = wild
    Urls <- MCUrls
    WsUrls <- MCWsUrls
    Dotted <- MCDotted
    Patterns <- MCPatterns
    Matches <- MCMatches
    Parts <- MCParts
    Occurs <- MCOccurs
    Letters = {"G", "P"}
    Aspects <- MCAspects
    MaxRoutes = 2
    Creators <- MCCreators
    Expires = {0}
    DefaultExpire = 1
    DefaultMaxAge = 1
    MaxAges = {1}
    MaxSessions = 2
    MaxUses = 1
    MaxClock = 1
    Num = 2
    MaxTries = 3
    MaxFiles = 2
INVARIANTS
    ListSound
    NoLostWakeup
    ArrayQueueExact
    BufferExact
    RoundComplete
    TimersKept
    AnsweredOnce
    RequestReadable
    DownloadExact
    GuardedHandler
    LogFileBounded
    SessionsFound
    ListenerKept
PROPERTIES
    ImplementsFifo
    OnlyExpiredRemoved
    ClosedOnlyWhenIdle
CHECK_DEADLOCK FALSE
