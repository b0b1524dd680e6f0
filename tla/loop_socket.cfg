SPECIFICATION FairSpec
CONSTANTS
    Conns = {c1}
    Posts = {1, 2, 3, 4}
    Null = Null
    MaxIn = 3
    BufSize = 3
    MaxRoom = 2
    MaxReply = 3
    MaxEvents = 2
    Closings = {"fin", "rst"}
    Shared = FALSE
INVARIANTS
    OneAwaiter
    CleanDestroy
    NoLostEdge
    ZeroMeansClosed
PROPERTIES
    AwaitEnds
