SPECIFICATION StrongFairSpec
CONSTANTS
    Conns = {c1, c2}
    Posts = {1, 2, 3, 4}
    Null = Null
    MaxIn = 1
    BufSize = 2
    MaxRoom = 1
    MaxReply = 1
    MaxEvents = 2
    Closings = {}
    Shared = TRUE
PROPERTIES
    AwaitEnds
