SPECIFICATION Spec
CONSTANTS
    Conns = {c1, c2}
    Posts = {1, 2, 3, 4, 5, 6}
    Null = Null
    MaxIn = 1
    BufSize = 2
    MaxRoom = 1
    MaxReply = 0
    MaxEvents = 2
    Closings = {"fin"}
    Shared = TRUE
SYMMETRY Symmetry
INVARIANTS
    QueueSound
    EndIsQueued
    NoDanglingTask
    EveryAwaitWatched
    EventsHaveTarget
