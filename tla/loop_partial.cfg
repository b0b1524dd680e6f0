SPECIFICATION Spec
CONSTANTS
    Conns = {c1}
    Posts = {1, 2, 3, 4}
    Null = Null
    MaxIn = 1
    BufSize = 2
    MaxRoom = 1
    MaxReply = 2
    MaxEvents = 2
    Closings = {}
    Shared = FALSE
INVARIANTS
    PartialSendSurvives
