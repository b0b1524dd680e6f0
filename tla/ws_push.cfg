SPECIFICATION FairSpec
CONSTANTS
    Workers = {w1, w2}
    Callers = {c1}
    MaxTasks = 2
    Null = Null
    Tasks <- MCTasks
    Ids = {a, b}
    Fds = {1}
    Msgs = {m1, m2}
    Conns = {k1}
    Stripes = 2
    Pieces = 2
INVARIANTS
    FramesWhole
    RegistrySound
    NoLostWakeup
PROPERTIES
    EveryTaskRuns
CHECK_DEADLOCK FALSE
