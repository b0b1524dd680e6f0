SPECIFICATION FairPoolSpec
CONSTANTS
    Workers = {w1, w2}
    Callers = {c1}
    Tasks = {t1}
    Null = Null
    MaxTasks = 2
PROPERTY DtorReturns
CHECK_DEADLOCK FALSE
