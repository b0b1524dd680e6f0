SPECIFICATION ESSpec
CONSTANTS
    Fds = {f1, f2}
    Workers = {w1}
    Timeout = 1
    MaxUsers = 2
    MaxTime = 2
    MaxClients = 2
INVARIANT OneThreadPerFd
CHECK_DEADLOCK FALSE
