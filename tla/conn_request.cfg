SPECIFICATION Spec
CONSTANTS
    Requests <- MCRequests
    BufInit = 5
    MaxSize = 8
    MaxHeader = 6
    Word = 64
    MaxFrames = 3
INVARIANTS
    TypeOK
    
    
    OneReply
CHECK_DEADLOCK FALSE
