SPECIFICATION Spec
CONSTANTS
    Requests <- Plain
    BufInit = 5
    MaxSize = 8
    MaxHeader = 6
    Word = 64
    MaxFrames = 3
INVARIANT TooLongIsTooLong
CHECK_DEADLOCK FALSE
