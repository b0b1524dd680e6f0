SPECIFICATION Spec
CONSTANTS
    Requests <- Uploads
    BufInit = 5
    MaxSize = 8
    MaxHeader = 6
    Word = 64
    MaxFrames = 3
INVARIANT ReadsOnlyWhatIsMissing
CHECK_DEADLOCK FALSE
