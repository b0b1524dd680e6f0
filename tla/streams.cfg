\* Every kind of stream, cut in pieces of one, two, five or all bytes.
CONSTANTS
    Heads     <- MCHeads
    Chunked   <- MCChunked
    Forms     <- MCForms
    Dialogues <- MCDialogues
    Messages  <- MCMessages
    TextBytes <- MCTextBytes
    Utf8Bytes <- MCUtf8Bytes
    UriStarts <- MCUriStarts
    UriChars  <- MCUriChars
    Pieces    = {1, 2, 5}
    MaxText   = 3
    MaxUtf8   = 4
    MaxUri    = 4
    MaxDigits = 9

SPECIFICATION Spec

INVARIANTS
    HeadDecided
    
    FormExact
    
    DigestExact
    

\* A stream ends.
CHECK_DEADLOCK FALSE
