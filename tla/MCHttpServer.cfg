SPECIFICATION Spec
CONSTANTS
    c1 = c1  c2 = c2
    Clients = {c1, c2}
    Messages <- MCMessages
    Files <- MCFiles
    Streams <- MCStreams
    BufferSize = 3  BlockSize = 2
    MaxErrors = 1
INVARIANTS TypeOK AnswerFitsRequest FilesUnderRoot RepliesAreWhole
PROPERTIES ClientsAreAccepted ConnectionsAreServed
\* All connections may have ended.
CHECK_DEADLOCK FALSE
