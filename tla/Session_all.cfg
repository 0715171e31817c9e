\* Every command, on a served file that does not exist at first, chunks of
\* two words, and a local file of three words (two upload chunks).
SPECIFICATION Spec
CONSTANTS
    Lines <- AllLines
    Chunk = 2
    InitPresent = FALSE
    InitSize = 0
    OtherFiles = 1
    LocalExists = TRUE
    LocalSize = 3
    MaxCmds = 4
INVARIANTS TypeOK ReplyFullyConsumed
\* The handler blocks in read() when the user stops typing.
CHECK_DEADLOCK FALSE
