\* UPLOAD of a one-chunk file, then QUIT: the client's sem_wait for the
\* QUIT reply races the handler's sem_wait for the upload's closing frame.
SPECIFICATION Spec
CONSTANTS
    Lines <- UploadQuitLines
    Chunk = 2
    InitPresent = FALSE
    InitSize = 0
    OtherFiles = 1
    LocalExists = TRUE
    LocalSize = 1
    MaxCmds = 2
PROPERTIES QuitEndsSession
\* The handler blocks in read() when the user stops typing.
CHECK_DEADLOCK FALSE
