\* DOWNLOAD of an existing one-word file.
SPECIFICATION Spec
CONSTANTS
    Lines <- DownloadLines
    Chunk = 2
    InitPresent = TRUE
    InitSize = 1
    OtherFiles = 1
    LocalExists = TRUE
    LocalSize = 1
    MaxCmds = 1
PROPERTIES CommandCompletes
\* The handler blocks in read() when the user stops typing.
CHECK_DEADLOCK FALSE
