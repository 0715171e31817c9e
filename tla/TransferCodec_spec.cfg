\* readF, writeT and download against spec.md's reading of lines and files,
\* up to the handler's end-of-file read.
CONSTANTS
  Chunk = 3
  TailBuf = 2
  IntSize = 2
  MaxLen = 6
  MaxLine = 3
  Texts <- MCTexts
  Locals <- MCLocals
SPECIFICATION Spec
INVARIANT FileCommandsFollowSpec
\* The handler ends after its end-of-file read.
CHECK_DEADLOCK FALSE
