\* Three sessions, every file command, the file missing at first, one
\* interrupted write.
CONSTANTS
  s1 = s1
  s2 = s2
  s3 = s3
  f1 = f1
  Sessions <- ThreeSessions
  Files = {f1}
  Ops = {"READF", "WRITET", "DOWNLOAD", "UPLOAD"}
  MaxOps = 1
  Present = {}
  MaxInterrupts = 1
SPECIFICATION Spec
PROPERTY WaitEndsUnlessAbandoned
\* Sessions whose users have issued all their commands stay idle.
CHECK_DEADLOCK FALSE
