\* Two sessions, two commands each, every file command, one signal.
CONSTANTS
  s1 = s1
  s2 = s2
  s3 = s3
  f1 = f1
  Sessions <- TwoSessions
  Files = {f1}
  Ops = {"READF", "WRITET", "DOWNLOAD", "UPLOAD"}
  MaxOps = 2
  Present = {}
  MaxInterrupts = 1
SPECIFICATION Spec
PROPERTY SemaphoresAreMutexes
\* Sessions whose users have issued all their commands stay idle.
CHECK_DEADLOCK FALSE
