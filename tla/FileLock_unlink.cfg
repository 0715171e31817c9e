\* Three writeT commands on one file.
CONSTANTS
  s1 = s1
  s2 = s2
  s3 = s3
  f1 = f1
  Sessions <- ThreeSessions
  Files = {f1}
  Ops = {"WRITET"}
  MaxOps = 1
  Present = {}
  MaxInterrupts = 0
SPECIFICATION Spec
INVARIANT MutualExclusion
\* Sessions whose users have issued all their commands stay idle.
CHECK_DEADLOCK FALSE
