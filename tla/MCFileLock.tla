---------------------------- MODULE MCFileLock ----------------------------
(* Model values for the sessions and the one contended file name.        *)
EXTENDS FileLock

CONSTANTS s1, s2, s3, f1

TwoSessions == {s1, s2}
ThreeSessions == {s1, s2, s3}
====
