\* Normal operation: users quit or kill the server, one fork() may fail,
\* the operator interrupts the server once.
CONSTANTS
  c1 = c1
  c2 = c2
  c3 = c3
  Clients <- TwoClients
  MaxClients = 1
  Commands = {"QUIT", "KILLSERVER"}
  MaxInterrupts = 1
  MaxForkFails = 1
SPECIFICATION Spec
INVARIANT TypeOK
INVARIANT ChildPidsInBounds
\* The server legitimately blocks in read() for a client that never comes.
CHECK_DEADLOCK FALSE
