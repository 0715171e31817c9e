\* Users only kill the server; one fork() may fail; the operator interrupts
\* it once.
CONSTANTS
  c1 = c1
  c2 = c2
  c3 = c3
  Clients <- TwoClients
  MaxClients = 1
  Commands = {"KILLSERVER"}
  MaxInterrupts = 1
  MaxForkFails = 0
SPECIFICATION Spec
INVARIANT AcceptorOutlivesHandlers
\* The server legitimately blocks in read() for a client that never comes.
CHECK_DEADLOCK FALSE
