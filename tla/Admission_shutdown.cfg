\* After a SIGINT not every process ends: a request written while the acceptor reaps is never read.
CONSTANTS
  c1 = c1
  c2 = c2
  c3 = c3
  Clients <- TwoClients
  MaxClients = 1
  Commands = {"QUIT"}
  MaxInterrupts = 1
  MaxForkFails = 0
SPECIFICATION Spec
PROPERTY ShutdownCompletes
CHECK_DEADLOCK FALSE
