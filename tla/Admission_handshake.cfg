\* Users quit: a quitting handler's dequeue races the acceptor's enqueue of
\* the next request, and the next handler's queue_peek finds the queue empty.
CONSTANTS
  c1 = c1
  c2 = c2
  c3 = c3
  Clients <- TwoClients
  MaxClients = 1
  Commands = {"QUIT"}
  MaxInterrupts = 0
  MaxForkFails = 0
SPECIFICATION Spec
PROPERTY HandshakeRefined
CHECK_DEADLOCK FALSE
