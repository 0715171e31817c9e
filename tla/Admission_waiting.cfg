\* Handlers that both check the size after both enqueues wait for a slot nobody frees.
CONSTANTS
  c1 = c1
  c2 = c2
  c3 = c3
  Clients <- TwoClients
  MaxClients = 1
  Commands = {"QUIT"}
  MaxInterrupts = 0
  MaxForkFails = 0
SPECIFICATION Spec
PROPERTY WaitingEventuallyWoken
CHECK_DEADLOCK FALSE
