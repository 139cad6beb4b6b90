SPECIFICATION Spec
CONSTANTS
  c1 = c1
  c2 = c2
  c3 = c3
  c4 = c4
  Clients <- OneClient
  SeqMod = 5
  Window = 2
  Chunks <- Chunks6
  Access <- Readable
  Faults = {}
INVARIANT AckSound
CHECK_DEADLOCK FALSE
