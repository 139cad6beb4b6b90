SPECIFICATION Spec
CONSTANTS
  c1 = c1
  c2 = c2
  c3 = c3
  c4 = c4
  Clients <- FourClients
  SeqMod = 3
  Window = 1
  Chunks <- ChunksOfFour
  Access <- AccessOfFour
  Faults = {"reset", "abort", "stop"}
INVARIANTS TypeOK WindowFull
PROPERTY KeepsPromise
CHECK_DEADLOCK FALSE
