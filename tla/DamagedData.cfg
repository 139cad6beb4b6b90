SPECIFICATION Spec
CONSTANTS
  c1 = c1
  c2 = c2
  c3 = c3
  c4 = c4
  Clients <- OneClient
  SeqMod = 4
  Window = 1
  Chunks <- Chunks3
  Access <- Readable
  Faults = {"damage"}
INVARIANT OnlyKilledClientsDie
CHECK_DEADLOCK FALSE
