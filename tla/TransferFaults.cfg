SPECIFICATION FairSpec
CONSTANTS
  c1 = c1
  c2 = c2
  c3 = c3
  c4 = c4
  Clients <- OneClient
  SeqMod = 5
  Window = 2
  Chunks <- Chunks3
  Access <- Readable
  Faults = {"loss", "damage", "duplication", "kill", "reset"}
INVARIANTS WrittenIsPrefix DoneIsComplete DuplicatesIgnored AckSound BufferWithinWindow
PROPERTIES TransferDelivered ServerFreed ReturnsWhenGone
CHECK_DEADLOCK FALSE
