SPECIFICATION FairSpec
CONSTANTS
  SeqCount = 6
  RecvWindow = 2
  Room = 2
  Setups <- AllRuns
  GetTries = 2
  EndTries = 2
INVARIANTS TypeOK SavedIsPrefix AckSound OldAcksHarmless SavedIsWhole WholeOrNothing TruncatedByLessThanWindow WindowOpen
PROPERTIES KeepsPromise Answered ChunksDelivered ServerFreed
CHECK_DEADLOCK FALSE
