SPECIFICATION FairSpec
CONSTANTS
  Ports = {"a", "b"}
  Files <- AllFiles
  Chunks <- Lengths
  SeqCount = 5
  RecvWindow = 2
  Mortal = {"b"}
  Visits <- OnceAndTwice
  Room = 1
INVARIANTS TypeOK OwnFile OwnAcks PortKeepsFile
PROPERTY FirstServed
CHECK_DEADLOCK FALSE
