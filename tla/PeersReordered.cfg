SPECIFICATION Spec
CONSTANTS
  SeqCount = 6
  RecvWindow = 2
  Room = 3
  Setups <- G2Reordered
  GetTries = 2
  EndTries = 2
INVARIANT ReceivedIsSource
CHECK_DEADLOCK FALSE
