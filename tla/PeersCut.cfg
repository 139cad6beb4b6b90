SPECIFICATION Spec
CONSTANTS
  SeqCount = 6
  RecvWindow = 2
  Room = 2
  Setups <- G2Cut
  GetTries = 2
  EndTries = 2
INVARIANT EndMeansDone
CHECK_DEADLOCK FALSE
