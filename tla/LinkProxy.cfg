SPECIFICATION FairSpec
CONSTANTS
  dest = dest
  remote = remote
  stranger = stranger
  Dest = dest
  Others <- TwoRemotes
  Second = 4
  Delays = {0, 3}
  Jitter = 2
  Rates = {"loss", "cut", "err"}
  LinkDirection <- ForwardOnly
  Kinds = {"short", "data"}
  Trouble = {"wouldblock", "error", "early"}
  MaxDatagrams = 2
  LastArrival = 4
  MaxTime = 10
INVARIANTS TypeOK EarlyUnderASecond BetweenTheTwo
PROPERTIES LeavesInOrder NeverOversleeps QueueDrains
CHECK_DEADLOCK FALSE
