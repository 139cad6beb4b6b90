SPECIFICATION Spec
CONSTANTS
  dest = dest
  remote = remote
  stranger = stranger
  Dest = dest
  Others <- OneRemote
  Second = 4
  Delays = {3}
  Jitter = 0
  Rates = {}
  LinkDirection <- ForwardOnly
  Kinds = {"data"}
  Trouble = {}
  MaxDatagrams = 2
  LastArrival = 5
  MaxTime = 8
INVARIANT NotEarly
CHECK_DEADLOCK FALSE
