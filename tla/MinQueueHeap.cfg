SPECIFICATION Spec
CONSTANTS
  Keys = {1, 2, 3, 4}
  SlotsPerMalloc = 3
  MaxSize = 9
INVARIANTS TypeOK HeapOrder
PROPERTY IsPriorityQueue
