SPECIFICATION Spec
CONSTANTS
  c1 = c1
  n1 = n1
  n2 = n2
  n3 = n3
  Clients <- OneClient
  Nodes <- OneNode
  Initial <- NoNode
  Capacity = 1
  FeedCapacity = 1
  MaxTries = 2
  MaxEvents = 2
  MaxChanges = 3
INVARIANTS
  IndInv
  OneRequestEach
  EventsInOrder
CHECK_DEADLOCK FALSE
