SPECIFICATION FairSpec
CONSTANTS
  c1 = c1
  n1 = n1
  n2 = n2
  n3 = n3
  Clients <- OneClient
  Nodes <- TwoNodes
  Initial <- OneNode
  Capacity = 1
  FeedCapacity = 2
  MaxTries = 2
  MaxEvents = 0
  MaxChanges = 1
PROPERTY
  EveryoneAnswered
CHECK_DEADLOCK FALSE
