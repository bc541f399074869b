SPECIFICATION Spec
CONSTANTS
  Capacity = 2
  Values = {a}
  Zero = a
  Fail = Fail
  StableDelta = 1
  FailureDelta = 0
  Steps = {1, 2, 3, 4}
  Gaps = {0, 1}
  t1 = t1
  t2 = t2
  t3 = t3
  Tags <- AllTags
  Logging <- TwoTags
  Devices <- TwoDevices
  BatchSize = 2
  MaxTime = 4
  MaxFaults = 1
  MaxLate = 1
  MaxCrashes = 1
INVARIANTS
  IndInv
  NothingLost
  StoredOnceInOrder
  QueriesMissOnlyTheBuffer
PROPERTY
  PoisonStays
CHECK_DEADLOCK FALSE
