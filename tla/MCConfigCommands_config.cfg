SPECIFICATION Spec
CONSTANTS
  Databases <- Small
  Commands <- AllCommands
  s1 = s1
  s2 = s2
  Slots <- TwoSlots
  TaskSlots <- TaskIds
  FeedCapacity = 2
  MaxTries = 2
  MaxCommands = 2
  MaxCuts = 1
INVARIANTS
  Converged
  OneTaskEach
  UniqueUnlessRaced
PROPERTY
  HistoryKept
SYMMETRY SlotSymmetry
CHECK_DEADLOCK FALSE
