SPECIFICATION Spec
CONSTANTS
  Capacity = 3
  Values = {a, b}
  Zero = a
  Fail = Fail
  StableDelta = 3
  FailureDelta = 2
  Start = 1
  Steps <- PollingSteps
  MaxTime = 10
INVARIANTS
  HistoryInv
  RingMatchesTable
  LogTellsTheValue
  HeartbeatKept
  UnchangedSuppressed
  LossMarkedInTime
  WindowChronological
  QueryExact
PROPERTIES
  LossMarkedLate
  ImplementsTagHistory
CHECK_DEADLOCK FALSE
