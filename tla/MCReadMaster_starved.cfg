SPECIFICATION Spec
CONSTANTS
  d1 = d1
  d2 = d2
  ip1 = ip1
  ip2 = ip2
  Ids = {d1, d2}
  Configs <- MCConfigs
  Steps = 1
  RetryCount = 2
  MaxTime = 6
  MaxChanges = 1
  MaxDropped = 1
  Timeout = 1
  Pause = 1
  FetchTime = 1
  TimeoutStep = 1
  Reconnect = 3
  Cooldown = 1
  ConnectTime = 1
  NoDevices = 3
  NoActive = 1
  MinSleep = 1
  Start = 2
INVARIANT
  SwitchedOffLast
CHECK_DEADLOCK FALSE
