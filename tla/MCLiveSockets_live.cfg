SPECIFICATION FairSpec
CONSTANTS
  s1 = s1
  s2 = s2
  Sockets <- TwoSockets
  Nodes <- OneNode
  Devices <- OneDevice
  Tags <- OneTag
  NodeStates <- TwoNodeStates
  DeviceStates <- OneDeviceState
  Readings <- TwoReadings
  Configs <- SomeConfigs
  Capacity = 2
  MaxIds = 3
  MaxEvents = 3
INVARIANTS
  Mirrors
  NoneLeftBehind
PROPERTY
  DroppedEnds
CHECK_DEADLOCK FALSE
