SPECIFICATION Spec
CONSTANTS
  ais = ais
  go = go
  Stas = {ais}
  Aps = {go}
  Deciders = {go}
  Refuses <- LegacyAp
  FwRequests = {ais}
  SlowFrames = TRUE
INVARIANTS TypeOK RequestsAreKept LockFollowsState SwitchIsLocked
INVARIANTS HwFollowsState
PROPERTY ImplementsChannelQueue
