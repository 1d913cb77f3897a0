SPECIFICATION Spec
CONSTANTS
  MaxSeq = 32
  WinSize = 3
  OverlapMax = 1
  ApWindow = 2
  First = 30
  Last = 33
  Jumps <- OneAtATime
  Amsdu <- Frame32
  TailLost = {}
  Repeats = {}
  StrayBy = 14
  MaxAgreements = 1
  MaxSuspends = 0
  DelRaces = FALSE
CHECK_DEADLOCK FALSE
INVARIANTS QueueInWindow LateOnlyIfRaced
PROPERTY NoEarlyLoss
