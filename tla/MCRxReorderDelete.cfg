SPECIFICATION Spec
CONSTANTS
  MaxSeq = 16
  WinSize = 3
  OverlapMax = 1
  ApWindow = 2
  First = 14
  Last = 16
  Jumps = {}
  Amsdu = {}
  TailLost = {}
  Repeats = {}
  StrayBy = 0
  MaxAgreements = 1
  MaxSuspends = 0
  DelRaces = TRUE
CHECK_DEADLOCK FALSE
INVARIANT DeletedIsFlushed
