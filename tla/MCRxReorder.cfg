SPECIFICATION FairSpec
CONSTANTS
  MaxSeq = 16
  WinSize = 3
  OverlapMax = 1
  ApWindow = 2
  First = 14
  Last = 17
  Jumps <- OneAtATime
  Amsdu <- Frames15And16
  TailLost <- Frame16
  Repeats <- Frame17
  StrayBy = 0
  MaxAgreements = 2
  MaxSuspends = 1
  DelRaces = FALSE
CHECK_DEADLOCK FALSE
INVARIANTS TypeOK WaitingIsMarked BubbleIsTimed QueueInWindow LateOnlyIfRaced
PROPERTIES ImplementsReorderBuffer NobodyStuck
