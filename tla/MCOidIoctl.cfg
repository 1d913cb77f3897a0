SPECIFICATION FairSpec
CONSTANTS
  Requests <- MCRequests
  Direct <- MCDirect
  Kind <- MCKind
  MaxPolls = 2
INVARIANTS TypeOK EntryIsOwners RequestNotLost
PROPERTY EveryIoctlReturns
CHECK_DEADLOCK FALSE
