SPECIFICATION Spec
CONSTANTS
  Requests <- MCRequests
  Direct <- MCDirect
  Kind <- MCKind
  MaxPolls = 2
INVARIANT HandlerRunsOnce
CHECK_DEADLOCK FALSE
