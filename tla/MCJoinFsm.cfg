SPECIFICATION Spec
CONSTANTS
  MaxOps = 2
  MaxDeauths = 1
  MaxGrants = 3
  MaxMsgs = 2
INVARIANTS TypeOK ChannelNotLeaked AbortHitsOwnJoin NoTimerOnFree StartsOnce
