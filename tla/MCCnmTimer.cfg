SPECIFICATION FairSpec
CONSTANTS
  Timers <- MCTimers
  Type <- MCType
  Timeouts <- MCTimeouts
  MsecPerMin = 6
  MaxTimeoutInterval = 50
  WakeLockMaxTime = 3
  JiffyMs = 2
  MaxTime = 6
INVARIANTS TypeOK WakeupInTime NoWakeLockLeak
PROPERTIES NoEarlyDispatch ImplementsTimerService EveryTimerEnds
CHECK_DEADLOCK FALSE
