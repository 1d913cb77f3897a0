------------------------------ MODULE CnmTimer ------------------------------
(***************************************************************************)
(* The management timer service of the driver (mgmt/cnm_timer.c) with the  *)
(* part of the glue layer that wakes it (os/linux/gl_kal.c).               *)
(*                                                                         *)
(* All struct TIMERs of the driver share one kernel timer, tickfn.  The    *)
(* kernel timer only sets GLUE_FLAG_TIMEOUT; main_thread takes the flag    *)
(* and runs cnmTimerDoTimeOutCheck, which scans the list of pending timers *)
(* under SPIN_LOCK_TIMER but RELEASES the lock around every callback, so   *)
(* that the callback, and every other thread, may start and stop timers in *)
(* the middle of the scan.                                                 *)
(*                                                                         *)
(* Abstractions.  Time is the millisecond clock kalGetTimeTick, unbounded  *)
(* here: the wrap-around of its 32-bit value is not modelled.              *)
(* The pending list is a set: its order only decides which of several      *)
(* expired timers is dispatched first, which is left open.  A timer with a *)
(* NULL callback is one whose callback does nothing.                       *)
(***************************************************************************)
EXTENDS Integers

CONSTANTS
  Timers,             \* the struct TIMERs of the driver
  Type,               \* eType of each timer: "AUTO", "NONE" or "REQUEST"
  Timeouts,           \* the u4TimeoutMs values callers pass
  MsecPerMin,         \* MSEC_PER_MIN
  MaxTimeoutInterval, \* MGMT_MAX_TIMEOUT_INTERVAL
  WakeLockMaxTime,    \* WAKE_LOCK_MAX_TIME in milliseconds
  JiffyMs,            \* milliseconds per jiffy, the kernel timer's resolution
  MaxTime             \* bound: no timer is started at or after this time

Types == {"AUTO", "NONE", "REQUEST"}

ASSUME ConstantsAssumption ==
  /\ Type \in [Timers -> Types]
  /\ Timeouts \subseteq Nat
  /\ MsecPerMin \in Nat \ {0}
  /\ MaxTimeoutInterval \in Nat \ {0}
  /\ WakeLockMaxTime \in Nat
  /\ JiffyMs \in Nat \ {0}
  /\ MaxTime \in Nat

NotArmed == -1

VARIABLES
  now,                 \* kalGetTimeTick()
  pending,             \* the timers linked in rLinkHead
  rExpiredSysTime,     \* per timer
  u2Minutes,           \* per timer: whole minutes still to wait after that
  rNextExpiredSysTime, \* of the root timer
  tickfn,              \* expiry of the kernel timer, or NotArmed
  fgTimeout,           \* GLUE_FLAG_TIMEOUT
  fgHalt,              \* GLUE_FLAG_HALT
  mainThread,          \* "running" or "exited"
  check,               \* cnmTimerDoTimeOutCheck: "idle", "scan" (lock held)
                       \*   or "callback" (lock released)
  rCurSysTime,         \* the check's local copy of the clock
  eType,               \* the check's local wake-lock type
  fgWakeLocked,        \* of the root timer
  due,                 \* history: the time the caller asked each timer for
  slip                 \* history: how long ago the check that armed tickfn
                       \*   had read the clock

timerVars == <<pending, rExpiredSysTime, u2Minutes, rNextExpiredSysTime, due>>
checkVars == <<check, rCurSysTime, eType>>
glueVars  == <<fgTimeout, fgHalt, mainThread>>
vars == <<now, timerVars, checkVars, glueVars, tickfn, fgWakeLocked, slip>>

Init ==
  /\ now = 0
  /\ pending = {}
  /\ rExpiredSysTime = [t \in Timers |-> 0]
  /\ u2Minutes = [t \in Timers |-> 0]
  /\ rNextExpiredSysTime = 0
  /\ tickfn = NotArmed
  /\ fgTimeout = FALSE /\ fgHalt = FALSE /\ mainThread = "running"
  /\ check = "idle" /\ rCurSysTime = 0 /\ eType = "NONE"
  /\ fgWakeLocked = FALSE
  /\ due = [t \in Timers |-> 0]
  /\ slip = 0

-----------------------------------------------------------------------------
(* Helpers.                                                                *)

\* jiffies + interval * HZ / 1000: the quotient is truncated, and a kernel
\* timer never fires before the next jiffy.
KernelExpiry(interval) ==
  now + (IF interval < JiffyMs THEN JiffyMs ELSE interval - (interval % JiffyMs))

NeedWakeLock(interval, type) ==
  type = "REQUEST" \/ (interval <= WakeLockMaxTime /\ type = "AUTO")

\* The split of a timeout into whole minutes and a first interval; a multiple
\* of a minute gives up one minute to the first interval.
Minutes(ms) == IF ms > MsecPerMin THEN (ms - 1) \div MsecPerMin ELSE 0
\* (Mutant of FirstInterval: the remainder, although Minutes gave one up.)
FirstIntervalIsRemainder(ms) == IF ms = 0 THEN 1 ELSE ms % MsecPerMin
FirstInterval(ms) == IF ms = 0 THEN 1 ELSE ms - Minutes(ms) * MsecPerMin

Expired(t) == rExpiredSysTime[t] <= rCurSysTime

\* The wake-lock types a scan of the timers in S may end with.  A timer counts
\* when it is a new minimum at the moment it is visited: the earliest always
\* is (one of them, if several are), the others depend on the list's order.
EarliestIn(S) ==
  {t \in S : \A u \in S : rExpiredSysTime[t] <= rExpiredSysTime[u]}
Merge(type, C) ==
  IF type = "REQUEST" \/ \E t \in C : Type[t] = "REQUEST" THEN "REQUEST"
  ELSE IF \E t \in C : Type[t] = "AUTO" THEN "AUTO" ELSE type
ScanTypes(S) ==
  {Merge(eType, C) :
     C \in {C \in SUBSET S : S = {} \/ C \cap EarliestIn(S) # {}}}

-----------------------------------------------------------------------------
(* The timer API, callable by any thread whenever SPIN_LOCK_TIMER is free. *)

LockFree == check # "scan"

\* (Mutant of cnmTimerStartTimer: arms the kernel timer only when none runs.)
StartOnlyArmsFirst(t, ms) ==
  LET expires == now + FirstInterval(ms)
  IN /\ LockFree /\ now < MaxTime
     /\ u2Minutes' = [u2Minutes EXCEPT ![t] = Minutes(ms)]
     /\ rExpiredSysTime' = [rExpiredSysTime EXCEPT ![t] = expires]
     /\ due' = [due EXCEPT ![t] = now + ms]
     /\ pending' = pending \cup {t}
     /\ IF pending = {}
        THEN /\ rNextExpiredSysTime' = expires
             /\ tickfn' = KernelExpiry(FirstInterval(ms))
             /\ fgWakeLocked' = (fgWakeLocked
                                   \/ NeedWakeLock(FirstInterval(ms), Type[t]))
             /\ slip' = 0
        ELSE UNCHANGED <<rNextExpiredSysTime, tickfn, fgWakeLocked, slip>>
     /\ UNCHANGED <<now, checkVars, glueVars>>

cnmTimerStartTimer(t, ms) ==
  LET expires == now + FirstInterval(ms)
  IN /\ LockFree /\ now < MaxTime
     /\ u2Minutes' = [u2Minutes EXCEPT ![t] = Minutes(ms)]
     /\ rExpiredSysTime' = [rExpiredSysTime EXCEPT ![t] = expires]
     /\ due' = [due EXCEPT ![t] = now + ms]
     /\ pending' = pending \cup {t}
     /\ IF pending = {} \/ expires < rNextExpiredSysTime
        THEN /\ rNextExpiredSysTime' = expires
             /\ tickfn' = KernelExpiry(FirstInterval(ms))
             /\ fgWakeLocked' = (fgWakeLocked
                                   \/ NeedWakeLock(FirstInterval(ms), Type[t]))
             /\ slip' = 0
        ELSE UNCHANGED <<rNextExpiredSysTime, tickfn, fgWakeLocked, slip>>
     /\ UNCHANGED <<now, checkVars, glueVars>>

\* (Mutant of cnmTimerStopTimer: keeps the wake lock of the last timer.)
StopKeepsWakeLock(t) ==
  /\ LockFree /\ t \in pending
  /\ pending' = pending \ {t}
  /\ UNCHANGED <<now, rExpiredSysTime, u2Minutes, rNextExpiredSysTime, due,
                 checkVars, glueVars, tickfn, fgWakeLocked, slip>>

\* The kernel timer is left armed: one dummy timeout is accepted.
cnmTimerStopTimer(t) ==
  /\ LockFree /\ t \in pending
  /\ pending' = pending \ {t}
  /\ fgWakeLocked' = (fgWakeLocked /\ pending' # {})
  /\ UNCHANGED <<now, rExpiredSysTime, u2Minutes, rNextExpiredSysTime, due,
                 checkVars, glueVars, tickfn, slip>>

\* The softirq of the kernel timer.
kalTimeoutHandler ==
  /\ tickfn # NotArmed /\ tickfn <= now
  /\ tickfn' = NotArmed
  /\ fgTimeout' = TRUE
  /\ UNCHANGED <<now, timerVars, checkVars, fgHalt, mainThread, fgWakeLocked,
                 slip>>

-----------------------------------------------------------------------------
(* cnmTimerDoTimeOutCheck, run by main_thread.                             *)

\* main_thread takes the flag; under HALT the check is skipped.
MainThreadTakesTimeout ==
  /\ mainThread = "running" /\ check = "idle" /\ fgTimeout
  /\ fgTimeout' = FALSE
  /\ IF fgHalt
     THEN UNCHANGED <<checkVars, rNextExpiredSysTime>>
     ELSE /\ check' = "scan"
          /\ rCurSysTime' = now
          /\ eType' = "NONE"
          /\ rNextExpiredSysTime' = now + MaxTimeoutInterval
  /\ UNCHANGED <<now, pending, rExpiredSysTime, u2Minutes, due, fgHalt,
                 mainThread, tickfn, fgWakeLocked, slip>>

\* (Mutant of CheckMeetsExpired: u2Minutes is decremented also when it is 0.)
ExpiredCountsBelowZero(t) ==
  /\ check = "scan" /\ t \in pending /\ Expired(t)
  /\ u2Minutes' = [u2Minutes EXCEPT ![t] = @ - 1]
  /\ IF u2Minutes[t] > 0
     THEN /\ rExpiredSysTime' =
               [rExpiredSysTime EXCEPT ![t] = rCurSysTime + MsecPerMin]
          /\ UNCHANGED <<pending, check>>
     ELSE /\ pending' = pending \ {t}
          /\ check' = "callback"
          /\ UNCHANGED rExpiredSysTime
  /\ UNCHANGED <<now, rNextExpiredSysTime, due, rCurSysTime, eType, glueVars,
                 tickfn, fgWakeLocked, slip>>

\* (Mutant of CheckMeetsExpired: the timer called back stays in the list.)
ExpiredStaysPending(t) ==
  /\ check = "scan" /\ t \in pending /\ Expired(t)
  /\ check' = "callback"
  /\ UNCHANGED <<now, timerVars, rCurSysTime, eType, glueVars, tickfn,
                 fgWakeLocked, slip>>

\* The scan meets an expired timer, after visiting some of the others; it
\* starts over from the head of the list, keeping eType.
CheckMeetsExpired(t) ==
  /\ check = "scan" /\ t \in pending /\ Expired(t)
  /\ \E S \in SUBSET {u \in pending : ~Expired(u)} : eType' \in ScanTypes(S)
  /\ rNextExpiredSysTime' = rCurSysTime + MaxTimeoutInterval
  /\ IF u2Minutes[t] > 0
     THEN /\ u2Minutes' = [u2Minutes EXCEPT ![t] = @ - 1]
          /\ rExpiredSysTime' =
               [rExpiredSysTime EXCEPT ![t] = rCurSysTime + MsecPerMin]
          /\ UNCHANGED <<pending, check>>
     ELSE /\ pending' = pending \ {t}
          /\ check' = "callback"
          /\ UNCHANGED <<u2Minutes, rExpiredSysTime>>
  /\ UNCHANGED <<now, due, rCurSysTime, glueVars, tickfn, fgWakeLocked, slip>>

\* The callback has returned and SPIN_LOCK_TIMER is taken again.
CallbackReturns ==
  /\ check = "callback"
  /\ check' = "scan"
  /\ rNextExpiredSysTime' = rCurSysTime + MaxTimeoutInterval
  /\ UNCHANGED <<now, pending, rExpiredSysTime, u2Minutes, due, rCurSysTime,
                 eType, glueVars, tickfn, fgWakeLocked, slip>>

\* (Mutant of CheckEnds: the next timeout is not armed.)
CheckEndsUnarmed ==
  /\ check = "scan" /\ \A t \in pending : ~Expired(t)
  /\ check' = "idle"
  /\ UNCHANGED <<now, timerVars, rCurSysTime, eType, glueVars, tickfn,
                 fgWakeLocked, slip>>

\* The scan reaches the end of the list without meeting an expired timer: the
\* next timeout is armed relative to rCurSysTime, the time the check began.
CheckEnds ==
  /\ check = "scan" /\ \A t \in pending : ~Expired(t)
  /\ check' = "idle"
  /\ IF pending = {}
     THEN /\ fgWakeLocked' = FALSE
          /\ UNCHANGED <<rNextExpiredSysTime, eType, tickfn, slip>>
     ELSE /\ \E first \in EarliestIn(pending) :
               rNextExpiredSysTime' =
                 IF rExpiredSysTime[first] < rNextExpiredSysTime
                 THEN rExpiredSysTime[first] ELSE rNextExpiredSysTime
          /\ eType' \in ScanTypes(pending)
          /\ LET interval == rNextExpiredSysTime' - rCurSysTime
             IN /\ tickfn' = KernelExpiry(interval)
                /\ fgWakeLocked' = NeedWakeLock(interval, eType')
          /\ slip' = now - rCurSysTime
  /\ UNCHANGED <<now, pending, rExpiredSysTime, u2Minutes, due, rCurSysTime,
                 glueVars>>

-----------------------------------------------------------------------------
(* Shutdown and time.                                                      *)

SetHalt ==
  /\ ~fgHalt
  /\ fgHalt' = TRUE
  /\ UNCHANGED <<now, timerVars, checkVars, fgTimeout, mainThread, tickfn,
                 fgWakeLocked, slip>>

MainThreadExits ==
  /\ mainThread = "running" /\ check = "idle" /\ fgHalt
  /\ mainThread' = "exited"
  /\ UNCHANGED <<now, timerVars, checkVars, fgTimeout, fgHalt, tickfn,
                 fgWakeLocked, slip>>

\* The adapter's stop path, after main_thread has been joined.
cnmTimerDestroy ==
  /\ mainThread = "exited"
  /\ pending' = {}
  /\ fgWakeLocked' = FALSE
  /\ UNCHANGED <<now, rExpiredSysTime, u2Minutes, rNextExpiredSysTime, due,
                 checkVars, glueVars, tickfn, slip>>

\* A jiffy passes.  Beyond MaxTime the clock only runs to serve armed timers.
Jiffy ==
  /\ now < MaxTime \/ (tickfn # NotArmed /\ now < tickfn)
  /\ now' = now + JiffyMs
  /\ UNCHANGED <<timerVars, checkVars, glueVars, tickfn, fgWakeLocked, slip>>

MainThread ==
  \/ MainThreadTakesTimeout
  \/ \E t \in Timers : CheckMeetsExpired(t)
  \/ CallbackReturns
  \/ CheckEnds
  \/ MainThreadExits

Next ==
  \/ \E t \in Timers, ms \in Timeouts : cnmTimerStartTimer(t, ms)
  \/ \E t \in Timers : cnmTimerStopTimer(t)
  \/ kalTimeoutHandler
  \/ MainThread
  \/ SetHalt
  \/ cnmTimerDestroy
  \/ Jiffy

Spec == Init /\ [][Next]_vars

\* The clock runs, the kernel runs its softirqs, main_thread is scheduled.
\* Callers need not call anything, and the driver need not be halted.
FairSpec ==
  /\ Spec
  /\ WF_vars(Jiffy)
  /\ WF_vars(kalTimeoutHandler)
  /\ WF_vars(MainThread)
-----------------------------------------------------------------------------
(* Properties.                                                             *)

\* Every variable keeps its type.
TypeOK ==
  /\ now \in Nat
  /\ pending \in SUBSET Timers
  /\ rExpiredSysTime \in [Timers -> Nat]
  /\ u2Minutes \in [Timers -> Nat]
  /\ rNextExpiredSysTime \in Nat
  /\ tickfn \in Nat \cup {NotArmed}
  /\ fgTimeout \in BOOLEAN /\ fgHalt \in BOOLEAN
  /\ mainThread \in {"running", "exited"}
  /\ check \in {"idle", "scan", "callback"}
  /\ rCurSysTime \in Nat
  /\ eType \in Types
  /\ fgWakeLocked \in BOOLEAN
  /\ due \in [Timers -> Nat]
  /\ slip \in Nat

\* No pending timer is forgotten: between checks the kernel timer is armed for
\* each of them, late by less than a jiffy plus the time the callbacks of the
\* last check took (the check re-arms relative to the clock it read first),
\* whatever was started, re-started or stopped meanwhile.
WakeupInTime ==
  check = "idle" /\ ~fgTimeout /\ ~fgHalt =>
    \A t \in pending : /\ tickfn # NotArmed
                       /\ tickfn < rExpiredSysTime[t] + slip + JiffyMs

\* A callback is never dispatched before the time its caller asked for, also
\* when the timeout was split into minutes and re-armed several times.
NoEarlyDispatch ==
  [][check = "scan" /\ check' = "callback" =>
       \A t \in pending \ pending' : due[t] <= now]_vars

\* The wake lock is held only for a pending timer or during a check: once the
\* last timer is gone the system may sleep.
NoWakeLockLeak == fgWakeLocked => pending # {} \/ check # "idle"

\* The service the callers rely on: at most one callback per start, never before
\* its time, one callback at a time, although the lock is released around them.
Service ==
  INSTANCE TimerService WITH armed <- pending, serving <- (check = "callback")
ImplementsTimerService == Service!Spec

\* Every started timer is dispatched, unless it is stopped or the driver halts.
EveryTimerEnds == \A t \in Timers : t \in pending ~> t \notin pending \/ fgHalt
=============================================================================
