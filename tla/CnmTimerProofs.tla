--------------------------- MODULE CnmTimerProofs ---------------------------
(***************************************************************************)
(* The safety properties of CnmTimer hold for every set of timers, every   *)
(* timeout and every resolution of the kernel timer.                       *)
(***************************************************************************)
EXTENDS CnmTimer, TLAPS

\* The check works with a clock value it read earlier.
ClockRead == rCurSysTime <= now

\* Whenever the scan holds the lock, its horizon is the maximum timeout.
ScanHorizon ==
  check = "scan" =>
    rNextExpiredSysTime = rCurSysTime + MaxTimeoutInterval

\* Between checks the root timer knows the earliest expiry, or an earlier time
\* left behind by a timer that was stopped or re-started.
NextIsEarliest ==
  check = "idle" => \A t \in pending : rNextExpiredSysTime <= rExpiredSysTime[t]

\* Between checks the kernel timer serves the time the root timer knows.
KernelTimerArmed ==
  check = "idle" /\ pending # {} /\ ~fgTimeout /\ ~fgHalt =>
    /\ tickfn # NotArmed
    /\ tickfn < rNextExpiredSysTime + slip + JiffyMs

\* The first interval and the minutes left cover what the caller asked for.
DueCovered ==
  \A t \in pending : due[t] <= rExpiredSysTime[t] + u2Minutes[t] * MsecPerMin

IInv ==
  /\ TypeOK
  /\ ClockRead
  /\ ScanHorizon
  /\ NextIsEarliest
  /\ KernelTimerArmed
  /\ DueCovered
  /\ NoWakeLockLeak

-----------------------------------------------------------------------------
(* Arithmetic of the timeouts.                                             *)

\* The split of a timeout leaves a first interval of at least 1 ms and loses
\* no time (cnmTimerStartTimer).
LEMMA SplitTimeout ==
  ASSUME NEW ms \in Nat
  PROVE  /\ Minutes(ms) \in Nat
         /\ FirstInterval(ms) \in Nat
         /\ FirstInterval(ms) >= 1
         /\ ms <= FirstInterval(ms) + Minutes(ms) * MsecPerMin
<1>1. MsecPerMin \in Nat /\ MsecPerMin >= 1
  BY ConstantsAssumption
<1>2. CASE ms <= MsecPerMin
  BY <1>1, <1>2 DEF Minutes, FirstInterval
<1>3. CASE ms > MsecPerMin
  <2> DEFINE q == (ms - 1) \div MsecPerMin
  <2>1. q \in Nat /\ q * MsecPerMin <= ms - 1
    BY <1>1, <1>3
  <2>2. q * MsecPerMin \in Nat
    BY <1>1, <2>1
  <2>3. Minutes(ms) = q /\ FirstInterval(ms) = ms - q * MsecPerMin
    BY <1>1, <1>3 DEF Minutes, FirstInterval
  <2> HIDE DEF q
  <2> QED
    BY <2>1, <2>2, <2>3
<1> QED
  BY <1>1, <1>2, <1>3

\* The kernel timer is armed in the future, late by less than a jiffy
\* (kalSetTimer).
LEMMA KernelExpiryBound ==
  ASSUME NEW interval \in Nat, interval >= 1, now \in Nat
  PROVE  /\ KernelExpiry(interval) \in Nat
         /\ KernelExpiry(interval) < now + interval + JiffyMs
<1>1. JiffyMs \in Nat /\ JiffyMs >= 1
  BY ConstantsAssumption
<1>2. interval % JiffyMs \in 0 .. (JiffyMs - 1)
  BY <1>1
<1> QED
  BY <1>1, <1>2 DEF KernelExpiry

-----------------------------------------------------------------------------
(* The inductive invariant.                                                *)

LEMMA InitIInv == Init => IInv
<1> SUFFICES ASSUME Init PROVE IInv
  OBVIOUS
<1>1. TypeOK
  BY DEF Init, TypeOK, NotArmed, Types
<1> QED
  BY <1>1 DEF Init, IInv, ClockRead, ScanHorizon, NextIsEarliest,
              KernelTimerArmed, DueCovered, NoWakeLockLeak

LEMMA StartPreserves ==
  ASSUME IInv, NEW t \in Timers, NEW ms \in Timeouts, cnmTimerStartTimer(t, ms)
  PROVE  IInv'
<1> USE DEF IInv
<1>1. /\ ms \in Nat /\ Type[t] \in Types
      /\ MsecPerMin \in Nat /\ JiffyMs \in Nat /\ WakeLockMaxTime \in Nat
  BY ConstantsAssumption
<1> DEFINE first == FirstInterval(ms)
           arms  == pending = {} \/ now + first < rNextExpiredSysTime
<1>2. /\ Minutes(ms) \in Nat /\ first \in Nat /\ first >= 1
      /\ ms <= first + Minutes(ms) * MsecPerMin
  BY <1>1, SplitTimeout
<1>3. now \in Nat
  BY DEF TypeOK
<1>4. KernelExpiry(first) \in Nat /\ KernelExpiry(first) < now + first + JiffyMs
  BY <1>2, <1>3, KernelExpiryBound
<1>5. /\ check' = check /\ check # "scan" /\ now' = now
      /\ fgTimeout' = fgTimeout /\ fgHalt' = fgHalt
      /\ pending' = pending \cup {t}
      /\ rExpiredSysTime' = [rExpiredSysTime EXCEPT ![t] = now + first]
      /\ u2Minutes' = [u2Minutes EXCEPT ![t] = Minutes(ms)]
      /\ due' = [due EXCEPT ![t] = now + ms]
  BY DEF cnmTimerStartTimer, LockFree, checkVars, glueVars
<1>6. CASE arms
  <2>1. /\ rNextExpiredSysTime' = now + first
        /\ tickfn' = KernelExpiry(first)
        /\ slip' = 0
        /\ fgWakeLocked' = (fgWakeLocked \/ NeedWakeLock(first, Type[t]))
    BY <1>6 DEF cnmTimerStartTimer
  <2>2. NeedWakeLock(first, Type[t]) \in BOOLEAN
    BY DEF NeedWakeLock
  <2>3. fgWakeLocked' \in BOOLEAN
    BY <2>1, <2>2 DEF TypeOK
  <2> HIDE DEF first
  <2>4. TypeOK'
    BY <1>1, <1>2, <1>3, <1>4, <1>5, <2>1, <2>3
    DEF TypeOK, cnmTimerStartTimer, checkVars, glueVars
  <2>5. NextIsEarliest'
    BY <1>2, <1>3, <1>5, <1>6, <2>1 DEF NextIsEarliest, TypeOK
  <2>6. KernelTimerArmed'
    BY <1>1, <1>2, <1>3, <1>4, <1>5, <2>1 DEF KernelTimerArmed, NotArmed
  <2>7. DueCovered'
    BY <1>1, <1>2, <1>3, <1>5 DEF DueCovered, TypeOK
  <2>8. ClockRead' /\ ScanHorizon' /\ NoWakeLockLeak'
    BY <1>5 DEF ClockRead, ScanHorizon, NoWakeLockLeak, cnmTimerStartTimer,
                checkVars
  <2> QED
    BY <2>4, <2>5, <2>6, <2>7, <2>8
<1>7. CASE ~arms
  <2>1. UNCHANGED <<rNextExpiredSysTime, tickfn, fgWakeLocked, slip>>
    BY <1>7 DEF cnmTimerStartTimer
  <2>2. pending # {} /\ ~(now + first < rNextExpiredSysTime)
    BY <1>7
  <2> HIDE DEF first, arms
  <2>3. TypeOK'
    BY <1>1, <1>2, <1>3, <1>5, <2>1
    DEF TypeOK, cnmTimerStartTimer, checkVars, glueVars
  <2>4. NextIsEarliest'
    BY <1>2, <1>3, <1>5, <2>1, <2>2 DEF NextIsEarliest, TypeOK
  <2>5. KernelTimerArmed'
    BY <1>5, <2>1, <2>2 DEF KernelTimerArmed
  <2>6. DueCovered'
    BY <1>1, <1>2, <1>3, <1>5 DEF DueCovered, TypeOK
  <2>7. ClockRead' /\ ScanHorizon' /\ NoWakeLockLeak'
    BY <1>5, <2>1 DEF ClockRead, ScanHorizon, NoWakeLockLeak,
                      cnmTimerStartTimer, checkVars
  <2> QED
    BY <2>3, <2>4, <2>5, <2>6, <2>7
<1> QED
  BY <1>6, <1>7

LEMMA StopPreserves ==
  ASSUME IInv, NEW t \in Timers, cnmTimerStopTimer(t)
  PROVE  IInv'
<1> USE DEF IInv, cnmTimerStopTimer, checkVars, glueVars
<1>1. fgWakeLocked' \in BOOLEAN
  BY DEF TypeOK
<1>2. TypeOK'
  BY <1>1 DEF TypeOK
<1>3. NoWakeLockLeak'
  BY DEF NoWakeLockLeak
<1>4. /\ ClockRead' /\ ScanHorizon' /\ NextIsEarliest'
      /\ KernelTimerArmed' /\ DueCovered'
  BY DEF ClockRead, ScanHorizon, NextIsEarliest, KernelTimerArmed, DueCovered
<1> QED
  BY <1>2, <1>3, <1>4

LEMMA CheckBeginPreserves ==
  ASSUME IInv, MainThreadTakesTimeout
  PROVE  IInv'
<1> USE DEF IInv, MainThreadTakesTimeout, checkVars
<1>1. TypeOK'
  <2>1. CASE fgHalt
    BY <2>1 DEF TypeOK
  <2>2. CASE ~fgHalt
    <3>1. now + MaxTimeoutInterval \in Nat /\ "NONE" \in Types
      BY ConstantsAssumption DEF TypeOK, Types
    <3> QED
      BY <2>2, <3>1 DEF TypeOK
  <2> QED
    BY <2>1, <2>2
<1>2. ClockRead' /\ ScanHorizon'
  BY DEF ClockRead, ScanHorizon, TypeOK
<1>3. NextIsEarliest' /\ KernelTimerArmed'
  BY DEF NextIsEarliest, KernelTimerArmed
<1>4. DueCovered' /\ NoWakeLockLeak'
  BY DEF DueCovered, NoWakeLockLeak
<1> QED
  BY <1>1, <1>2, <1>3, <1>4

\* What a scan leaves in eType is a wake-lock type.
LEMMA ScanTypesAreTypes ==
  ASSUME eType \in Types, NEW S, NEW type \in ScanTypes(S)
  PROVE  type \in Types
BY DEF ScanTypes, Merge, Types

LEMMA CheckMeetsExpiredPreserves ==
  ASSUME IInv, NEW t \in Timers, CheckMeetsExpired(t)
  PROVE  IInv'
<1> USE DEF IInv
<1>1. /\ MsecPerMin \in Nat /\ MsecPerMin >= 1
      /\ MaxTimeoutInterval \in Nat
  BY ConstantsAssumption
<1>2. eType' \in Types
  BY ScanTypesAreTypes DEF CheckMeetsExpired, TypeOK
<1>3. /\ now' = now /\ due' = due /\ rCurSysTime' = rCurSysTime
      /\ rNextExpiredSysTime' = rCurSysTime + MaxTimeoutInterval
      /\ t \in pending /\ rExpiredSysTime[t] <= rCurSysTime
      /\ check = "scan" /\ UNCHANGED <<glueVars, tickfn, fgWakeLocked, slip>>
  BY DEF CheckMeetsExpired, Expired
<1>4. CASE u2Minutes[t] > 0
  <2>1. /\ u2Minutes' = [u2Minutes EXCEPT ![t] = u2Minutes[t] - 1]
        /\ rExpiredSysTime' =
             [rExpiredSysTime EXCEPT ![t] = rCurSysTime + MsecPerMin]
        /\ pending' = pending /\ check' = check
    BY <1>4 DEF CheckMeetsExpired
  <2>2. TypeOK'
    BY <1>1, <1>2, <1>3, <1>4, <2>1 DEF TypeOK, glueVars
  <2>3. DueCovered'
    <3> SUFFICES ASSUME NEW u \in pending
                 PROVE  due[u] <= rExpiredSysTime'[u]
                                    + u2Minutes'[u] * MsecPerMin
      BY <1>3, <2>1 DEF DueCovered
    <3>1. due[u] <= rExpiredSysTime[u] + u2Minutes[u] * MsecPerMin
      BY DEF DueCovered
    <3>2. CASE u = t
      <4> DEFINE m == u2Minutes[t]
      <4>1. /\ m \in Nat /\ rExpiredSysTime[t] \in Nat /\ due[t] \in Nat
            /\ rCurSysTime \in Nat
        BY DEF TypeOK
      <4>2. (m - 1) * MsecPerMin = m * MsecPerMin - MsecPerMin
        BY <1>1, <4>1
      <4>3. m * MsecPerMin \in Nat
        BY <1>1, <4>1
      <4>4. /\ rExpiredSysTime'[u] = rCurSysTime + MsecPerMin
            /\ u2Minutes'[u] = m - 1
        BY <2>1, <3>2 DEF TypeOK
      <4> HIDE DEF m
      <4>5. due[t] <= rExpiredSysTime[t] + m * MsecPerMin
        BY <3>1, <3>2 DEF m
      <4> QED
        BY <1>1, <1>3, <3>2, <4>1, <4>2, <4>3, <4>4, <4>5
    <3>3. CASE u # t
      <4>1. /\ rExpiredSysTime'[u] = rExpiredSysTime[u]
            /\ u2Minutes'[u] = u2Minutes[u]
        BY <2>1, <3>3 DEF TypeOK
      <4> QED
        BY <3>1, <4>1
    <3> QED
      BY <3>2, <3>3
  <2>4. ClockRead' /\ ScanHorizon' /\ NextIsEarliest' /\ KernelTimerArmed'
    BY <1>3, <2>1 DEF ClockRead, ScanHorizon, NextIsEarliest, KernelTimerArmed
  <2>5. NoWakeLockLeak'
    BY <1>3, <2>1 DEF NoWakeLockLeak
  <2> QED
    BY <2>2, <2>3, <2>4, <2>5
<1>5. CASE ~(u2Minutes[t] > 0)
  <2>1. /\ pending' = pending \ {t} /\ check' = "callback"
        /\ UNCHANGED <<u2Minutes, rExpiredSysTime>>
    BY <1>5 DEF CheckMeetsExpired
  <2>2. TypeOK'
    BY <1>1, <1>2, <1>3, <2>1 DEF TypeOK, glueVars
  <2>3. ClockRead' /\ DueCovered'
    BY <1>3, <2>1 DEF ClockRead, DueCovered
  <2>4. ScanHorizon' /\ NextIsEarliest' /\ KernelTimerArmed' /\ NoWakeLockLeak'
    BY <2>1 DEF ScanHorizon, NextIsEarliest, KernelTimerArmed, NoWakeLockLeak
  <2> QED
    BY <2>2, <2>3, <2>4
<1> QED
  BY <1>4, <1>5

LEMMA CallbackReturnsPreserves ==
  ASSUME IInv, CallbackReturns
  PROVE  IInv'
<1> USE DEF IInv, CallbackReturns, glueVars
<1>1. TypeOK'
  BY ConstantsAssumption DEF TypeOK
<1>2. ClockRead' /\ ScanHorizon' /\ DueCovered'
  BY DEF ClockRead, ScanHorizon, DueCovered
<1>3. NextIsEarliest' /\ KernelTimerArmed' /\ NoWakeLockLeak'
  BY DEF NextIsEarliest, KernelTimerArmed, NoWakeLockLeak
<1> QED
  BY <1>1, <1>2, <1>3

LEMMA CheckEndsPreserves ==
  ASSUME IInv, CheckEnds
  PROVE  IInv'
<1> USE DEF IInv
<1>1. /\ check = "scan" /\ check' = "idle" /\ now' = now
      /\ UNCHANGED <<pending, rExpiredSysTime, u2Minutes, due, rCurSysTime,
                     glueVars>>
      /\ \A t \in pending : ~(rExpiredSysTime[t] <= rCurSysTime)
  BY DEF CheckEnds, Expired
<1>2. /\ rNextExpiredSysTime = rCurSysTime + MaxTimeoutInterval
      /\ MaxTimeoutInterval \in Nat /\ MaxTimeoutInterval >= 1
      /\ JiffyMs \in Nat /\ WakeLockMaxTime \in Nat
  BY <1>1, ConstantsAssumption DEF ScanHorizon
<1>3. ClockRead' /\ ScanHorizon' /\ DueCovered'
  BY <1>1 DEF ClockRead, ScanHorizon, DueCovered
<1>4. CASE pending = {}
  <2>1. /\ fgWakeLocked' = FALSE
        /\ UNCHANGED <<rNextExpiredSysTime, eType, tickfn, slip>>
    BY <1>4 DEF CheckEnds
  <2>2. TypeOK'
    BY <1>1, <2>1 DEF TypeOK, glueVars
  <2>3. NextIsEarliest' /\ KernelTimerArmed' /\ NoWakeLockLeak'
    BY <1>1, <1>4, <2>1 DEF NextIsEarliest, KernelTimerArmed, NoWakeLockLeak
  <2> QED
    BY <1>3, <2>2, <2>3
<1>5. CASE pending # {}
  <2> DEFINE interval == rNextExpiredSysTime' - rCurSysTime
  <2>1. PICK first \in EarliestIn(pending) :
          rNextExpiredSysTime' =
            IF rExpiredSysTime[first] < rNextExpiredSysTime
            THEN rExpiredSysTime[first] ELSE rNextExpiredSysTime
    BY <1>5 DEF CheckEnds
  <2>2. /\ eType' \in ScanTypes(pending)
        /\ tickfn' = KernelExpiry(interval)
        /\ fgWakeLocked' = NeedWakeLock(interval, eType')
        /\ slip' = now - rCurSysTime
    BY <1>5 DEF CheckEnds
  <2>3. /\ first \in pending
        /\ \A u \in pending : rExpiredSysTime[first] <= rExpiredSysTime[u]
    BY DEF EarliestIn
  <2>4. /\ now \in Nat /\ rCurSysTime \in Nat /\ rCurSysTime <= now
        /\ rExpiredSysTime \in [Timers -> Nat] /\ pending \subseteq Timers
    BY DEF TypeOK, ClockRead
  <2>5. /\ rNextExpiredSysTime' \in Nat /\ interval \in Nat /\ interval >= 1
        /\ \A u \in pending : rNextExpiredSysTime' <= rExpiredSysTime[u]
    BY <1>1, <1>2, <2>1, <2>3, <2>4
  <2>6. /\ KernelExpiry(interval) \in Nat
        /\ KernelExpiry(interval) < now + interval + JiffyMs
    <3> HIDE DEF interval
    <3> QED
      BY <2>4, <2>5, KernelExpiryBound
  <2>7. eType' \in Types
    BY <2>2, ScanTypesAreTypes DEF TypeOK
  <2>8. fgWakeLocked' \in BOOLEAN
    BY <2>2 DEF NeedWakeLock
  <2>9. TypeOK'
    BY <1>1, <2>2, <2>4, <2>5, <2>6, <2>7, <2>8 DEF TypeOK, glueVars
  <2>10. NextIsEarliest'
    BY <1>1, <2>5 DEF NextIsEarliest
  <2>11. KernelTimerArmed'
    BY <1>2, <2>2, <2>4, <2>5, <2>6 DEF KernelTimerArmed, NotArmed
  <2>12. NoWakeLockLeak'
    BY <1>1, <1>5 DEF NoWakeLockLeak
  <2> QED
    BY <1>3, <2>9, <2>10, <2>11, <2>12
<1> QED
  BY <1>4, <1>5

LEMMA GlueStepPreserves ==
  ASSUME IInv,
         \/ kalTimeoutHandler \/ SetHalt \/ MainThreadExits
         \/ cnmTimerDestroy \/ Jiffy \/ UNCHANGED vars
  PROVE  IInv'
<1> USE ConstantsAssumption
    DEF IInv, TypeOK, ClockRead, ScanHorizon, NextIsEarliest, KernelTimerArmed,
        DueCovered, NoWakeLockLeak, timerVars, checkVars, glueVars
<1>1. CASE kalTimeoutHandler
  BY <1>1 DEF kalTimeoutHandler
<1>2. CASE SetHalt
  BY <1>2 DEF SetHalt
<1>3. CASE MainThreadExits
  BY <1>3 DEF MainThreadExits
<1>4. CASE cnmTimerDestroy
  BY <1>4 DEF cnmTimerDestroy
<1>5. CASE Jiffy
  BY <1>5 DEF Jiffy
<1>6. CASE UNCHANGED vars
  BY <1>6 DEF vars
<1> QED
  BY <1>1, <1>2, <1>3, <1>4, <1>5, <1>6

LEMMA NextPreserves == IInv /\ [Next]_vars => IInv'
<1> SUFFICES ASSUME IInv, [Next]_vars PROVE IInv'
  OBVIOUS
<1>1. CASE \E t \in Timers, ms \in Timeouts : cnmTimerStartTimer(t, ms)
  BY <1>1, StartPreserves
<1>2. CASE \E t \in Timers : cnmTimerStopTimer(t)
  BY <1>2, StopPreserves
<1>3. CASE MainThreadTakesTimeout
  BY <1>3, CheckBeginPreserves
<1>4. CASE \E t \in Timers : CheckMeetsExpired(t)
  BY <1>4, CheckMeetsExpiredPreserves
<1>5. CASE CallbackReturns
  BY <1>5, CallbackReturnsPreserves
<1>6. CASE CheckEnds
  BY <1>6, CheckEndsPreserves
<1>7. CASE \/ kalTimeoutHandler \/ SetHalt \/ MainThreadExits
           \/ cnmTimerDestroy \/ Jiffy \/ UNCHANGED vars
  BY <1>7, GlueStepPreserves
<1> QED
  BY <1>1, <1>2, <1>3, <1>4, <1>5, <1>6, <1>7 DEF Next, MainThread

-----------------------------------------------------------------------------
(* The theorems.                                                           *)

\* IInv holds in every reachable state.
THEOREM Invariance == Spec => []IInv
BY InitIInv, NextPreserves, PTL DEF Spec

\* The variables of the timer service keep their types.
THEOREM TypeCorrect == Spec => []TypeOK
<1>1. IInv => TypeOK
  BY DEF IInv
<1> QED
  BY Invariance, <1>1, PTL

\* Between two runs of cnmTimerDoTimeOutCheck the kernel timer is armed in time
\* for every pending timer.
THEOREM WakeupNeverLost == Spec => []WakeupInTime
<1>1. IInv => WakeupInTime
  <2> SUFFICES ASSUME IInv, check = "idle", ~fgTimeout, ~fgHalt,
                      NEW t \in pending
               PROVE  /\ tickfn # NotArmed
                      /\ tickfn < rExpiredSysTime[t] + slip + JiffyMs
    BY DEF WakeupInTime
  <2>1. /\ tickfn # NotArmed
        /\ tickfn < rNextExpiredSysTime + slip + JiffyMs
    BY DEF IInv, KernelTimerArmed
  <2>2. rNextExpiredSysTime <= rExpiredSysTime[t]
    BY DEF IInv, NextIsEarliest
  <2>3. /\ tickfn \in Nat /\ slip \in Nat /\ rNextExpiredSysTime \in Nat
        /\ rExpiredSysTime[t] \in Nat /\ JiffyMs \in Nat
    BY <2>1, ConstantsAssumption DEF IInv, TypeOK
  <2> QED
    BY <2>1, <2>2, <2>3
<1> QED
  BY Invariance, <1>1, PTL

\* The root timer's wake lock never outlives the last pending timer.
THEOREM WakeLockReleased == Spec => []NoWakeLockLeak
<1>1. IInv => NoWakeLockLeak
  BY DEF IInv
<1> QED
  BY Invariance, <1>1, PTL

\* No callback of cnmTimerDoTimeOutCheck runs before its time.
THEOREM CallbacksAreNotEarly == Spec => NoEarlyDispatch
<1> DEFINE Early == check = "scan" /\ check' = "callback" =>
                      \A t \in pending \ pending' : due[t] <= now
<1>1. IInv /\ [Next]_vars => [Early]_vars
  <2> SUFFICES ASSUME IInv, Next, check = "scan", check' = "callback",
                      NEW t \in pending \ pending'
               PROVE  due[t] <= now
    OBVIOUS
  <2>1. PICK u \in Timers : CheckMeetsExpired(u)
    BY DEF Next, MainThread, cnmTimerStartTimer, cnmTimerStopTimer, LockFree,
           kalTimeoutHandler, MainThreadTakesTimeout, CallbackReturns,
           CheckEnds, MainThreadExits, SetHalt, cnmTimerDestroy, Jiffy,
           checkVars
  <2>2. t = u /\ ~(u2Minutes[t] > 0) /\ rExpiredSysTime[t] <= rCurSysTime
    BY <2>1 DEF CheckMeetsExpired, Expired
  <2>3. /\ u2Minutes[t] \in Nat /\ rExpiredSysTime[t] \in Nat
        /\ rCurSysTime \in Nat /\ now \in Nat /\ due[t] \in Nat
        /\ rCurSysTime <= now /\ MsecPerMin \in Nat
    BY ConstantsAssumption DEF IInv, TypeOK, ClockRead
  <2>4. due[t] <= rExpiredSysTime[t] + u2Minutes[t] * MsecPerMin
    BY DEF IInv, DueCovered
  <2>5. u2Minutes[t] = 0 /\ u2Minutes[t] * MsecPerMin = 0
    BY <2>2, <2>3
  <2> QED
    BY <2>2, <2>3, <2>4, <2>5
<1> QED
  BY Invariance, <1>1, PTL DEF Spec, NoEarlyDispatch

-----------------------------------------------------------------------------
(* Refinement of the service.                                              *)

\* The initial state is an initial state of the service.
LEMMA InitImplements == Init => Service!Init
BY DEF Init, Service!Init

\* Every step is a step of the service or leaves it unchanged.
LEMMA StepImplements ==
  ASSUME IInv, [Next]_vars
  PROVE  [Service!Next]_(Service!vars)
<1> USE DEF Service!vars, timerVars, checkVars, glueVars
<1>1. ASSUME NEW t \in Timers, NEW ms \in Timeouts, cnmTimerStartTimer(t, ms)
      PROVE  Service!Start(t)
  <2>1. now \in Nat /\ ms \in Nat /\ due \in [Timers -> Nat]
    BY ConstantsAssumption DEF IInv, TypeOK
  <2>2. due' = [due EXCEPT ![t] = now + ms] /\ due'[t] = now + ms
    BY <1>1, <2>1 DEF cnmTimerStartTimer
  <2> QED
    BY <1>1, <2>1, <2>2 DEF cnmTimerStartTimer, Service!Start
<1>2. ASSUME NEW t \in Timers, cnmTimerStopTimer(t)
      PROVE  Service!Stop
  BY <1>2 DEF cnmTimerStopTimer, Service!Stop
<1>3. CASE MainThreadTakesTimeout
  BY <1>3 DEF MainThreadTakesTimeout
<1>4. ASSUME NEW t \in Timers, CheckMeetsExpired(t)
      PROVE  Service!Dispatch(t) \/ UNCHANGED Service!vars
  <2>1. CASE u2Minutes[t] > 0
    BY <1>4, <2>1 DEF CheckMeetsExpired
  <2>2. CASE ~(u2Minutes[t] > 0)
    <3>1. /\ u2Minutes[t] \in Nat /\ rExpiredSysTime[t] \in Nat
          /\ rCurSysTime \in Nat /\ now \in Nat /\ due[t] \in Nat
          /\ rCurSysTime <= now /\ MsecPerMin \in Nat
      BY ConstantsAssumption DEF IInv, TypeOK, ClockRead
    <3>2. u2Minutes[t] = 0 /\ u2Minutes[t] * MsecPerMin = 0
      BY <2>2, <3>1
    <3>3. t \in pending /\ rExpiredSysTime[t] <= rCurSysTime
      BY <1>4 DEF CheckMeetsExpired, Expired
    <3>4. due[t] <= now
      BY <3>1, <3>2, <3>3 DEF IInv, DueCovered
    <3> QED
      BY <1>4, <2>2, <3>3, <3>4 DEF CheckMeetsExpired, Service!Dispatch
  <2> QED
    BY <2>1, <2>2
<1>5. CASE CallbackReturns
  BY <1>5 DEF CallbackReturns, Service!Return, Service!Next
<1>6. CASE CheckEnds
  BY <1>6 DEF CheckEnds
<1>7. CASE kalTimeoutHandler \/ SetHalt \/ MainThreadExits
  BY <1>7 DEF kalTimeoutHandler, SetHalt, MainThreadExits
<1>8. CASE cnmTimerDestroy
  BY <1>8 DEF cnmTimerDestroy, Service!Stop, Service!Next
<1>9. CASE Jiffy
  <2>1. JiffyMs \in Nat /\ JiffyMs >= 1 /\ now \in Nat
    BY ConstantsAssumption DEF IInv, TypeOK
  <2> QED
    BY <1>9, <2>1 DEF Jiffy, Service!TimePasses, Service!Next
<1>10. CASE UNCHANGED vars
  BY <1>10 DEF vars
<1> QED
  BY <1>1, <1>2, <1>3, <1>4, <1>5, <1>6, <1>7, <1>8, <1>9, <1>10
  DEF Next, MainThread, Service!Next

\* cnm_timer.c implements the timer service, for every set of timers and every
\* timeout.
THEOREM ServiceImplemented == Spec => ImplementsTimerService
BY InitImplements, StepImplements, Invariance, PTL
DEF Spec, ImplementsTimerService, Service!Spec
=============================================================================
