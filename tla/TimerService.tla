---------------------------- MODULE TimerService ----------------------------
(***************************************************************************)
(* What mgmt/cnm_timer.c promises its callers, without the root timer, the *)
(* kernel timer, the minutes or the scan: a started timer calls back at    *)
(* most once, never before its time, and one callback at a time.           *)
(***************************************************************************)
EXTENDS Integers

CONSTANT Timers

VARIABLES
  now,     \* the clock
  armed,   \* the timers that were started and are still to call back
  due,     \* per timer: the time the last start asked for
  serving  \* a callback is running

vars == <<now, armed, due, serving>>

Init ==
  /\ now \in Nat
  /\ armed = {}
  /\ due \in [Timers -> Nat]
  /\ serving = FALSE

\* A started timer, or one started again, gets a new time.
Start(t) ==
  /\ armed' = armed \cup {t}
  /\ due'[t] \in Nat /\ now <= due'[t]
  /\ due' = [due EXCEPT ![t] = due'[t]]
  /\ UNCHANGED <<now, serving>>

\* Timers may be stopped, together or one by one.
Stop ==
  /\ armed' \subseteq armed
  /\ UNCHANGED <<now, due, serving>>

\* The callback of a due timer begins, and only that timer is disarmed.
Dispatch(t) ==
  /\ ~serving /\ t \in armed /\ due[t] <= now
  /\ armed' = armed \ {t}
  /\ serving' = TRUE
  /\ UNCHANGED <<now, due>>

Return ==
  /\ serving
  /\ serving' = FALSE
  /\ UNCHANGED <<now, armed, due>>

TimePasses ==
  /\ now' > now
  /\ UNCHANGED <<armed, due, serving>>

Next ==
  \/ \E t \in Timers : Start(t) \/ Dispatch(t)
  \/ Stop \/ Return \/ TimePasses

Spec == Init /\ [][Next]_vars
=============================================================================
