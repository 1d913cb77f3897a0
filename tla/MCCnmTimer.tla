----------------------------- MODULE MCCnmTimer -----------------------------
(* Instance of CnmTimer for TLC: one timer of each wake-lock type, a minute *)
(* of 6 ms and jiffies of 2 ms, so that a timeout may need several minutes  *)
(* and may fall between two jiffies.                                        *)
EXTENDS CnmTimer

MCTimers == {"join", "scan"}
MCType == [t \in MCTimers |-> IF t = "scan" THEN "REQUEST" ELSE "AUTO"]
MCTimeouts == {0, 3, 12}
=============================================================================
