---------------------------- MODULE ReorderBuffer ----------------------------
(***************************************************************************)
(* What receive reordering (nic/que_mgt.c) promises for one block-ack      *)
(* agreement, with sequence numbers that never wrap: MSDUs are buffered    *)
(* only while nothing behind them has been released, and are released      *)
(* lowest first, so that what is released never goes back.  RxReorder      *)
(* implements it with 12-bit sequence numbers, a moving window, block-ack  *)
(* requests and two timeouts.                                              *)
(***************************************************************************)
EXTENDS Naturals

VARIABLES
  buffer,  \* the positions of the MSDUs that wait
  last     \* the position released last, 0 if none

vars == <<buffer, last>>

Init == buffer = {} /\ last = 0

Accept ==
  /\ \E p \in buffer' \ buffer : p > last /\ buffer' = buffer \cup {p}
  /\ UNCHANGED last

Release ==
  \E p \in buffer :
    /\ \A q \in buffer : p <= q
    /\ buffer' = buffer \ {p}
    /\ last' = p

\* The agreement ends: what waits leaves together, and numbers may restart.
Flush == buffer' = {} /\ last' = 0

\* The window is set anew from the first frame after a suspend.
Resume ==
  /\ \/ UNCHANGED buffer
     \/ \E p \in buffer' \ buffer : buffer' = buffer \cup {p}
  /\ last' = 0

Next == Accept \/ Release \/ Flush \/ Resume

Spec == Init /\ [][Next]_vars
=============================================================================
