---------------------------- MODULE ChannelQueue ----------------------------
(***************************************************************************)
(* What the channel manager promises its clients, whatever makes it hold   *)
(* requests back: the requests not yet withdrawn stand in the order in     *)
(* which they were made, and the firmware knows the first ones.  A request *)
(* is passed on at once unless others are held back or the manager is      *)
(* closed; when it opens, everything held back is passed on.               *)
(***************************************************************************)
EXTENDS Naturals, Sequences

CONSTANT Clients

VARIABLES
  queue,  \* the clients whose requests stand, in the order they were made
  known,  \* how many of them the firmware knows
  closed  \* BOOLEAN: requests are held back

vars == <<queue, known, closed>>

Init == queue = << >> /\ known = 0 /\ closed = FALSE

Waiting(c) == \E i \in DOMAIN queue : queue[i] = c

Ask(c) ==
  /\ ~Waiting(c)
  /\ queue' = Append(queue, c)
  /\ known' = IF closed THEN known ELSE Len(queue')
  /\ UNCHANGED closed

(* A client withdraws its request, known to the firmware or not.           *)
Withdraw(c) ==
  /\ \E i \in DOMAIN queue :
       /\ queue[i] = c
       /\ queue' = SubSeq(queue, 1, i - 1) \o SubSeq(queue, i + 1, Len(queue))
       /\ known' = IF i <= known THEN known - 1 ELSE known
  /\ UNCHANGED closed

Close == closed' = TRUE /\ UNCHANGED <<queue, known>>

Open == closed' = FALSE /\ known' = Len(queue) /\ UNCHANGED queue

(* Opened and closed again in one step of the detailed system.             *)
Pass == closed /\ known' = Len(queue) /\ UNCHANGED <<queue, closed>>

Next ==
  \/ \E c \in Clients : Ask(c) \/ Withdraw(c)
  \/ Close \/ Open \/ Pass

Spec == Init /\ [][Next]_vars
=============================================================================
