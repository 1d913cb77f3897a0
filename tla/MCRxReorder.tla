----------------------------- MODULE MCRxReorder -----------------------------
(* Instances of RxReorder for TLC: numbers of 4 bits that wrap after two     *)
(* frames, and a window of 3 of which the AP uses 2.                         *)
EXTENDS RxReorder

OneAtATime == {1}
Frames15And16 == {15, 16}
Frame16 == {16}
Frame17 == {17}
Frame32 == {32}
=============================================================================
