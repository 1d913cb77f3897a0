------------------------------ MODULE RxReorder ------------------------------
(***************************************************************************)
(* Receive reordering of one block-ack agreement (nic/que_mgt.c).          *)
(*                                                                         *)
(* The driver is built with CFG_RX_DIRECT: data frames are handled in the  *)
(* receive tasklet ("rx"), one at a time, under SPIN_LOCK_RX_DIRECT; the   *)
(* bubble timer and the events that add and delete agreements are handled  *)
(* in main_thread ("main").  The queue and the window are under            *)
(* SPIN_LOCK_RX_DIRECT_REORDER (lock); fgIsValid, u4SeqNo, fgHasBubble and *)
(* g_arMissTimeout are also touched outside of it.  One iteration of a     *)
(* loop is one step.                                                       *)
(*                                                                         *)
(* The access point (AP) is external: it sends within its own window, may  *)
(* repeat frames, gives frames up, with a block-ack request (BAR) or       *)
(* without.                                                                *)
(*                                                                         *)
(* Abstractions.  One station, one TID.  A frame is its number, unbounded  *)
(* here and cut to MaxSeq in the code's variables, and its place in an     *)
(* A-MSDU of at most two parts.  How long the two timeouts take is left    *)
(* open.  Low-latency and O-share modes are off.                           *)
(***************************************************************************)
EXTENDS Integers, Sequences, FiniteSetsExt

CONSTANTS
  MaxSeq,      \* MAX_SEQ_NO_COUNT
  WinSize,     \* u2WinSize: the AP's window and CFG_RX_BA_INC_SIZE
  OverlapMax,  \* frames in order that end fgNoDrop: 10 in the code
  ApWindow,    \* how far the AP sends ahead of its oldest frame
  First, Last, \* bound: the frames the AP sends
  Jumps,       \* how many frames the AP may give up at once
  Amsdu,       \* the frames that are A-MSDUs
  TailLost,    \* those that lose their last part before they get here
  Repeats,     \* the frames the AP may send again when they were received
  StrayBy,     \* an abnormal number is this far ahead; 0: there is none
  MaxAgreements, MaxSuspends, \* bounds
  DelRaces     \* an agreement may be deleted while rx is at work

ASSUME ConstantsAssumption ==
  /\ MaxSeq \in Nat /\ MaxSeq % 4 = 0
  /\ WinSize \in 2 .. (MaxSeq \div 2)
  /\ OverlapMax \in Nat
  /\ ApWindow \in 1 .. WinSize /\ First \in Nat /\ Last \in Nat
  /\ Jumps \subseteq Nat \ {0}
  /\ Amsdu \subseteq Nat /\ TailLost \subseteq Amsdu /\ Repeats \subseteq Nat
  /\ TailLost \cap Repeats = {}
  /\ StrayBy \in Nat
  /\ MaxAgreements \in Nat /\ MaxSuspends \in Nat /\ DelRaces \in BOOLEAN

Half == MaxSeq \div 2     \* HALF_SEQ_NO_COUNT
Quarter == MaxSeq \div 4  \* QUARTER_SEQ_NO_COUNT

VARIABLES
  fgIsValid, refTbl, \* the agreement, and the station's pointer to it
  u2WinStart, u2WinEnd, rReOrderQue,
  fgIsWaitingForPktWithSsn, fgFirstSnToWinStart,
  fgNoDrop, u4SNOverlapCount,
  u4SeqNo, u8LastAmsduSubIdx, fgIsAmsduDuplicated,
  fgHasBubble, u2FirstBubbleSn,
  bubbleTimer,       \* rReorderBubbleTimer is pending
  missTimeout,       \* g_arMissTimeout: 0, "set", "old" (over)
  lock,              \* who holds SPIN_LOCK_RX_DIRECT_REORDER, or "none"
  rxPc, rxPkt, rxOut, rxMissing, rxBeforeEnd, \* rx and its locals
  mainPc, mainOut,   \* main_thread
  ring,              \* the parts of a frame, or a BAR, that rx is to handle
  apLow, apGot, apBar, strayed, \* AP: its oldest frame, the received ones,
                     \* it owes a BAR, it has sent an abnormal number
  agreements, suspends, \* counters for the bounds
  lastOut,           \* history: what was released last from the queue
  hostLast, late, raced, \* history of what the host was given, see LateOnly...
  passed             \* history: a frame behind the window was let through

agreement == <<fgIsValid, refTbl, fgFirstSnToWinStart, agreements, suspends>>
window  == <<u2WinStart, u2WinEnd, fgIsWaitingForPktWithSsn>>
drops   == <<fgNoDrop, u4SNOverlapCount>>
amsdu   == <<u8LastAmsduSubIdx, fgIsAmsduDuplicated>>
bubble  == <<fgHasBubble, u2FirstBubbleSn, bubbleTimer>>
rxVars  == <<rxPc, rxPkt, rxOut, rxMissing, rxBeforeEnd>>
mainVars == <<mainPc, mainOut>>
air     == <<apLow, apGot, apBar, strayed>>
host    == <<hostLast, late, passed>>
vars == <<agreement, window, rReOrderQue, drops, u4SeqNo, amsdu, bubble,
          missTimeout, lock, rxVars, mainVars, ring, air, lastOut, host, raced>>

-----------------------------------------------------------------------------
(* Sequence numbers.                                                       *)

\* (Mutant of Advance: no modulus.)
AdvancePlain(sn, k) == sn + k

Advance(sn, k) == (sn + k) % MaxSeq
WinEnd(start) == Advance(start, WinSize - 1)

\* (Mutant of qmCompareSnIsLessThan: no wrap-around.)
PlainLess(a, b) == a < b

qmCompareSnIsLessThan(a, b) ==
  a + Half > b /\ (b + Half < a \/ a < b)

FallsWithin(sn, s, e) ==
  \/ s <= sn /\ sn <= e
  \/ e < s /\ s <= sn
  \/ sn <= e /\ e < s

FallsAhead(sn, s, e) ==
  \/ s < e /\ e < sn /\ sn < s + Half
  \/ sn < s /\ s < e /\ sn + MaxSeq < s + Half
  \/ e < sn /\ sn < s /\ sn + MaxSeq < s + Half

-----------------------------------------------------------------------------
(* Frames.  A part is the frame's number n and its ucPayloadFormat.        *)

Parts == [n : Nat, fmt : {"MSDU", "FIRST", "LAST"}]
NoPart == [n |-> 0, fmt |-> "NONE"]
SN(p) == p.n % MaxSeq
Pos(p) == 2 * p.n + (IF p.fmt = "LAST" THEN 2 ELSE 1)
EndsFrame(p) == p.fmt \in {"MSDU", "LAST"}

Frame(n) ==
  IF n \in TailLost THEN <<[n |-> n, fmt |-> "FIRST"]>>
  ELSE IF n \in Amsdu THEN <<[n |-> n, fmt |-> "FIRST"], [n |-> n, fmt |-> "LAST"]>>
  ELSE <<[n |-> n, fmt |-> "MSDU"]>>

\* The window is 0xFFFF in the code, and not read before qmAddRxBaEntry sets it.
Init ==
  /\ fgIsValid = FALSE /\ refTbl = FALSE
  /\ u2WinStart = 0 /\ u2WinEnd = WinEnd(0) /\ rReOrderQue = <<>>
  /\ fgIsWaitingForPktWithSsn = FALSE /\ fgFirstSnToWinStart = FALSE
  /\ fgNoDrop = FALSE /\ u4SNOverlapCount = 0
  /\ u4SeqNo = 0 /\ u8LastAmsduSubIdx = "MSDU" /\ fgIsAmsduDuplicated = FALSE
  /\ fgHasBubble = FALSE /\ u2FirstBubbleSn = 0 /\ bubbleTimer = FALSE
  /\ missTimeout = "0" /\ lock = "none"
  /\ rxPc = "idle" /\ rxPkt = NoPart /\ rxOut = <<>>
  /\ rxMissing = FALSE /\ rxBeforeEnd = 0
  /\ mainPc = "idle" /\ mainOut = <<>>
  /\ ring = <<>> /\ apLow = First /\ apGot = {} /\ apBar = FALSE /\ strayed = FALSE
  /\ agreements = 0 /\ suspends = 0
  /\ lastOut = 0 /\ hostLast = 0 /\ late = FALSE /\ passed = FALSE /\ raced = FALSE

-----------------------------------------------------------------------------
(* The AP.                                                                 *)

Send(n) ==
  /\ ring = <<>>
  /\ n < apLow + ApWindow /\ (n \in apGot => n \in Repeats)
  /\ ring' = Frame(n)
  /\ apGot' = apGot \cup {n}
  /\ UNCHANGED <<agreement, window, rReOrderQue, drops, u4SeqNo, amsdu, bubble,
       missTimeout, lock, rxVars, mainVars, apLow, apBar, strayed, lastOut, host, raced>>

ApMovesTo(n) ==
  /\ apLow' = n
  /\ apGot' = {m \in apGot : m >= n}
  /\ UNCHANGED <<agreement, window, rReOrderQue, drops, u4SeqNo, amsdu, bubble,
       missTimeout, lock, rxVars, mainVars, ring, strayed, lastOut, host, raced>>

\* The oldest frame has been acknowledged.
Acked == apLow \in apGot /\ ApMovesTo(apLow + 1) /\ UNCHANGED apBar

GiveUp ==
  \E j \in Jumps :
    apLow + j <= Last + 1 /\ apLow \notin apGot /\ ApMovesTo(apLow + j) /\ apBar' = TRUE

SendBar ==
  /\ ring = <<>> /\ apBar
  /\ ring' = <<[n |-> apLow, fmt |-> "BAR"]>>
  /\ apBar' = FALSE
  /\ UNCHANGED <<agreement, window, rReOrderQue, drops, u4SeqNo, amsdu, bubble,
       missTimeout, lock, rxVars, mainVars, apLow, apGot, strayed, lastOut, host,
       raced>>

\* A frame with a number from far ahead.
SendStray ==
  /\ ring = <<>> /\ StrayBy > 0 /\ ~strayed
  /\ ring' = <<[n |-> apLow + StrayBy, fmt |-> "MSDU"]>>
  /\ strayed' = TRUE
  /\ UNCHANGED <<agreement, window, rReOrderQue, drops, u4SeqNo, amsdu, bubble,
       missTimeout, lock, rxVars, mainVars, apLow, apGot, apBar, lastOut, host,
       raced>>

Air == (\E n \in apLow .. Last : Send(n)) \/ Acked \/ GiveUp \/ SendBar \/ SendStray

-----------------------------------------------------------------------------
(* Steps of both threads.  Out(a) is what thread a has released and not    *)
(* yet handed to the host.                                                 *)

\* qmPopOutReorderPkt of the head of the queue, by thread a.
Release(a) ==
  LET h == Head(rReOrderQue) IN
  /\ rReOrderQue' = Tail(rReOrderQue)
  /\ IF a = "rx" THEN rxOut' = Append(rxOut, h) /\ UNCHANGED mainOut
                 ELSE mainOut' = Append(mainOut, h) /\ UNCHANGED rxOut
  /\ lastOut' = Pos(h)
  /\ raced' = (raced \/ (IF a = "rx" THEN mainOut ELSE rxOut) # <<>>)

NothingReleased == UNCHANGED <<rReOrderQue, rxOut, mainOut, lastOut, raced>>

\* (Mutant of StartBubbleTimer: the flag alone.)
MarksBubbleOnly(start) ==
  IF fgHasBubble THEN UNCHANGED bubble
  ELSE /\ fgHasBubble' = TRUE /\ u2FirstBubbleSn' = start
       /\ UNCHANGED bubbleTimer

StartBubbleTimer(start) ==
  IF fgHasBubble THEN UNCHANGED bubble
  ELSE fgHasBubble' = TRUE /\ u2FirstBubbleSn' = start /\ bubbleTimer' = TRUE

\* The window as the loops see it once an A-MSDU that has lost its tail is
\* given up because a later frame has come.
TailGivenUp ==
  /\ qmCompareSnIsLessThan(u2WinStart, SN(Head(rReOrderQue)))
  /\ u4SeqNo # u2WinStart
  /\ u8LastAmsduSubIdx = "FIRST"
Start0 == IF TailGivenUp THEN Advance(u2WinStart, 1) ELSE u2WinStart

\* The head is the next frame: it leaves, and the window moves past it.
TakeNext(a) ==
  LET h == Head(rReOrderQue) IN
  /\ rReOrderQue # <<>> /\ SN(h) = Start0
  /\ Release(a)
  /\ u2WinStart' = IF EndsFrame(h) THEN Advance(SN(h), 1) ELSE Start0
  /\ u8LastAmsduSubIdx' = h.fmt
  /\ UNCHANGED <<bubble, rxMissing>>

\* qmPopOutDueToFallAhead: one iteration that goes on...
PopAhead(a) ==
  \/ TakeNext(a)
  \/ /\ rReOrderQue # <<>> /\ SN(Head(rReOrderQue)) # Start0
     /\ qmCompareSnIsLessThan(SN(Head(rReOrderQue)), Start0)
     /\ Release(a)
     /\ u2WinStart' = Start0
     /\ u8LastAmsduSubIdx' = IF TailGivenUp THEN "MSDU" ELSE u8LastAmsduSubIdx
     /\ UNCHANGED <<bubble, rxMissing>>

\* A loop ends: the queue is empty, or its head is not to leave (stays).  The
\* bubble timer is started in the latter case.
LoopEnds(stays) ==
  /\ NothingReleased
  /\ IF rReOrderQue = <<>>
     THEN UNCHANGED <<u2WinStart, u8LastAmsduSubIdx>>
     ELSE /\ SN(Head(rReOrderQue)) # Start0 /\ stays
          /\ u2WinStart' = Start0
          /\ u8LastAmsduSubIdx' = IF TailGivenUp THEN "MSDU" ELSE u8LastAmsduSubIdx
  /\ u2WinEnd' = WinEnd(u2WinStart')

HeadIsAhead == ~qmCompareSnIsLessThan(SN(Head(rReOrderQue)), Start0)

-----------------------------------------------------------------------------
(* The receive tasklet.                                                    *)

\* qmProcessPktWithReordering and qmProcessBarFrame, before the lock.
RxReceive ==
  /\ rxPc = "idle" /\ ring # <<>>
  /\ DelRaces \/ mainPc \notin {"stop", "forget"}
  /\ LET p == Head(ring) IN
     /\ ring' = Tail(ring)
     /\ IF p.fmt = "BAR"
        THEN /\ rxPc' = IF refTbl THEN "bar" ELSE "idle"
             /\ UNCHANGED u4SeqNo
        ELSE /\ rxPc' = IF refTbl /\ fgIsValid THEN "insert" ELSE "idle"
             /\ u4SeqNo' = IF refTbl /\ fgIsValid THEN SN(p) ELSE u4SeqNo
     /\ rxPkt' = IF rxPc' = "idle" THEN NoPart ELSE p
  /\ UNCHANGED <<agreement, window, rReOrderQue, drops, amsdu, bubble,
       missTimeout, lock, rxOut, rxMissing, rxBeforeEnd, mainVars, air, lastOut,
       host, raced>>

\* The window that qmInsertReorderPkt finds: after a suspend it starts anew.
SeenStart == IF fgFirstSnToWinStart THEN SN(rxPkt) ELSE u2WinStart
SeenEnd == IF fgFirstSnToWinStart THEN WinEnd(SN(rxPkt)) ELSE u2WinEnd

\* (Mutant of CountOverlap: frames behind the window count as well.)
CountsAll(sn) ==
  IF ~fgNoDrop THEN UNCHANGED drops
  ELSE IF u4SNOverlapCount < OverlapMax
  THEN u4SNOverlapCount' = u4SNOverlapCount + 1 /\ UNCHANGED fgNoDrop
  ELSE u4SNOverlapCount' = 0 /\ fgNoDrop' = FALSE

CountOverlap(sn) ==
  IF ~fgNoDrop \/ qmCompareSnIsLessThan(sn, SeenStart) THEN UNCHANGED drops
  ELSE IF u4SNOverlapCount < OverlapMax
  THEN u4SNOverlapCount' = u4SNOverlapCount + 1 /\ UNCHANGED fgNoDrop
  ELSE u4SNOverlapCount' = 0 /\ fgNoDrop' = FALSE

\* rx holds rxPkt of an agreement, and gets the lock.
RxLocks ==
  /\ rxPc = "insert" /\ lock = "none"
  /\ CountOverlap(SN(rxPkt))
  /\ fgFirstSnToWinStart' = FALSE
  /\ lastOut' = IF fgFirstSnToWinStart THEN 0 ELSE lastOut
  /\ hostLast' = IF fgFirstSnToWinStart THEN 0 ELSE hostLast
  /\ raced' = (raced \/ (fgFirstSnToWinStart /\ mainOut # <<>>))
  /\ UNCHANGED <<fgIsValid, refTbl, agreements, suspends, u4SeqNo, bubble,
       missTimeout, mainVars, ring, air, late>>

\* The queued frame at which the search for the place of rxPkt stops.
StopAt ==
  LET sn == SN(rxPkt)
      stops == {i \in 1 .. Len(rReOrderQue) :
                  \/ SN(rReOrderQue[i]) = sn
                  \/ qmCompareSnIsLessThan(sn, SN(rReOrderQue[i]))}
  IN  Min(stops \cup {Len(rReOrderQue) + 1})

FindsSame == StopAt <= Len(rReOrderQue) /\ SN(rReOrderQue[StopAt]) = SN(rxPkt)

Duplicate == FindsSame /\ ~(~fgIsAmsduDuplicated /\ rxPkt.fmt = "LAST")

\* The last part of an A-MSDU goes behind its first.
Place ==
  IF FindsSame
  THEN Min({i \in StopAt .. Len(rReOrderQue) :
              SN(rReOrderQue[i]) # SN(rxPkt)} \cup {Len(rReOrderQue) + 1})
  ELSE StopAt

InsertAt(q, i, p) == SubSeq(q, 1, i - 1) \o <<p>> \o SubSeq(q, i, Len(q))

\* (Mutant of qmInsertFallWithinReorderPkt: always at the tail.)
InsertsAtTail ==
  /\ rReOrderQue' = IF Duplicate THEN rReOrderQue ELSE Append(rReOrderQue, rxPkt)
  /\ fgIsAmsduDuplicated' = FALSE

qmInsertFallWithinReorderPkt ==
  IF Duplicate
  THEN /\ UNCHANGED rReOrderQue
       /\ fgIsAmsduDuplicated' = (fgIsAmsduDuplicated \/ rxPkt.fmt = "FIRST")
  ELSE /\ rReOrderQue' = InsertAt(rReOrderQue, Place, rxPkt)
       /\ fgIsAmsduDuplicated' = (fgIsAmsduDuplicated /\ rReOrderQue = <<>>)

\* qmInsertReorderPkt, case 1.
RxFallsWithin ==
  /\ RxLocks
  /\ FallsWithin(SN(rxPkt), SeenStart, SeenEnd)
  /\ qmInsertFallWithinReorderPkt
  /\ LET start == IF fgIsWaitingForPktWithSsn THEN SN(rxPkt) ELSE SeenStart IN
     /\ u2WinStart' = start
     /\ u2WinEnd' = IF fgIsWaitingForPktWithSsn THEN WinEnd(start) ELSE SeenEnd
  /\ u8LastAmsduSubIdx' =
       IF fgIsWaitingForPktWithSsn THEN "MSDU" ELSE u8LastAmsduSubIdx
  /\ fgIsWaitingForPktWithSsn' = FALSE
  /\ rxMissing' = (missTimeout # "0")
  /\ rxPc' = "within" /\ lock' = "rx"
  /\ UNCHANGED <<rxPkt, rxOut, rxBeforeEnd, passed>>

\* Case 2: the window follows the frame.
RxFallsAhead ==
  /\ RxLocks
  /\ ~FallsWithin(SN(rxPkt), SeenStart, SeenEnd)
  /\ FallsAhead(SN(rxPkt), SeenStart, SeenEnd)
  /\ rReOrderQue' = Append(rReOrderQue, rxPkt)
  /\ u2WinEnd' = SN(rxPkt)
  /\ u2WinStart' = Advance(SN(rxPkt), MaxSeq - WinSize + 1)
  /\ fgIsWaitingForPktWithSsn' = FALSE
  /\ fgIsAmsduDuplicated' = FALSE /\ u8LastAmsduSubIdx' = "MSDU"
  /\ rxBeforeEnd' = SeenEnd
  /\ rxPc' = "ahead" /\ lock' = "rx"
  /\ UNCHANGED <<rxPkt, rxOut, rxMissing, passed>>

\* Case 3: the window stays where it is...
RxFallsBehind ==
  /\ RxLocks
  /\ ~FallsWithin(SN(rxPkt), SeenStart, SeenEnd)
  /\ ~FallsAhead(SN(rxPkt), SeenStart, SeenEnd)
  /\ u2WinStart' = SeenStart /\ u2WinEnd' = SeenEnd
  /\ rxPkt' = NoPart
  /\ UNCHANGED <<rReOrderQue, fgIsWaitingForPktWithSsn, amsdu, lock, rxMissing,
       rxBeforeEnd>>

\* ... and the frame goes to the host out of turn, past the queue...
RxPassesBehind ==
  /\ RxFallsBehind
  /\ fgNoDrop' \/ fgIsWaitingForPktWithSsn
  /\ rxOut' = <<rxPkt>> /\ passed' = TRUE
  /\ rxPc' = "deliver"

\* ... or is dropped.
RxDropsBehind ==
  /\ RxFallsBehind
  /\ ~fgNoDrop' /\ ~fgIsWaitingForPktWithSsn
  /\ rxPc' = "idle"
  /\ UNCHANGED <<rxOut, passed>>

\* A BAR moves the window forward, and never back.
RxBar ==
  /\ rxPc = "bar" /\ lock = "none"
  /\ IF qmCompareSnIsLessThan(u2WinStart, SN(rxPkt))
     THEN /\ u2WinStart' = SN(rxPkt) /\ u2WinEnd' = WinEnd(SN(rxPkt))
          /\ u8LastAmsduSubIdx' = "MSDU"
          /\ rxPc' = "barAhead" /\ lock' = "rx"
          /\ UNCHANGED rxPkt
     ELSE /\ rxPc' = "idle" /\ rxPkt' = NoPart
          /\ UNCHANGED <<u2WinStart, u2WinEnd, u8LastAmsduSubIdx, lock>>
  /\ UNCHANGED <<agreement, rReOrderQue, fgIsWaitingForPktWithSsn, drops,
       u4SeqNo, fgIsAmsduDuplicated, bubble, missTimeout, rxOut, rxMissing,
       rxBeforeEnd, mainVars, ring, air, lastOut, host, raced>>

\* What the loops of either thread leave alone.
LoopFrame ==
  UNCHANGED <<agreement, fgIsWaitingForPktWithSsn, u4SeqNo, fgIsAmsduDuplicated,
              ring, air, host>>

\* The gap has been there for too long: it is skipped.  Outside of the lock
\* main_thread may have cleared g_arMissTimeout, which then looks old.
MissOver == rxMissing /\ missTimeout # "set"

\* qmPopOutDueToFallWithin: an iteration that goes on...
RxPopWithin ==
  /\ rxPc = "within"
  /\ \/ TakeNext("rx")
     \/ /\ rReOrderQue # <<>> /\ SN(Head(rReOrderQue)) # Start0
        /\ MissOver
        /\ Release("rx")
        /\ u2WinStart' = Advance(SN(Head(rReOrderQue)), 1)
        /\ u8LastAmsduSubIdx' = "MSDU"
        /\ StartBubbleTimer(Start0)
        /\ rxMissing' = FALSE
  /\ LoopFrame
  /\ UNCHANGED <<u2WinEnd, drops, missTimeout, lock, rxPc, rxPkt, rxBeforeEnd, mainPc>>

\* ... and the one that ends it.
RxWithinEnds ==
  /\ rxPc = "within"
  /\ LoopEnds(~MissOver)
  /\ IF rReOrderQue = <<>>
     THEN missTimeout' = "0" /\ UNCHANGED bubble
     ELSE /\ missTimeout' = IF rxMissing THEN missTimeout ELSE "set"
          /\ StartBubbleTimer(Start0)
  /\ rxPc' = "deliver" /\ lock' = "none"
  /\ rxPkt' = NoPart /\ rxMissing' = FALSE
  /\ LoopFrame
  /\ UNCHANGED <<drops, rxBeforeEnd, mainPc>>

RxPopAhead ==
  /\ rxPc \in {"ahead", "barAhead"}
  /\ PopAhead("rx")
  /\ LoopFrame
  /\ UNCHANGED <<u2WinEnd, drops, missTimeout, lock, rxPc, rxPkt, rxBeforeEnd, mainPc>>

\* (Mutant of RxAheadEnds: no timer for what waits behind the jump.)
RxAheadEndsUntimed ==
  /\ rxPc \in {"ahead", "barAhead"}
  /\ LoopEnds(HeadIsAhead)
  /\ UNCHANGED bubble
  /\ LET delta == (u2WinEnd' - rxBeforeEnd + MaxSeq) % MaxSeq IN
     IF rxPc = "ahead" /\ delta > Quarter
     THEN fgNoDrop' = TRUE /\ u4SNOverlapCount' = 0
     ELSE UNCHANGED drops
  /\ rxPc' = "deliver" /\ lock' = "none"
  /\ rxPkt' = NoPart /\ rxBeforeEnd' = 0
  /\ LoopFrame
  /\ UNCHANGED <<missTimeout, rxMissing, mainPc>>

\* After a jump of more than Quarter, frames behind the window are kept.
RxAheadEnds ==
  /\ rxPc \in {"ahead", "barAhead"}
  /\ LoopEnds(HeadIsAhead)
  /\ IF rReOrderQue = <<>> THEN UNCHANGED bubble ELSE StartBubbleTimer(Start0)
  /\ LET delta == (u2WinEnd' - rxBeforeEnd + MaxSeq) % MaxSeq IN
     IF rxPc = "ahead" /\ delta > Quarter
     THEN fgNoDrop' = TRUE /\ u4SNOverlapCount' = 0
     ELSE UNCHANGED drops
  /\ rxPc' = "deliver" /\ lock' = "none"
  /\ rxPkt' = NoPart /\ rxBeforeEnd' = 0
  /\ LoopFrame
  /\ UNCHANGED <<missTimeout, rxMissing, mainPc>>

\* Thread a hands what it has released to the host, in order or late.
HandToHost(out) ==
  /\ late' = (late \/ \E i \in 1 .. Len(out) :
                       Pos(out[i]) <= IF i = 1 THEN hostLast ELSE Pos(out[i - 1]))
  /\ hostLast' = IF out = <<>> THEN hostLast ELSE Pos(out[Len(out)])
  /\ UNCHANGED passed

RxDeliver ==
  /\ rxPc = "deliver"
  /\ HandToHost(rxOut)
  /\ rxOut' = <<>> /\ rxPc' = "idle"
  /\ UNCHANGED <<agreement, window, rReOrderQue, drops, u4SeqNo, amsdu, bubble,
       missTimeout, lock, rxPkt, rxMissing, rxBeforeEnd, mainVars, ring, air,
       lastOut, raced>>

Rx == \/ RxReceive \/ RxFallsWithin \/ RxFallsAhead
      \/ RxPassesBehind \/ RxDropsBehind \/ RxBar
      \/ RxPopWithin \/ RxWithinEnds \/ RxPopAhead \/ RxAheadEnds \/ RxDeliver

-----------------------------------------------------------------------------
(* main_thread: the bubble timer.                                          *)

\* qmHandleReorderBubbleTimeout, and the checks before the lock.
BubbleTimeout ==
  /\ mainPc = "idle" /\ bubbleTimer
  /\ bubbleTimer' = FALSE
  /\ mainPc' = IF fgIsValid /\ fgHasBubble THEN "check" ELSE "idle"
  /\ UNCHANGED <<agreement, window, rReOrderQue, drops, u4SeqNo, amsdu,
       fgHasBubble, u2FirstBubbleSn, missTimeout, lock, rxVars, mainOut, ring,
       air, lastOut, host, raced>>

\* Under the lock: there is no bubble any more, ...
BubbleFilled ==
  /\ mainPc = "check" /\ lock = "none" /\ rReOrderQue = <<>>
  /\ fgHasBubble' = FALSE
  /\ mainPc' = "idle"
  /\ UNCHANGED <<agreement, window, rReOrderQue, drops, u4SeqNo, amsdu,
       u2FirstBubbleSn, bubbleTimer, missTimeout, lock, rxVars, mainOut, ring,
       air, lastOut, host, raced>>

\* ... another one, and the timer is started again after the lock, ...
BubbleMoved ==
  /\ mainPc = "check" /\ lock = "none" /\ rReOrderQue # <<>>
  /\ u2FirstBubbleSn # u2WinStart
  /\ u2FirstBubbleSn' = u2WinStart
  /\ mainPc' = "restart"
  /\ UNCHANGED <<agreement, window, rReOrderQue, drops, u4SeqNo, amsdu,
       fgHasBubble, bubbleTimer, missTimeout, lock, rxVars, mainOut, ring,
       air, lastOut, host, raced>>

RestartTimer ==
  /\ mainPc = "restart"
  /\ bubbleTimer' = TRUE
  /\ mainPc' = "miss"
  /\ UNCHANGED <<agreement, window, rReOrderQue, drops, u4SeqNo, amsdu,
       fgHasBubble, u2FirstBubbleSn, missTimeout, lock, rxVars, mainOut, ring,
       air, lastOut, host, raced>>

\* ... or the one that was waited for: the window moves past the whole queue.
BubbleExpired ==
  /\ mainPc = "check" /\ lock = "none" /\ rReOrderQue # <<>>
  /\ u2FirstBubbleSn = u2WinStart
  /\ u2WinStart' = Advance(SN(rReOrderQue[Len(rReOrderQue)]), 1)
  /\ u2WinEnd' = WinEnd(u2WinStart')
  /\ u8LastAmsduSubIdx' = "MSDU"
  /\ mainPc' = "flush" /\ lock' = "main"
  /\ UNCHANGED <<agreement, rReOrderQue, fgIsWaitingForPktWithSsn, drops, u4SeqNo,
       fgIsAmsduDuplicated, bubble, missTimeout, rxVars, mainOut, ring, air,
       lastOut, host, raced>>

FlushPop ==
  /\ mainPc = "flush"
  /\ PopAhead("main")
  /\ LoopFrame
  /\ UNCHANGED <<u2WinEnd, drops, missTimeout, lock, rxPc, rxPkt, rxMissing,
       rxBeforeEnd, mainPc>>

\* (Mutant of FlushEnds: the bubble stays marked.)
FlushEndsMarked ==
  /\ mainPc = "flush"
  /\ LoopEnds(HeadIsAhead)
  /\ mainPc' = "deliver" /\ lock' = "none"
  /\ LoopFrame
  /\ UNCHANGED <<bubble, drops, missTimeout, rxPc, rxPkt, rxMissing, rxBeforeEnd>>

\* fgHasBubble is set throughout the flush: its loop starts no timer.
FlushEnds ==
  /\ mainPc = "flush"
  /\ LoopEnds(HeadIsAhead)
  /\ fgHasBubble' = FALSE
  /\ mainPc' = "deliver" /\ lock' = "none"
  /\ LoopFrame
  /\ UNCHANGED <<u2FirstBubbleSn, bubbleTimer, drops, missTimeout, rxPc, rxPkt,
       rxMissing, rxBeforeEnd>>

\* Delivered without the lock.
FlushDeliver ==
  /\ mainPc = "deliver"
  /\ HandToHost(mainOut)
  /\ mainOut' = <<>> /\ mainPc' = "miss"
  /\ UNCHANGED <<agreement, window, rReOrderQue, drops, u4SeqNo, amsdu, bubble,
       missTimeout, lock, rxVars, ring, air, lastOut, raced>>

\* Read and written without the lock.
ResetMissTimeout ==
  /\ mainPc = "miss"
  /\ missTimeout' = IF rReOrderQue = <<>> THEN "0" ELSE "set"
  /\ mainPc' = "idle"
  /\ UNCHANGED <<agreement, window, rReOrderQue, drops, u4SeqNo, amsdu, bubble,
       lock, rxVars, mainOut, ring, air, lastOut, host, raced>>

MissGetsOld ==
  /\ missTimeout = "set" /\ missTimeout' = "old"
  /\ UNCHANGED <<agreement, window, rReOrderQue, drops, u4SeqNo, amsdu, bubble,
       lock, rxVars, mainVars, ring, air, lastOut, host, raced>>

-----------------------------------------------------------------------------
(* main_thread: agreements.                                                *)

\* qmDelRxBaEntry: the queue is emptied under the lock...
qmDelRxBaEntry ==
  \E fgFlushToHost \in BOOLEAN :
    /\ mainPc = "idle" /\ refTbl /\ lock = "none"
    /\ DelRaces \/ rxPc = "idle"
    /\ mainOut' = IF fgFlushToHost THEN rReOrderQue ELSE <<>>
    /\ raced' = (raced \/ (mainOut' # <<>> /\ rxOut # <<>>))
    /\ rReOrderQue' = <<>> /\ lastOut' = 0
    /\ mainPc' = "stop"
    /\ UNCHANGED <<agreement, window, drops, u4SeqNo, amsdu, bubble, missTimeout,
         lock, rxVars, ring, air, host>>

\* ... what was in it is handed on or freed, the timer stopped...
DelStopsTimer ==
  /\ mainPc = "stop"
  /\ HandToHost(mainOut) /\ mainOut' = <<>>
  /\ fgHasBubble' = FALSE
  /\ bubbleTimer' = (bubbleTimer /\ ~fgHasBubble)
  /\ mainPc' = "forget"
  /\ UNCHANGED <<agreement, window, rReOrderQue, drops, u4SeqNo, amsdu,
       u2FirstBubbleSn, missTimeout, lock, rxVars, ring, air, lastOut, raced>>

\* ... and the agreement forgotten.
DelForgets ==
  /\ mainPc = "forget"
  /\ fgIsValid' = FALSE /\ refTbl' = FALSE
  /\ mainPc' = "idle"
  /\ hostLast' = 0
  /\ UNCHANGED <<fgFirstSnToWinStart, agreements, suspends, window, rReOrderQue,
       drops, u4SeqNo, amsdu, bubble, missTimeout, lock, rxVars, mainOut, ring,
       air, lastOut, late, passed, raced>>

\* qmAddRxBaEntry, once an older agreement is deleted.  The queue, fgNoDrop and
\* fgFirstSnToWinStart are not touched.
qmAddRxBaEntry ==
  /\ mainPc = "idle" /\ ~fgIsValid /\ agreements < MaxAgreements
  /\ agreements' = agreements + 1
  /\ fgIsValid' = TRUE /\ refTbl' = TRUE
  /\ u2WinStart' = apLow % MaxSeq /\ u2WinEnd' = WinEnd(apLow % MaxSeq)
  /\ fgIsWaitingForPktWithSsn' = TRUE
  /\ u8LastAmsduSubIdx' = "MSDU" /\ fgIsAmsduDuplicated' = FALSE
  /\ fgHasBubble' = FALSE /\ missTimeout' = "0"
  /\ UNCHANGED <<fgFirstSnToWinStart, suspends, rReOrderQue, drops, u4SeqNo,
       u2FirstBubbleSn, bubbleTimer, lock, rxVars, mainVars, ring, air, lastOut,
       host, raced>>

Main == \/ BubbleTimeout \/ BubbleFilled \/ BubbleMoved \/ RestartTimer
        \/ BubbleExpired \/ FlushPop \/ FlushEnds \/ FlushDeliver
        \/ ResetMissTimeout \/ DelStopsTimer \/ DelForgets

\* wlanSuspendPmHandle: the window is stale after the resume.
Suspend ==
  /\ fgIsValid /\ suspends < MaxSuspends
  /\ suspends' = suspends + 1
  /\ fgFirstSnToWinStart' = TRUE
  /\ UNCHANGED <<fgIsValid, refTbl, agreements, window, rReOrderQue, drops,
       u4SeqNo, amsdu, bubble, missTimeout, lock, rxVars, mainVars, ring, air,
       lastOut, host, raced>>

Next == Air \/ Rx \/ Main \/ MissGetsOld \/ qmDelRxBaEntry \/ qmAddRxBaEntry \/ Suspend

Spec == Init /\ [][Next]_vars

\* The tasklet runs, and so does main_thread, which serves due timers; the
\* spin lock is handed out in turn, so that main_thread gets it (SF).
FairSpec == Spec /\ WF_vars(Rx) /\ SF_vars(Main)

-----------------------------------------------------------------------------
(* Properties.                                                             *)

\* The state keeps its types, its numbers their 12 bits (here, below MaxSeq).
TypeOK ==
  /\ fgIsValid \in BOOLEAN /\ refTbl \in BOOLEAN
  /\ u2WinStart \in 0 .. MaxSeq - 1 /\ u2WinEnd \in 0 .. MaxSeq - 1
  /\ rReOrderQue \in Seq(Parts)
  /\ fgIsWaitingForPktWithSsn \in BOOLEAN /\ fgFirstSnToWinStart \in BOOLEAN
  /\ fgNoDrop \in BOOLEAN /\ u4SNOverlapCount \in 0 .. OverlapMax
  /\ u4SeqNo \in 0 .. MaxSeq - 1
  /\ u8LastAmsduSubIdx \in {"MSDU", "FIRST", "LAST"}
  /\ fgIsAmsduDuplicated \in BOOLEAN
  /\ fgHasBubble \in BOOLEAN /\ u2FirstBubbleSn \in 0 .. MaxSeq - 1
  /\ bubbleTimer \in BOOLEAN /\ missTimeout \in {"0", "set", "old"}
  /\ lock \in {"none", "rx", "main"}
  /\ rxPc \in {"idle", "insert", "bar", "within", "ahead", "barAhead", "deliver"}
  /\ rxPkt \in Parts \cup [n : Nat, fmt : {"BAR", "NONE"}]
  /\ rxOut \in Seq(Parts)
  /\ rxMissing \in BOOLEAN /\ rxBeforeEnd \in 0 .. MaxSeq - 1
  /\ mainPc \in {"idle", "check", "restart", "flush", "deliver", "miss", "stop", "forget"}
  /\ mainOut \in Seq(Parts)
  /\ ring \in Seq(Parts \cup [n : Nat, fmt : {"BAR"}])
  /\ apLow \in Nat /\ apGot \subseteq Nat /\ apBar \in BOOLEAN /\ strayed \in BOOLEAN
  /\ agreements \in 0 .. MaxAgreements /\ suspends \in 0 .. MaxSuspends
  /\ lastOut \in Nat /\ hostLast \in Nat
  /\ late \in BOOLEAN /\ passed \in BOOLEAN /\ raced \in BOOLEAN

\* A frame that waits in the queue is never forgotten: between critical
\* sections the bubble in front of it is marked (fgHasBubble), whatever the
\* tasklet, the timeout, a BAR or a new agreement did...
WaitingIsMarked == lock = "none" /\ rReOrderQue # <<>> => fgHasBubble

\* ... and a bubble that is marked is timed: its timer is pending, or
\* main_thread is serving it or deletes the agreement.  A mark without a timer
\* would keep StartBubbleTimer from ever starting it again.
BubbleIsTimed ==
  fgHasBubble => bubbleTimer \/ mainPc \in {"check", "restart", "flush", "stop"}

\* The distance from a number to a later one, and the only frame that may be
\* left before the window: the tail of an A-MSDU whose head was let through by
\* the timeout of qmPopOutDueToFallWithin.
Dist(a, b) == (b - a + MaxSeq) % MaxSeq
TailLeft ==
  rReOrderQue[1].fmt = "LAST" /\ Advance(SN(rReOrderQue[1]), 1) = u2WinStart

\* Between critical sections the window is as wide as agreed and the queue is
\* sorted, without duplicates, inside of the window and behind its first
\* number, across the wrap of the 12-bit numbers (after a suspend the window
\* may be anywhere); such a tail excepted.
QueueInWindow ==
  lock = "none" /\ suspends = 0 =>
    /\ u2WinEnd = WinEnd(u2WinStart)
    /\ \A i \in 1 .. Len(rReOrderQue) :
         \/ Dist(u2WinStart, SN(rReOrderQue[i])) \in 1 .. WinSize - 1
         \/ TailLeft /\ (i = 1 \/ SN(rReOrderQue[i]) = u2WinStart)
    /\ \A i, j \in 1 .. Len(rReOrderQue) :
         i < j => Pos(rReOrderQue[i]) < Pos(rReOrderQue[j])

Reorder == INSTANCE ReorderBuffer WITH
  buffer <- {Pos(rReOrderQue[i]) : i \in 1 .. Len(rReOrderQue)},
  last <- lastOut

\* What leaves the queue leaves it in the order of the unwrapped numbers, one
\* run after another, whatever the 12-bit comparisons make of them.
ImplementsReorderBuffer == Reorder!Spec

\* The host gets frames out of order only when the tasklet and the flush of
\* main_thread, which delivers after it has released the lock, overlapped, or
\* when a frame behind the window was let through, before the first frame of an
\* agreement or after an abnormal jump.
LateOnlyIfRaced == late => raced \/ passed

\* A frame is dropped as too old only when the AP has finished with it or has
\* sent a later one before it, when a timeout has let the first part of its
\* A-MSDU through, or when it waits in the queue already: timeouts
\* and BARs never outrun frames that still come, and an abnormal number does not
\* make the frames that it skips look old (fgNoDrop).  A window that starts anew
\* after a suspend does.
NoEarlyLoss ==
  [][RxDropsBehind /\ suspends = 0 /\ rxPkt.n <= Last =>
       \/ rxPkt.n < apLow \/ \E m \in apGot : m > rxPkt.n
       \/ rxPkt.fmt = "LAST" /\ lastOut = Pos([rxPkt EXCEPT !.fmt = "FIRST"])
       \/ \E i \in 1 .. Len(rReOrderQue) : rReOrderQue[i].n = rxPkt.n]_vars

\* Every frame leaves the queue in the end, however the numbers go on.
NobodyStuck ==
  \A n \in First .. Last :
    (\E i \in 1 .. Len(rReOrderQue) : rReOrderQue[i].n = n)
      ~> (\A i \in 1 .. Len(rReOrderQue) : rReOrderQue[i].n # n)

\* qmDeactivateStaRec says that it flushes receive queues and deletes
\* agreements: once it is deleted and both threads have finished, an agreement
\* holds no frame, which nobody would ever release.
DeletedIsFlushed ==
  ~fgIsValid /\ rxPc = "idle" /\ mainPc = "idle" => rReOrderQue = <<>>
=============================================================================
