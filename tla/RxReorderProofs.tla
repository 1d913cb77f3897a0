--------------------------- MODULE RxReorderProofs ---------------------------
(***************************************************************************)
(* Theorems about RxReorder: how the comparisons of sequence numbers       *)
(* divide the circle of numbers, and what the two threads keep, for every  *)
(* width of the numbers, every window and any traffic.                     *)
(***************************************************************************)
EXTENDS RxReorder, SequenceTheorems, WellFoundedInduction, TLAPS

-----------------------------------------------------------------------------
(* Arithmetic modulo MaxSeq.                                               *)

Numbers == 0 .. MaxSeq - 1

LEMMA Sizes ==
  /\ MaxSeq \in Nat /\ Half \in Nat /\ Quarter \in Nat
  /\ MaxSeq = 2 * Half /\ Half >= 2
  /\ WinSize \in Nat /\ WinSize >= 2 /\ WinSize <= Half
<1>1. MaxSeq \in Nat /\ MaxSeq % 4 = 0 /\ WinSize \in 2 .. (MaxSeq \div 2)
  BY ConstantsAssumption
<1>2. MaxSeq \div 2 \in Nat /\ MaxSeq \div 4 \in Nat
  BY <1>1
<1>3. MaxSeq = 2 * (MaxSeq \div 2)
  BY <1>1
<1> QED
  BY <1>1, <1>2, <1>3 DEF Half, Quarter

\* A number below twice the modulus is reduced by one subtraction.
LEMMA ModOnce ==
  ASSUME NEW x \in Nat, x < 2 * MaxSeq
  PROVE  x % MaxSeq = IF x < MaxSeq THEN x ELSE x - MaxSeq
<1>1. MaxSeq \in Nat /\ MaxSeq > 0
  BY Sizes
<1>2. CASE x < MaxSeq
  BY <1>1, <1>2
<1>3. CASE x >= MaxSeq
  <2> DEFINE y == x - MaxSeq
  <2>1. y \in 0 .. MaxSeq - 1 /\ x = MaxSeq * 1 + y
    BY <1>1, <1>3
  <2> QED
    BY <1>1, <1>3, <2>1
<1> QED
  BY <1>1, <1>2, <1>3

LEMMA ModInNumbers ==
  ASSUME NEW x \in Nat
  PROVE  x % MaxSeq \in Numbers
BY Sizes DEF Numbers

LEMMA DistIs ==
  ASSUME NEW a \in Numbers, NEW b \in Numbers
  PROVE  Dist(a, b) = IF a <= b THEN b - a ELSE b - a + MaxSeq
<1>1. /\ MaxSeq \in Nat /\ a \in Nat /\ b \in Nat
      /\ b - a + MaxSeq \in Nat /\ b - a + MaxSeq < 2 * MaxSeq
  BY Sizes DEF Numbers
<1> QED
  BY <1>1, ModOnce DEF Dist

LEMMA AdvanceIs ==
  ASSUME NEW a \in Numbers, NEW k \in 0 .. MaxSeq
  PROVE  /\ Advance(a, k) = IF a + k < MaxSeq THEN a + k ELSE a + k - MaxSeq
         /\ Advance(a, k) \in Numbers
<1> DEFINE x == a + k
<1>1. x \in Nat /\ x < 2 * MaxSeq
  BY Sizes DEF Numbers
<1> HIDE DEF x
<1>2. x % MaxSeq = IF x < MaxSeq THEN x ELSE x - MaxSeq
  BY <1>1, ModOnce
<1>3. x % MaxSeq \in Numbers
  BY <1>1, ModInNumbers
<1>4. Advance(a, k) = x % MaxSeq
  BY DEF Advance, x
<1>5. a \in Int /\ k \in Int /\ MaxSeq \in Int /\ a + k = x
  BY Sizes DEF Numbers, x
<1> QED
  BY <1>2, <1>3, <1>4, <1>5

-----------------------------------------------------------------------------
(* The three cases of qmInsertReorderPkt.                                  *)

\* One number is less than another when it is reached from it by going back
\* less than half of the circle (qmCompareSnIsLessThan): the comparison is
\* right wherever the numbers wrap.
THEOREM LessIsBehind ==
  ASSUME NEW a \in Numbers, NEW b \in Numbers
  PROVE  qmCompareSnIsLessThan(a, b) <=> Dist(a, b) \in 1 .. Half - 1
<1>1. /\ a \in 0 .. MaxSeq - 1 /\ b \in 0 .. MaxSeq - 1
      /\ MaxSeq \in Nat /\ Half \in Nat /\ MaxSeq = 2 * Half
  BY Sizes DEF Numbers
<1>2. Dist(a, b) = IF a <= b THEN b - a ELSE b - a + MaxSeq
  BY DistIs
<1>3. CASE a <= b
  BY <1>1, <1>2, <1>3 DEF qmCompareSnIsLessThan
<1>4. CASE a > b
  BY <1>1, <1>2, <1>4 DEF qmCompareSnIsLessThan
<1> QED
  BY <1>1, <1>3, <1>4

\* The first case is taken for exactly the numbers of the window, ...
THEOREM WithinIsWindow ==
  ASSUME NEW s \in Numbers, NEW sn \in Numbers
  PROVE  FallsWithin(sn, s, WinEnd(s)) <=> Dist(s, sn) < WinSize
<1> DEFINE e == WinEnd(s)
<1>1. e = IF s + (WinSize - 1) < MaxSeq THEN s + (WinSize - 1)
          ELSE s + (WinSize - 1) - MaxSeq
  BY Sizes, AdvanceIs DEF WinEnd
<1> HIDE DEF e
<1> SUFFICES FallsWithin(sn, s, e) <=> Dist(s, sn) < WinSize
  BY DEF e
<1> QED
  BY <1>1, Sizes, DistIs DEF FallsWithin, Numbers

\* ... the second for those less than half of the circle ahead of its start, ...
THEOREM AheadIsNextHalf ==
  ASSUME NEW s \in Numbers, NEW sn \in Numbers
  PROVE  FallsAhead(sn, s, WinEnd(s)) <=> Dist(s, sn) \in WinSize .. Half - 1
<1> DEFINE e == WinEnd(s)
<1>1. e = IF s + (WinSize - 1) < MaxSeq THEN s + (WinSize - 1)
          ELSE s + (WinSize - 1) - MaxSeq
  BY Sizes, AdvanceIs DEF WinEnd
<1> HIDE DEF e
<1> SUFFICES FallsAhead(sn, s, e) <=> Dist(s, sn) \in WinSize .. Half - 1
  BY DEF e
<1> QED
  BY <1>1, Sizes, DistIs DEF FallsAhead, Numbers


-----------------------------------------------------------------------------
(* The invariant of both threads, with any number of agreements, also when  *)
(* they are deleted while the tasklet is at work.                           *)

\* The spin lock is held exactly in the loops.
LockIsHeld ==
  /\ lock = "rx" <=> rxPc \in {"within", "ahead", "barAhead"}
  /\ lock = "main" <=> mainPc = "flush"

\* Between critical sections the window is as wide as agreed.
WindowIsAgreed == lock = "none" => u2WinEnd = WinEnd(u2WinStart)

\* The tasklet inserts parts of frames only, and not BARs.
InsertsParts == rxPc = "insert" => rxPkt \in Parts

IInv == TypeOK /\ LockIsHeld /\ WindowIsAgreed /\ InsertsParts

\* The parts of TypeOK, so that each can be shown apart.
SeqTypes ==
  /\ rReOrderQue \in Seq(Parts) /\ rxOut \in Seq(Parts) /\ mainOut \in Seq(Parts)
  /\ rxPkt \in Parts \cup [n : Nat, fmt : {"BAR", "NONE"}]
  /\ ring \in Seq(Parts \cup [n : Nat, fmt : {"BAR"}])

FlagTypes ==
  /\ fgIsValid \in BOOLEAN /\ refTbl \in BOOLEAN
  /\ fgIsWaitingForPktWithSsn \in BOOLEAN /\ fgFirstSnToWinStart \in BOOLEAN
  /\ fgNoDrop \in BOOLEAN /\ fgIsAmsduDuplicated \in BOOLEAN
  /\ fgHasBubble \in BOOLEAN /\ bubbleTimer \in BOOLEAN /\ rxMissing \in BOOLEAN
  /\ apBar \in BOOLEAN /\ strayed \in BOOLEAN /\ late \in BOOLEAN
  /\ passed \in BOOLEAN /\ raced \in BOOLEAN
  /\ u8LastAmsduSubIdx \in {"MSDU", "FIRST", "LAST"}
  /\ missTimeout \in {"0", "set", "old"} /\ lock \in {"none", "rx", "main"}
  /\ rxPc \in {"idle", "insert", "bar", "within", "ahead", "barAhead", "deliver"}
  /\ mainPc \in {"idle", "check", "restart", "flush", "deliver", "miss", "stop", "forget"}

NumberTypes ==
  /\ u2WinStart \in 0 .. MaxSeq - 1 /\ u2WinEnd \in 0 .. MaxSeq - 1
  /\ u4SNOverlapCount \in 0 .. OverlapMax /\ u4SeqNo \in 0 .. MaxSeq - 1
  /\ u2FirstBubbleSn \in 0 .. MaxSeq - 1 /\ rxBeforeEnd \in 0 .. MaxSeq - 1
  /\ apLow \in Nat /\ apGot \subseteq Nat
  /\ agreements \in 0 .. MaxAgreements /\ suspends \in 0 .. MaxSuspends
  /\ lastOut \in Nat /\ hostLast \in Nat

LEMMA Numbering ==
  /\ \A n \in Nat : n % MaxSeq \in 0 .. MaxSeq - 1
  /\ \A s \in 0 .. MaxSeq - 1 :
       WinEnd(s) \in 0 .. MaxSeq - 1 /\ Advance(s, 1) \in 0 .. MaxSeq - 1
  /\ \A s \in 0 .. MaxSeq - 1 : Advance(s, MaxSeq - WinSize + 1) \in 0 .. MaxSeq - 1
  /\ 0 \in 0 .. MaxSeq - 1
<1>1. \A n \in Nat : n % MaxSeq \in 0 .. MaxSeq - 1
  BY ModInNumbers DEF Numbers
<1>2. WinSize - 1 \in 0 .. MaxSeq /\ 1 \in 0 .. MaxSeq /\ MaxSeq - WinSize + 1 \in 0 .. MaxSeq
  BY Sizes
<1>3. \A s \in 0 .. MaxSeq - 1 : \A k \in 0 .. MaxSeq : Advance(s, k) \in 0 .. MaxSeq - 1
  BY AdvanceIs DEF Numbers
<1>4. 0 \in 0 .. MaxSeq - 1
  BY Sizes
<1> QED
  BY <1>1, <1>2, <1>3, <1>4 DEF WinEnd

LEMMA PartFacts ==
  ASSUME NEW p \in Parts
  PROVE  /\ SN(p) \in 0 .. MaxSeq - 1 /\ Pos(p) \in Nat
         /\ p.n \in Nat /\ p.fmt \in {"MSDU", "FIRST", "LAST"}
         /\ Advance(SN(p), 1) \in 0 .. MaxSeq - 1
<1>1. p.n \in Nat /\ p.fmt \in {"MSDU", "FIRST", "LAST"}
  BY DEF Parts
<1>2. SN(p) \in 0 .. MaxSeq - 1
  BY <1>1, Numbering DEF SN
<1> QED
  BY <1>1, <1>2, Numbering DEF Pos

LEMMA FrameParts ==
  ASSUME NEW n \in Nat
  PROVE  Frame(n) \in Seq(Parts)
<1>1. /\ [n |-> n, fmt |-> "FIRST"] \in Parts
      /\ [n |-> n, fmt |-> "LAST"] \in Parts
      /\ [n |-> n, fmt |-> "MSDU"] \in Parts
  BY DEF Parts
<1> QED
  BY <1>1 DEF Frame

\* The first of a set of positions (StopAt and Place are such).
LEMMA MinOfNats ==
  ASSUME NEW S \in SUBSET Nat, S # {}
  PROVE  Min(S) \in S /\ \A y \in S : Min(S) <= y
<1> DEFINE R == {ss \in Nat \X Nat : ss[1] < ss[2]}
<1>1. IsWellFoundedOn(R, Nat)
  BY NatLessThanWellFounded DEF OpToRel
<1> HIDE DEF R
<1>2. PICK x \in S : \A y \in S : ~ (<<y, x>> \in R)
  BY <1>1, WFMin
<1>3. ASSUME NEW y \in S PROVE x <= y
  <2>1. x \in Nat /\ y \in Nat
    OBVIOUS
  <2>2. ~ (<<y, x>> \in R)
    BY <1>2
  <2>3. <<y, x>> \in R <=> y < x
    BY <2>1 DEF R
  <2> QED
    BY <2>1, <2>2, <2>3
<1> QED
  BY <1>3 DEF Min

-----------------------------------------------------------------------------
(* What the operators shared by the threads return.                        *)

LEMMA StartTyped ==
  ASSUME TypeOK
  PROVE  Start0 \in 0 .. MaxSeq - 1
BY Numbering DEF TypeOK, Start0

LEMMA HeadTyped ==
  ASSUME TypeOK, rReOrderQue # <<>>
  PROVE  /\ Head(rReOrderQue) \in Parts /\ Tail(rReOrderQue) \in Seq(Parts)
         /\ rReOrderQue[Len(rReOrderQue)] \in Parts
<1>1. rReOrderQue \in Seq(Parts)
  BY DEF TypeOK
<1> QED
  BY <1>1

LEMMA StartBubbleTimerTyped ==
  ASSUME TypeOK, NEW start \in 0 .. MaxSeq - 1, StartBubbleTimer(start)
  PROVE  /\ fgHasBubble' \in BOOLEAN /\ u2FirstBubbleSn' \in 0 .. MaxSeq - 1
         /\ bubbleTimer' \in BOOLEAN
BY DEF TypeOK, StartBubbleTimer, bubble

LEMMA ReleaseTyped ==
  ASSUME TypeOK, NEW a \in {"rx", "main"}, rReOrderQue # <<>>, Release(a)
  PROVE  /\ rReOrderQue' \in Seq(Parts) /\ rxOut' \in Seq(Parts)
         /\ mainOut' \in Seq(Parts) /\ lastOut' \in Nat /\ raced' \in BOOLEAN
<1>1. /\ Head(rReOrderQue) \in Parts /\ Tail(rReOrderQue) \in Seq(Parts)
      /\ Pos(Head(rReOrderQue)) \in Nat
  BY HeadTyped, PartFacts
<1>2. rxOut \in Seq(Parts) /\ mainOut \in Seq(Parts) /\ raced \in BOOLEAN
  BY DEF TypeOK
<1>3. rReOrderQue' \in Seq(Parts) /\ lastOut' \in Nat
  BY <1>1 DEF Release
<1>4. rxOut' \in Seq(Parts) /\ mainOut' \in Seq(Parts)
  <2>1. /\ Append(rxOut, Head(rReOrderQue)) \in Seq(Parts)
        /\ Append(mainOut, Head(rReOrderQue)) \in Seq(Parts)
    BY <1>1, <1>2, AppendProperties
  <2>2. CASE a = "rx"
    BY <1>2, <2>1, <2>2 DEF Release
  <2>3. CASE a = "main"
    BY <1>2, <2>1, <2>3 DEF Release
  <2> QED
    BY <2>2, <2>3
<1>5. raced' \in BOOLEAN
  BY <1>2 DEF Release
<1> QED
  BY <1>3, <1>4, <1>5

LEMMA TakeNextTyped ==
  ASSUME TypeOK, NEW a \in {"rx", "main"}, TakeNext(a)
  PROVE  /\ rReOrderQue' \in Seq(Parts) /\ rxOut' \in Seq(Parts)
         /\ mainOut' \in Seq(Parts) /\ lastOut' \in Nat /\ raced' \in BOOLEAN
         /\ u2WinStart' \in 0 .. MaxSeq - 1
         /\ u8LastAmsduSubIdx' \in {"MSDU", "FIRST", "LAST"}
         /\ UNCHANGED bubble /\ rxMissing' = rxMissing
<1>1. rReOrderQue # <<>> /\ Release(a) /\ UNCHANGED bubble /\ rxMissing' = rxMissing
  BY DEF TakeNext
<1>2. Head(rReOrderQue) \in Parts
  BY <1>1, HeadTyped
<1>3. u2WinStart' \in 0 .. MaxSeq - 1
  BY <1>2, PartFacts, StartTyped DEF TakeNext
<1>4. u8LastAmsduSubIdx' \in {"MSDU", "FIRST", "LAST"}
  BY <1>2, PartFacts DEF TakeNext
<1> QED
  BY <1>1, <1>3, <1>4, ReleaseTyped

LEMMA PopAheadTyped ==
  ASSUME TypeOK, NEW a \in {"rx", "main"}, PopAhead(a)
  PROVE  /\ rReOrderQue' \in Seq(Parts) /\ rxOut' \in Seq(Parts)
         /\ mainOut' \in Seq(Parts) /\ lastOut' \in Nat /\ raced' \in BOOLEAN
         /\ u2WinStart' \in 0 .. MaxSeq - 1
         /\ u8LastAmsduSubIdx' \in {"MSDU", "FIRST", "LAST"}
         /\ UNCHANGED bubble /\ rxMissing' = rxMissing
<1>1. CASE TakeNext(a)
  BY <1>1, TakeNextTyped
<1>2. CASE ~TakeNext(a)
  <2>1. /\ rReOrderQue # <<>> /\ Release(a) /\ u2WinStart' = Start0
        /\ u8LastAmsduSubIdx' = IF TailGivenUp THEN "MSDU" ELSE u8LastAmsduSubIdx
        /\ UNCHANGED bubble /\ rxMissing' = rxMissing
    BY <1>2 DEF PopAhead
  <2>2. u8LastAmsduSubIdx' \in {"MSDU", "FIRST", "LAST"}
    BY <2>1 DEF TypeOK
  <2> QED
    BY <2>1, <2>2, ReleaseTyped, StartTyped
<1> QED
  BY <1>1, <1>2

LEMMA LoopEndsTyped ==
  ASSUME TypeOK, NEW stays, LoopEnds(stays)
  PROVE  /\ rReOrderQue' = rReOrderQue /\ rxOut' = rxOut /\ mainOut' = mainOut
         /\ lastOut' = lastOut /\ raced' = raced
         /\ u2WinStart' \in 0 .. MaxSeq - 1 /\ u2WinEnd' \in 0 .. MaxSeq - 1
         /\ u2WinEnd' = WinEnd(u2WinStart')
         /\ u8LastAmsduSubIdx' \in {"MSDU", "FIRST", "LAST"}
<1>1. u2WinStart' \in 0 .. MaxSeq - 1 /\ u8LastAmsduSubIdx' \in {"MSDU", "FIRST", "LAST"}
  BY StartTyped DEF LoopEnds, TypeOK
<1>2. u2WinEnd' = WinEnd(u2WinStart')
  BY DEF LoopEnds
<1>3. u2WinEnd' \in 0 .. MaxSeq - 1
  BY <1>1, <1>2, Numbering
<1> QED
  BY <1>1, <1>2, <1>3 DEF LoopEnds, NothingReleased

\* The queue remains a queue of parts when a part is put into it.
LEMMA InsertTyped ==
  ASSUME TypeOK, rxPkt \in Parts, qmInsertFallWithinReorderPkt
  PROVE  rReOrderQue' \in Seq(Parts) /\ fgIsAmsduDuplicated' \in BOOLEAN
<1>1. /\ rReOrderQue \in Seq(Parts) /\ fgIsAmsduDuplicated \in BOOLEAN
      /\ Len(rReOrderQue) \in Nat
  BY DEF TypeOK
<1>2. fgIsAmsduDuplicated' \in BOOLEAN
  BY <1>1 DEF qmInsertFallWithinReorderPkt
<1>3. StopAt \in 1 .. Len(rReOrderQue) + 1
  <2> DEFINE S == {i \in 1 .. Len(rReOrderQue) :
                     \/ SN(rReOrderQue[i]) = SN(rxPkt)
                     \/ qmCompareSnIsLessThan(SN(rxPkt), SN(rReOrderQue[i]))}
                  \cup {Len(rReOrderQue) + 1}
  <2>1. S \in SUBSET Nat /\ S # {} /\ S \subseteq 1 .. Len(rReOrderQue) + 1
    BY <1>1
  <2>2. StopAt = Min(S)
    BY DEF StopAt
  <2> HIDE DEF S
  <2>3. Min(S) \in S
    BY <2>1, MinOfNats
  <2> QED
    BY <2>1, <2>2, <2>3
<1>4. Place \in 1 .. Len(rReOrderQue) + 1
  <2> DEFINE S == {i \in StopAt .. Len(rReOrderQue) :
                     SN(rReOrderQue[i]) # SN(rxPkt)} \cup {Len(rReOrderQue) + 1}
  <2>1. S \in SUBSET Nat /\ S # {} /\ S \subseteq 1 .. Len(rReOrderQue) + 1
    BY <1>1, <1>3
  <2>2. Place = IF FindsSame THEN Min(S) ELSE StopAt
    BY DEF Place
  <2> HIDE DEF S
  <2>3. Min(S) \in S
    BY <2>1, MinOfNats
  <2> QED
    BY <1>3, <2>1, <2>2, <2>3
<1>5. InsertAt(rReOrderQue, Place, rxPkt) \in Seq(Parts)
  <2>1. /\ SubSeq(rReOrderQue, 1, Place - 1) \in Seq(Parts)
        /\ SubSeq(rReOrderQue, Place, Len(rReOrderQue)) \in Seq(Parts)
    BY <1>1, <1>4, SubSeqProperties
  <2>2. <<rxPkt>> \in Seq(Parts)
    OBVIOUS
  <2> QED
    BY <2>1, <2>2, ConcatProperties DEF InsertAt
<1> QED
  BY <1>1, <1>2, <1>5 DEF qmInsertFallWithinReorderPkt

\* What the host has been given.
LEMMA HandToHostTyped ==
  ASSUME TypeOK, NEW out \in Seq(Parts), HandToHost(out)
  PROVE  hostLast' \in Nat /\ late' \in BOOLEAN /\ passed' \in BOOLEAN
<1>1. out # <<>> => Pos(out[Len(out)]) \in Nat
  <2>1. out # <<>> => out[Len(out)] \in Parts
    OBVIOUS
  <2> QED
    BY <2>1, PartFacts
<1>2. hostLast' \in Nat
  BY <1>1 DEF HandToHost, TypeOK
<1>3. late' \in BOOLEAN /\ passed' \in BOOLEAN
  BY DEF HandToHost, TypeOK
<1> QED
  BY <1>2, <1>3

-----------------------------------------------------------------------------
(* The steps.                                                              *)

LEMMA InitIInv == Init => IInv
<1> SUFFICES ASSUME Init PROVE IInv
  OBVIOUS
<1>1. /\ OverlapMax \in Nat /\ First \in Nat
      /\ MaxAgreements \in Nat /\ MaxSuspends \in Nat
      /\ 0 \in 0 .. MaxSeq - 1 /\ WinEnd(0) \in 0 .. MaxSeq - 1
  BY ConstantsAssumption, Numbering
<1>2. rxPkt \in [n : Nat, fmt : {"BAR", "NONE"}]
  BY DEF Init, NoPart
<1>3. /\ rReOrderQue \in Seq(Parts) /\ rxOut \in Seq(Parts) /\ mainOut \in Seq(Parts)
      /\ ring \in Seq(Parts \cup [n : Nat, fmt : {"BAR"}])
  BY DEF Init
<1>4. SeqTypes
  BY <1>2, <1>3 DEF SeqTypes
<1>5. FlagTypes
  BY DEF Init, FlagTypes
<1>6. NumberTypes
  BY <1>1 DEF Init, NumberTypes
<1>7. LockIsHeld /\ WindowIsAgreed /\ InsertsParts
  BY DEF Init, LockIsHeld, WindowIsAgreed, InsertsParts
<1> QED
  BY <1>4, <1>5, <1>6, <1>7 DEF IInv, TypeOK, SeqTypes, FlagTypes, NumberTypes

LEMMA AirPreserves ==
  ASSUME IInv, Air
  PROVE  IInv'
<1>1. /\ apLow \in Nat /\ apGot \subseteq Nat /\ Last \in Nat /\ StrayBy \in Nat
      /\ Jumps \subseteq Nat /\ apBar \in BOOLEAN /\ strayed \in BOOLEAN
      /\ ring \in Seq(Parts \cup [n : Nat, fmt : {"BAR"}])
  BY ConstantsAssumption DEF TypeOK, IInv
<1>2. UNCHANGED <<agreement, window, rReOrderQue, drops, u4SeqNo, amsdu, bubble,
           missTimeout, lock, rxVars, mainVars, lastOut, host, raced>>
  BY DEF Air, Send, Acked, GiveUp, SendBar, SendStray, ApMovesTo
<1>3. ring' \in Seq(Parts \cup [n : Nat, fmt : {"BAR"}])
  <2>1. ASSUME NEW n \in apLow .. Last PROVE Frame(n) \in Seq(Parts)
    BY <1>1, FrameParts
  <2>2. <<[n |-> apLow, fmt |-> "BAR"]>> \in Seq(Parts \cup [n : Nat, fmt : {"BAR"}])
    BY <1>1
  <2>3. <<[n |-> apLow + StrayBy, fmt |-> "MSDU"]>> \in Seq(Parts)
    BY <1>1 DEF Parts
  <2>4. \A s \in Seq(Parts) : s \in Seq(Parts \cup [n : Nat, fmt : {"BAR"}])
    OBVIOUS
  <2>5. ring' = ring \/ ring' \in Seq(Parts) \/ ring' = <<[n |-> apLow, fmt |-> "BAR"]>>
    BY <2>1, <2>3 DEF Air, Send, Acked, GiveUp, SendBar, SendStray, ApMovesTo
  <2> QED
    BY <1>1, <2>2, <2>4, <2>5
<1>4. apLow' \in Nat /\ apGot' \subseteq Nat /\ apBar' \in BOOLEAN /\ strayed' \in BOOLEAN
  <2>1. ASSUME NEW n \in Nat, ApMovesTo(n)
        PROVE  apLow' \in Nat /\ apGot' \subseteq Nat /\ strayed' \in BOOLEAN
    BY <1>1, <2>1 DEF ApMovesTo
  <2>2. ASSUME NEW n \in apLow .. Last, Send(n) PROVE <1>4
    BY <1>1, <2>2 DEF Send
  <2>3. CASE Acked
    <3>1. apLow + 1 \in Nat /\ ApMovesTo(apLow + 1) /\ apBar' = apBar
      BY <1>1, <2>3 DEF Acked
    <3> QED
      BY <1>1, <2>1, <3>1
  <2>4. CASE GiveUp
    <3>1. PICK j \in Jumps : ApMovesTo(apLow + j) /\ apBar' = TRUE
      BY <2>4 DEF GiveUp
    <3>2. apLow + j \in Nat
      BY <1>1
    <3> QED
      BY <2>1, <3>1, <3>2
  <2>5. CASE SendBar \/ SendStray
    BY <1>1, <2>5 DEF SendBar, SendStray
  <2> QED
    BY <2>2, <2>3, <2>4, <2>5 DEF Air
<1>5. TypeOK'
  BY <1>2, <1>3, <1>4
  DEF IInv, TypeOK, agreement, window, drops, amsdu, bubble, rxVars, mainVars, host
<1>6. LockIsHeld' /\ WindowIsAgreed' /\ InsertsParts'
  BY <1>2 DEF IInv, LockIsHeld, WindowIsAgreed, InsertsParts, window, rxVars, mainVars
<1> QED
  BY <1>5, <1>6 DEF IInv

LEMMA RxReceivePreserves ==
  ASSUME IInv, RxReceive
  PROVE  IInv'
<1>1. /\ ring \in Seq(Parts \cup [n : Nat, fmt : {"BAR"}]) /\ ring # <<>>
      /\ u4SeqNo \in 0 .. MaxSeq - 1
  BY DEF IInv, TypeOK, RxReceive
<1> DEFINE p == Head(ring)
<1>2. p \in Parts \cup [n : Nat, fmt : {"BAR"}]
  BY <1>1
<1>3. ring' \in Seq(Parts \cup [n : Nat, fmt : {"BAR"}])
  BY <1>1 DEF RxReceive
<1>4. /\ rxPc' \in {"idle", "insert", "bar"}
      /\ rxPkt' = IF rxPc' = "idle" THEN NoPart ELSE p
      /\ rxPc' = "insert" => p.fmt # "BAR"
      /\ u4SeqNo' = SN(p) \/ u4SeqNo' = u4SeqNo
      /\ rxPc = "idle"
  BY DEF RxReceive
<1> HIDE DEF p
<1>5. u4SeqNo' \in 0 .. MaxSeq - 1
  BY <1>1, <1>2, <1>4, Numbering DEF SN, Parts
<1>6. NoPart \in [n : Nat, fmt : {"BAR", "NONE"}]
  BY DEF NoPart
<1>7. /\ rxPkt' \in Parts \cup [n : Nat, fmt : {"BAR", "NONE"}]
      /\ rxPc' = "insert" => rxPkt' \in Parts
  BY <1>2, <1>4, <1>6 DEF Parts
<1>8. UNCHANGED <<agreement, window, rReOrderQue, drops, amsdu, bubble, missTimeout,
        lock, rxOut, rxMissing, rxBeforeEnd, mainVars, air, lastOut, host, raced>>
  BY DEF RxReceive
<1>9. TypeOK'
  BY <1>3, <1>4, <1>5, <1>7, <1>8
  DEF IInv, TypeOK, agreement, window, drops, amsdu, bubble, mainVars, air, host
<1>10. LockIsHeld' /\ WindowIsAgreed' /\ InsertsParts'
  BY <1>4, <1>7, <1>8 DEF IInv, LockIsHeld, WindowIsAgreed, InsertsParts, window, mainVars
<1> QED
  BY <1>9, <1>10 DEF IInv

\* What rx does first under the lock, whichever case the frame is of.
LEMMA RxLocksTyped ==
  ASSUME IInv, RxLocks
  PROVE  /\ rxPkt \in Parts /\ SN(rxPkt) \in 0 .. MaxSeq - 1
         /\ SeenStart \in 0 .. MaxSeq - 1 /\ SeenEnd \in 0 .. MaxSeq - 1
         /\ SeenEnd = WinEnd(SeenStart)
         /\ fgNoDrop' \in BOOLEAN /\ u4SNOverlapCount' \in 0 .. OverlapMax
         /\ fgFirstSnToWinStart' \in BOOLEAN /\ raced' \in BOOLEAN
         /\ lastOut' \in Nat /\ hostLast' \in Nat
         /\ rxPc = "insert" /\ lock = "none"
         /\ UNCHANGED <<fgIsValid, refTbl, agreements, suspends, u4SeqNo, bubble,
              missTimeout, mainVars, ring, air, late>>
<1>1. rxPc = "insert" /\ lock = "none" /\ CountOverlap(SN(rxPkt))
  BY DEF RxLocks
<1>2. rxPkt \in Parts /\ SN(rxPkt) \in 0 .. MaxSeq - 1
  BY <1>1, PartFacts DEF IInv, InsertsParts
<1>3. /\ SeenStart \in 0 .. MaxSeq - 1 /\ SeenEnd \in 0 .. MaxSeq - 1
      /\ SeenEnd = WinEnd(SeenStart)
  BY <1>1, <1>2, Numbering DEF IInv, TypeOK, WindowIsAgreed, SeenStart, SeenEnd
<1>4. fgNoDrop' \in BOOLEAN /\ u4SNOverlapCount' \in 0 .. OverlapMax
  <2>1. fgNoDrop \in BOOLEAN /\ u4SNOverlapCount \in 0 .. OverlapMax /\ OverlapMax \in Nat
    BY ConstantsAssumption DEF IInv, TypeOK
  <2>2. \/ fgNoDrop' = fgNoDrop /\ u4SNOverlapCount' = u4SNOverlapCount
        \/ /\ u4SNOverlapCount < OverlapMax
           /\ u4SNOverlapCount' = u4SNOverlapCount + 1 /\ fgNoDrop' = fgNoDrop
        \/ u4SNOverlapCount' = 0 /\ fgNoDrop' = FALSE
    BY <1>1 DEF CountOverlap, drops
  <2>3. u4SNOverlapCount' \in 0 .. OverlapMax
    BY <2>1, <2>2
  <2>4. fgNoDrop' \in BOOLEAN
    BY <2>1, <2>2, Zenon
  <2> QED
    BY <2>3, <2>4
<1>5. lastOut' \in Nat /\ hostLast' \in Nat
  BY DEF RxLocks, IInv, TypeOK
<1>6. fgFirstSnToWinStart' \in BOOLEAN /\ raced' \in BOOLEAN
  BY DEF RxLocks, IInv, TypeOK
<1>7. UNCHANGED <<fgIsValid, refTbl, agreements, suspends, u4SeqNo, bubble,
        missTimeout, mainVars, ring, air, late>>
  BY DEF RxLocks
<1> QED
  BY <1>1, <1>2, <1>3, <1>4, <1>5, <1>6, <1>7

LEMMA RxFallsWithinPreserves ==
  ASSUME IInv, RxFallsWithin
  PROVE  IInv'
<1>0. TypeOK
  BY DEF IInv
<1>1. RxLocks /\ qmInsertFallWithinReorderPkt
  BY DEF RxFallsWithin
<1>2. rReOrderQue' \in Seq(Parts) /\ fgIsAmsduDuplicated' \in BOOLEAN
  BY <1>1, RxLocksTyped, InsertTyped DEF IInv
<1>3. u2WinStart' \in 0 .. MaxSeq - 1 /\ u2WinEnd' \in 0 .. MaxSeq - 1
  BY <1>1, RxLocksTyped, Numbering DEF RxFallsWithin
<1>4. /\ u8LastAmsduSubIdx' \in {"MSDU", "FIRST", "LAST"}
      /\ fgIsWaitingForPktWithSsn' \in BOOLEAN /\ rxMissing' \in BOOLEAN
      /\ rxPc' = "within" /\ lock' = "rx"
      /\ rxPkt' = rxPkt /\ rxOut' = rxOut /\ rxBeforeEnd' = rxBeforeEnd
      /\ passed' = passed
  BY DEF RxFallsWithin, IInv, TypeOK
<1>5. TypeOK'
  <2>1. SeqTypes'
    BY <1>0, <1>1, <1>2, <1>3, <1>4, RxLocksTyped DEF TypeOK, SeqTypes, mainVars
  <2>2. FlagTypes'
    BY <1>0, <1>1, <1>2, <1>3, <1>4, RxLocksTyped DEF TypeOK, FlagTypes, mainVars, bubble, amsdu, air
  <2>3. NumberTypes'
    BY <1>0, <1>1, <1>2, <1>3, <1>4, RxLocksTyped DEF TypeOK, NumberTypes, bubble, air
  <2> QED
    BY <2>1, <2>2, <2>3 DEF TypeOK, SeqTypes, FlagTypes, NumberTypes
<1>6. LockIsHeld' /\ WindowIsAgreed' /\ InsertsParts'
  BY <1>1, <1>4, RxLocksTyped
  DEF IInv, LockIsHeld, WindowIsAgreed, InsertsParts, mainVars
<1> QED
  BY <1>5, <1>6 DEF IInv

LEMMA RxFallsAheadPreserves ==
  ASSUME IInv, RxFallsAhead
  PROVE  IInv'
<1>0. TypeOK
  BY DEF IInv
<1>1. RxLocks
  BY DEF RxFallsAhead
<1>2. rReOrderQue' \in Seq(Parts)
  BY <1>1, RxLocksTyped, AppendProperties DEF RxFallsAhead, IInv, TypeOK
<1>3. u2WinStart' \in 0 .. MaxSeq - 1 /\ u2WinEnd' \in 0 .. MaxSeq - 1
  BY <1>1, RxLocksTyped, Numbering DEF RxFallsAhead
<1>4. /\ u8LastAmsduSubIdx' \in {"MSDU", "FIRST", "LAST"}
      /\ fgIsAmsduDuplicated' \in BOOLEAN
      /\ fgIsWaitingForPktWithSsn' \in BOOLEAN /\ rxMissing' = rxMissing
      /\ rxPc' = "ahead" /\ lock' = "rx"
      /\ rxPkt' = rxPkt /\ rxOut' = rxOut /\ rxBeforeEnd' = SeenEnd
      /\ passed' = passed
  BY DEF RxFallsAhead
<1>5. TypeOK'
  <2>1. SeqTypes'
    BY <1>0, <1>1, <1>2, <1>3, <1>4, RxLocksTyped DEF TypeOK, SeqTypes, mainVars
  <2>2. FlagTypes'
    BY <1>0, <1>1, <1>2, <1>3, <1>4, RxLocksTyped DEF TypeOK, FlagTypes, mainVars, bubble, amsdu, air
  <2>3. NumberTypes'
    BY <1>0, <1>1, <1>2, <1>3, <1>4, RxLocksTyped DEF TypeOK, NumberTypes, bubble, air
  <2> QED
    BY <2>1, <2>2, <2>3 DEF TypeOK, SeqTypes, FlagTypes, NumberTypes
<1>6. LockIsHeld' /\ WindowIsAgreed' /\ InsertsParts'
  BY <1>1, <1>4, RxLocksTyped
  DEF IInv, LockIsHeld, WindowIsAgreed, InsertsParts, mainVars
<1> QED
  BY <1>5, <1>6 DEF IInv

LEMMA RxFallsBehindPreserves ==
  ASSUME IInv, RxPassesBehind \/ RxDropsBehind
  PROVE  IInv'
<1>0. TypeOK
  BY DEF IInv
<1>1. RxFallsBehind /\ RxLocks /\ rxPkt \in Parts
  BY RxLocksTyped DEF RxPassesBehind, RxDropsBehind, RxFallsBehind
<1>2. /\ u2WinStart' = SeenStart /\ u2WinEnd' = SeenEnd
      /\ rxPkt' = NoPart
      /\ UNCHANGED <<rReOrderQue, fgIsWaitingForPktWithSsn, amsdu, lock, rxMissing,
           rxBeforeEnd>>
  BY <1>1 DEF RxFallsBehind
<1>3. /\ rxPc' \in {"idle", "deliver"}
      /\ rxOut' \in Seq(Parts) /\ passed' \in BOOLEAN
  <2>1. CASE RxPassesBehind
    BY <1>1, <2>1 DEF RxPassesBehind
  <2>2. CASE RxDropsBehind
    BY <1>0, <2>2 DEF RxDropsBehind, TypeOK
  <2> QED
    BY <2>1, <2>2
<1>4. NoPart \in [n : Nat, fmt : {"BAR", "NONE"}]
  BY DEF NoPart
<1>5. TypeOK'
  <2>1. SeqTypes'
    BY <1>0, <1>1, <1>2, <1>3, <1>4, RxLocksTyped DEF TypeOK, SeqTypes, mainVars
  <2>2. FlagTypes'
    BY <1>0, <1>1, <1>2, <1>3, <1>4, RxLocksTyped DEF TypeOK, FlagTypes, mainVars, bubble, amsdu, air
  <2>3. NumberTypes'
    BY <1>0, <1>1, <1>2, <1>3, <1>4, RxLocksTyped DEF TypeOK, NumberTypes, bubble, air
  <2> QED
    BY <2>1, <2>2, <2>3 DEF TypeOK, SeqTypes, FlagTypes, NumberTypes
<1>6. LockIsHeld' /\ WindowIsAgreed' /\ InsertsParts'
  BY <1>1, <1>2, <1>3, RxLocksTyped
  DEF IInv, LockIsHeld, WindowIsAgreed, InsertsParts, mainVars
<1> QED
  BY <1>5, <1>6 DEF IInv

LEMMA RxBarPreserves ==
  ASSUME IInv, RxBar
  PROVE  IInv'
<1>0. TypeOK
  BY DEF IInv
<1>1. /\ rxPc = "bar" /\ lock = "none"
      /\ UNCHANGED <<agreement, rReOrderQue, fgIsWaitingForPktWithSsn, drops,
           u4SeqNo, fgIsAmsduDuplicated, bubble, missTimeout, rxOut, rxMissing,
           rxBeforeEnd, mainVars, ring, air, lastOut, host, raced>>
  BY DEF RxBar
<1>2. SN(rxPkt) \in 0 .. MaxSeq - 1
  BY Numbering DEF SN, Parts, IInv, TypeOK
<1>3. NoPart \in [n : Nat, fmt : {"BAR", "NONE"}]
  BY DEF NoPart
<1>4. /\ rxPkt' = rxPkt \/ rxPkt' = NoPart
      /\ u2WinStart' \in 0 .. MaxSeq - 1 /\ u2WinEnd' \in 0 .. MaxSeq - 1
      /\ u8LastAmsduSubIdx' \in {"MSDU", "FIRST", "LAST"}
      /\ \/ rxPc' = "barAhead" /\ lock' = "rx"
         \/ /\ rxPc' = "idle" /\ lock' = lock
            /\ u2WinStart' = u2WinStart /\ u2WinEnd' = u2WinEnd
  BY <1>2, Numbering DEF RxBar, IInv, TypeOK
<1>5. TypeOK'
  <2>1. SeqTypes'
    BY <1>0, <1>1, <1>3, <1>4 DEF TypeOK, SeqTypes, agreement, drops, bubble, mainVars, air, host
  <2>2. FlagTypes'
    BY <1>0, <1>1, <1>3, <1>4 DEF TypeOK, FlagTypes, agreement, drops, bubble, mainVars, air, host
  <2>3. NumberTypes'
    BY <1>0, <1>1, <1>3, <1>4 DEF TypeOK, NumberTypes, agreement, drops, bubble, mainVars, air, host
  <2> QED
    BY <2>1, <2>2, <2>3 DEF TypeOK, SeqTypes, FlagTypes, NumberTypes
<1>6. LockIsHeld' /\ WindowIsAgreed' /\ InsertsParts'
  BY <1>1, <1>4 DEF IInv, LockIsHeld, WindowIsAgreed, InsertsParts, mainVars
<1> QED
  BY <1>5, <1>6 DEF IInv

LEMMA RxPopWithinPreserves ==
  ASSUME IInv, RxPopWithin
  PROVE  IInv'
<1>0. TypeOK /\ rxPc = "within" /\ lock = "rx"
  BY DEF IInv, LockIsHeld, RxPopWithin
<1>1. /\ rReOrderQue' \in Seq(Parts) /\ rxOut' \in Seq(Parts)
      /\ mainOut' \in Seq(Parts) /\ lastOut' \in Nat /\ raced' \in BOOLEAN
      /\ u2WinStart' \in 0 .. MaxSeq - 1
      /\ u8LastAmsduSubIdx' \in {"MSDU", "FIRST", "LAST"}
      /\ fgHasBubble' \in BOOLEAN /\ u2FirstBubbleSn' \in 0 .. MaxSeq - 1
      /\ bubbleTimer' \in BOOLEAN /\ rxMissing' \in BOOLEAN
  <2>1. CASE TakeNext("rx")
    BY <1>0, <2>1, TakeNextTyped DEF TypeOK, bubble
  <2>2. CASE /\ rReOrderQue # <<>>
             /\ Release("rx")
             /\ u2WinStart' = Advance(SN(Head(rReOrderQue)), 1)
             /\ u8LastAmsduSubIdx' = "MSDU"
             /\ StartBubbleTimer(Start0)
             /\ rxMissing' = FALSE
    <3>1. u2WinStart' \in 0 .. MaxSeq - 1
      BY <1>0, <2>2, HeadTyped, PartFacts
    <3>2. /\ fgHasBubble' \in BOOLEAN /\ u2FirstBubbleSn' \in 0 .. MaxSeq - 1
          /\ bubbleTimer' \in BOOLEAN
      BY <1>0, <2>2, StartTyped, StartBubbleTimerTyped
    <3> QED
      BY <1>0, <2>2, <3>1, <3>2, ReleaseTyped
  <2> QED
    BY <2>1, <2>2 DEF RxPopWithin
<1>2. UNCHANGED <<u2WinEnd, drops, missTimeout, lock, rxPc, rxPkt, rxBeforeEnd, mainPc,
        agreement, fgIsWaitingForPktWithSsn, u4SeqNo, fgIsAmsduDuplicated, ring, air, host>>
  BY DEF RxPopWithin, LoopFrame
<1>3. TypeOK'
  <2>1. SeqTypes'
    BY <1>0, <1>1, <1>2 DEF TypeOK, SeqTypes, agreement, drops, air, host
  <2>2. FlagTypes'
    BY <1>0, <1>1, <1>2 DEF TypeOK, FlagTypes, agreement, drops, air, host
  <2>3. NumberTypes'
    BY <1>0, <1>1, <1>2 DEF TypeOK, NumberTypes, agreement, drops, air, host
  <2> QED
    BY <2>1, <2>2, <2>3 DEF TypeOK, SeqTypes, FlagTypes, NumberTypes
<1>4. LockIsHeld' /\ WindowIsAgreed' /\ InsertsParts'
  BY <1>0, <1>1, <1>2 DEF IInv, LockIsHeld, WindowIsAgreed, InsertsParts
<1> QED
  BY <1>3, <1>4 DEF IInv

LEMMA RxWithinEndsPreserves ==
  ASSUME IInv, RxWithinEnds
  PROVE  IInv'
<1>0. TypeOK /\ rxPc = "within" /\ lock = "rx" /\ mainPc # "flush"
  BY DEF IInv, LockIsHeld, RxWithinEnds
<1>1. /\ rReOrderQue' = rReOrderQue /\ rxOut' = rxOut /\ mainOut' = mainOut
      /\ lastOut' = lastOut /\ raced' = raced
      /\ u2WinStart' \in 0 .. MaxSeq - 1 /\ u2WinEnd' \in 0 .. MaxSeq - 1
      /\ u2WinEnd' = WinEnd(u2WinStart')
      /\ u8LastAmsduSubIdx' \in {"MSDU", "FIRST", "LAST"}
  <2>1. LoopEnds(~MissOver)
    BY DEF RxWithinEnds
  <2> QED
    BY <1>0, <2>1, LoopEndsTyped
<1>2. /\ fgHasBubble' \in BOOLEAN /\ u2FirstBubbleSn' \in 0 .. MaxSeq - 1
      /\ bubbleTimer' \in BOOLEAN /\ missTimeout' \in {"0", "set", "old"}
  <2>1. CASE rReOrderQue = <<>>
    BY <1>0, <2>1 DEF RxWithinEnds, TypeOK, bubble
  <2>2. CASE rReOrderQue # <<>>
    <3>1. StartBubbleTimer(Start0) /\ missTimeout' \in {missTimeout, "set"}
      BY <2>2 DEF RxWithinEnds
    <3> QED
      BY <1>0, <3>1, StartTyped, StartBubbleTimerTyped DEF TypeOK
  <2> QED
    BY <2>1, <2>2
<1>3. /\ rxPc' = "deliver" /\ lock' = "none"
      /\ rxPkt' \in [n : Nat, fmt : {"BAR", "NONE"}] /\ rxMissing' \in BOOLEAN
      /\ UNCHANGED <<drops, rxBeforeEnd, mainPc, agreement, fgIsWaitingForPktWithSsn,
           u4SeqNo, fgIsAmsduDuplicated, ring, air, host>>
  BY DEF RxWithinEnds, LoopFrame, NoPart
<1>4. TypeOK'
  <2>1. SeqTypes'
    BY <1>0, <1>1, <1>2, <1>3 DEF TypeOK, SeqTypes, agreement, drops, air, host
  <2>2. FlagTypes'
    BY <1>0, <1>1, <1>2, <1>3 DEF TypeOK, FlagTypes, agreement, drops, air, host
  <2>3. NumberTypes'
    BY <1>0, <1>1, <1>2, <1>3 DEF TypeOK, NumberTypes, agreement, drops, air, host
  <2> QED
    BY <2>1, <2>2, <2>3 DEF TypeOK, SeqTypes, FlagTypes, NumberTypes
<1>5. LockIsHeld' /\ WindowIsAgreed' /\ InsertsParts'
  BY <1>0, <1>1, <1>3 DEF IInv, LockIsHeld, WindowIsAgreed, InsertsParts
<1> QED
  BY <1>4, <1>5 DEF IInv

LEMMA RxPopAheadPreserves ==
  ASSUME IInv, RxPopAhead
  PROVE  IInv'
<1>0. TypeOK /\ rxPc \in {"ahead", "barAhead"} /\ lock = "rx"
  BY DEF IInv, LockIsHeld, RxPopAhead
<1>1. /\ rReOrderQue' \in Seq(Parts) /\ rxOut' \in Seq(Parts)
      /\ mainOut' \in Seq(Parts) /\ lastOut' \in Nat /\ raced' \in BOOLEAN
      /\ u2WinStart' \in 0 .. MaxSeq - 1
      /\ u8LastAmsduSubIdx' \in {"MSDU", "FIRST", "LAST"}
      /\ UNCHANGED bubble /\ rxMissing' = rxMissing
  BY <1>0, PopAheadTyped DEF RxPopAhead
<1>2. UNCHANGED <<u2WinEnd, drops, missTimeout, lock, rxPc, rxPkt, rxBeforeEnd, mainPc,
        agreement, fgIsWaitingForPktWithSsn, u4SeqNo, fgIsAmsduDuplicated, ring, air, host>>
  BY DEF RxPopAhead, LoopFrame
<1>3. TypeOK'
  <2>1. SeqTypes'
    BY <1>0, <1>1, <1>2 DEF TypeOK, SeqTypes, agreement, drops, bubble, air, host
  <2>2. FlagTypes'
    BY <1>0, <1>1, <1>2 DEF TypeOK, FlagTypes, agreement, drops, bubble, air, host
  <2>3. NumberTypes'
    BY <1>0, <1>1, <1>2 DEF TypeOK, NumberTypes, agreement, drops, bubble, air, host
  <2> QED
    BY <2>1, <2>2, <2>3 DEF TypeOK, SeqTypes, FlagTypes, NumberTypes
<1>4. LockIsHeld' /\ WindowIsAgreed' /\ InsertsParts'
  BY <1>0, <1>1, <1>2 DEF IInv, LockIsHeld, WindowIsAgreed, InsertsParts
<1> QED
  BY <1>3, <1>4 DEF IInv

LEMMA RxAheadEndsPreserves ==
  ASSUME IInv, RxAheadEnds
  PROVE  IInv'
<1>0. TypeOK /\ rxPc \in {"ahead", "barAhead"} /\ lock = "rx" /\ mainPc # "flush"
  BY DEF IInv, LockIsHeld, RxAheadEnds
<1>1. /\ rReOrderQue' = rReOrderQue /\ rxOut' = rxOut /\ mainOut' = mainOut
      /\ lastOut' = lastOut /\ raced' = raced
      /\ u2WinStart' \in 0 .. MaxSeq - 1 /\ u2WinEnd' \in 0 .. MaxSeq - 1
      /\ u2WinEnd' = WinEnd(u2WinStart')
      /\ u8LastAmsduSubIdx' \in {"MSDU", "FIRST", "LAST"}
  <2>1. LoopEnds(HeadIsAhead)
    BY DEF RxAheadEnds
  <2> QED
    BY <1>0, <2>1, LoopEndsTyped
<1>2. /\ fgHasBubble' \in BOOLEAN /\ u2FirstBubbleSn' \in 0 .. MaxSeq - 1
      /\ bubbleTimer' \in BOOLEAN
  <2>1. CASE rReOrderQue = <<>>
    BY <1>0, <2>1 DEF RxAheadEnds, TypeOK, bubble
  <2>2. CASE rReOrderQue # <<>>
    <3>1. StartBubbleTimer(Start0)
      BY <2>2 DEF RxAheadEnds
    <3> QED
      BY <1>0, <3>1, StartTyped, StartBubbleTimerTyped
  <2> QED
    BY <2>1, <2>2
<1>3. fgNoDrop' \in BOOLEAN /\ u4SNOverlapCount' \in 0 .. OverlapMax
  <2>1. \/ fgNoDrop' = TRUE /\ u4SNOverlapCount' = 0
        \/ fgNoDrop' = fgNoDrop /\ u4SNOverlapCount' = u4SNOverlapCount
    BY DEF RxAheadEnds, drops
  <2>2. OverlapMax \in Nat
    BY ConstantsAssumption
  <2>3. fgNoDrop \in BOOLEAN /\ u4SNOverlapCount \in 0 .. OverlapMax
    BY <1>0 DEF TypeOK
  <2>4. u4SNOverlapCount' \in 0 .. OverlapMax
    BY <2>1, <2>2, <2>3
  <2>5. fgNoDrop' \in BOOLEAN
    BY <2>1, <2>3, Zenon
  <2> QED
    BY <2>4, <2>5
<1>4. /\ rxPc' = "deliver" /\ lock' = "none" /\ rxBeforeEnd' \in 0 .. MaxSeq - 1
      /\ rxPkt' \in [n : Nat, fmt : {"BAR", "NONE"}]
      /\ UNCHANGED <<missTimeout, rxMissing, mainPc, agreement, fgIsWaitingForPktWithSsn,
           u4SeqNo, fgIsAmsduDuplicated, ring, air, host>>
  BY Numbering DEF RxAheadEnds, LoopFrame, NoPart
<1>5. TypeOK'
  <2>1. SeqTypes'
    BY <1>0, <1>1, <1>2, <1>3, <1>4 DEF TypeOK, SeqTypes, agreement, air, host
  <2>2. FlagTypes'
    BY <1>0, <1>1, <1>2, <1>3, <1>4 DEF TypeOK, FlagTypes, agreement, air, host
  <2>3. NumberTypes'
    BY <1>0, <1>1, <1>2, <1>3, <1>4 DEF TypeOK, NumberTypes, agreement, air, host
  <2> QED
    BY <2>1, <2>2, <2>3 DEF TypeOK, SeqTypes, FlagTypes, NumberTypes
<1>6. LockIsHeld' /\ WindowIsAgreed' /\ InsertsParts'
  BY <1>0, <1>1, <1>4 DEF IInv, LockIsHeld, WindowIsAgreed, InsertsParts
<1> QED
  BY <1>5, <1>6 DEF IInv

LEMMA RxDeliverPreserves ==
  ASSUME IInv, RxDeliver
  PROVE  IInv'
<1>0. TypeOK /\ rxPc = "deliver"
  BY DEF IInv, RxDeliver
<1>1. hostLast' \in Nat /\ late' \in BOOLEAN /\ passed' \in BOOLEAN
  <2>1. rxOut \in Seq(Parts) /\ HandToHost(rxOut)
    BY <1>0 DEF RxDeliver, TypeOK
  <2> QED
    BY <1>0, <2>1, HandToHostTyped
<1>2. /\ rxOut' \in Seq(Parts) /\ rxPc' = "idle"
      /\ UNCHANGED <<agreement, window, rReOrderQue, drops, u4SeqNo, amsdu, bubble,
           missTimeout, lock, rxPkt, rxMissing, rxBeforeEnd, mainVars, ring, air,
           lastOut, raced>>
  BY DEF RxDeliver
<1>3. TypeOK'
  <2>1. SeqTypes'
    BY <1>0, <1>1, <1>2 DEF TypeOK, SeqTypes, agreement, window, drops, amsdu, bubble, mainVars, air
  <2>2. FlagTypes'
    BY <1>0, <1>1, <1>2 DEF TypeOK, FlagTypes, agreement, window, drops, amsdu, bubble, mainVars, air
  <2>3. NumberTypes'
    BY <1>0, <1>1, <1>2 DEF TypeOK, NumberTypes, agreement, window, drops, amsdu, bubble, mainVars, air
  <2> QED
    BY <2>1, <2>2, <2>3 DEF TypeOK, SeqTypes, FlagTypes, NumberTypes
<1>4. LockIsHeld' /\ WindowIsAgreed' /\ InsertsParts'
  BY <1>0, <1>2 DEF IInv, LockIsHeld, WindowIsAgreed, InsertsParts, window, mainVars
<1> QED
  BY <1>3, <1>4 DEF IInv

-----------------------------------------------------------------------------
(* The steps of main_thread.                                               *)

LEMMA BubbleTimeoutPreserves ==
  ASSUME IInv, BubbleTimeout
  PROVE  IInv'
<1>0. TypeOK /\ mainPc = "idle"
  BY DEF IInv, LockIsHeld, BubbleTimeout
<1>1. bubbleTimer' \in BOOLEAN /\ mainPc' \in {"idle", "check"}
  BY DEF BubbleTimeout
<1>2. UNCHANGED <<agreement, window, rReOrderQue, drops, u4SeqNo, amsdu,
        fgHasBubble, u2FirstBubbleSn, missTimeout, lock, rxVars, mainOut, ring,
        air, lastOut, host, raced>>
  BY DEF BubbleTimeout
<1>3. TypeOK'
  <2>1. SeqTypes'
    BY <1>0, <1>1, <1>2 DEF TypeOK, SeqTypes, agreement, window, drops, amsdu, rxVars, air, host
  <2>2. FlagTypes'
    BY <1>0, <1>1, <1>2 DEF TypeOK, FlagTypes, agreement, window, drops, amsdu, rxVars, air, host
  <2>3. NumberTypes'
    BY <1>0, <1>1, <1>2 DEF TypeOK, NumberTypes, agreement, window, drops, amsdu, rxVars, air, host
  <2> QED
    BY <2>1, <2>2, <2>3 DEF TypeOK, SeqTypes, FlagTypes, NumberTypes
<1>4. LockIsHeld' /\ WindowIsAgreed' /\ InsertsParts'
  BY <1>0, <1>1, <1>2 DEF IInv, LockIsHeld, WindowIsAgreed, InsertsParts, agreement, window, drops, amsdu, rxVars, air, host
<1> QED
  BY <1>3, <1>4 DEF IInv

LEMMA BubbleFilledPreserves ==
  ASSUME IInv, BubbleFilled
  PROVE  IInv'
<1>0. TypeOK /\ mainPc = "check" /\ lock = "none"
  BY DEF IInv, LockIsHeld, BubbleFilled
<1>1. fgHasBubble' \in BOOLEAN /\ mainPc' = "idle"
  BY DEF BubbleFilled
<1>2. UNCHANGED <<agreement, window, rReOrderQue, drops, u4SeqNo, amsdu,
        u2FirstBubbleSn, bubbleTimer, missTimeout, lock, rxVars, mainOut, ring,
        air, lastOut, host, raced>>
  BY DEF BubbleFilled
<1>3. TypeOK'
  <2>1. SeqTypes'
    BY <1>0, <1>1, <1>2 DEF TypeOK, SeqTypes, agreement, window, drops, amsdu, rxVars, air, host
  <2>2. FlagTypes'
    BY <1>0, <1>1, <1>2 DEF TypeOK, FlagTypes, agreement, window, drops, amsdu, rxVars, air, host
  <2>3. NumberTypes'
    BY <1>0, <1>1, <1>2 DEF TypeOK, NumberTypes, agreement, window, drops, amsdu, rxVars, air, host
  <2> QED
    BY <2>1, <2>2, <2>3 DEF TypeOK, SeqTypes, FlagTypes, NumberTypes
<1>4. LockIsHeld' /\ WindowIsAgreed' /\ InsertsParts'
  BY <1>0, <1>1, <1>2 DEF IInv, LockIsHeld, WindowIsAgreed, InsertsParts, agreement, window, drops, amsdu, rxVars, air, host
<1> QED
  BY <1>3, <1>4 DEF IInv

LEMMA BubbleMovedPreserves ==
  ASSUME IInv, BubbleMoved
  PROVE  IInv'
<1>0. TypeOK /\ mainPc = "check" /\ lock = "none"
  BY DEF IInv, LockIsHeld, BubbleMoved
<1>1. u2FirstBubbleSn' = u2WinStart /\ mainPc' = "restart"
  BY DEF BubbleMoved
<1>2. UNCHANGED <<agreement, window, rReOrderQue, drops, u4SeqNo, amsdu,
        fgHasBubble, bubbleTimer, missTimeout, lock, rxVars, mainOut, ring,
        air, lastOut, host, raced>>
  BY DEF BubbleMoved
<1>3. TypeOK'
  <2>1. SeqTypes'
    BY <1>0, <1>1, <1>2 DEF TypeOK, SeqTypes, agreement, window, drops, amsdu, rxVars, air, host
  <2>2. FlagTypes'
    BY <1>0, <1>1, <1>2 DEF TypeOK, FlagTypes, agreement, window, drops, amsdu, rxVars, air, host
  <2>3. NumberTypes'
    BY <1>0, <1>1, <1>2 DEF TypeOK, NumberTypes, agreement, window, drops, amsdu, rxVars, air, host
  <2> QED
    BY <2>1, <2>2, <2>3 DEF TypeOK, SeqTypes, FlagTypes, NumberTypes
<1>4. LockIsHeld' /\ WindowIsAgreed' /\ InsertsParts'
  BY <1>0, <1>1, <1>2 DEF IInv, LockIsHeld, WindowIsAgreed, InsertsParts, agreement, window, drops, amsdu, rxVars, air, host
<1> QED
  BY <1>3, <1>4 DEF IInv

LEMMA RestartTimerPreserves ==
  ASSUME IInv, RestartTimer
  PROVE  IInv'
<1>0. TypeOK /\ mainPc = "restart"
  BY DEF IInv, LockIsHeld, RestartTimer
<1>1. bubbleTimer' \in BOOLEAN /\ mainPc' = "miss"
  BY DEF RestartTimer
<1>2. UNCHANGED <<agreement, window, rReOrderQue, drops, u4SeqNo, amsdu,
        fgHasBubble, u2FirstBubbleSn, missTimeout, lock, rxVars, mainOut, ring,
        air, lastOut, host, raced>>
  BY DEF RestartTimer
<1>3. TypeOK'
  <2>1. SeqTypes'
    BY <1>0, <1>1, <1>2 DEF TypeOK, SeqTypes, agreement, window, drops, amsdu, rxVars, air, host
  <2>2. FlagTypes'
    BY <1>0, <1>1, <1>2 DEF TypeOK, FlagTypes, agreement, window, drops, amsdu, rxVars, air, host
  <2>3. NumberTypes'
    BY <1>0, <1>1, <1>2 DEF TypeOK, NumberTypes, agreement, window, drops, amsdu, rxVars, air, host
  <2> QED
    BY <2>1, <2>2, <2>3 DEF TypeOK, SeqTypes, FlagTypes, NumberTypes
<1>4. LockIsHeld' /\ WindowIsAgreed' /\ InsertsParts'
  BY <1>0, <1>1, <1>2 DEF IInv, LockIsHeld, WindowIsAgreed, InsertsParts, agreement, window, drops, amsdu, rxVars, air, host
<1> QED
  BY <1>3, <1>4 DEF IInv

LEMMA BubbleExpiredPreserves ==
  ASSUME IInv, BubbleExpired
  PROVE  IInv'
<1>0. TypeOK /\ mainPc = "check" /\ lock = "none" /\ rReOrderQue # <<>>
  BY DEF IInv, LockIsHeld, BubbleExpired
<1>1. u2WinStart' \in 0 .. MaxSeq - 1 /\ u2WinEnd' \in 0 .. MaxSeq - 1
  BY <1>0, HeadTyped, PartFacts, Numbering DEF BubbleExpired
<1>2. /\ u8LastAmsduSubIdx' \in {"MSDU", "FIRST", "LAST"}
      /\ mainPc' = "flush" /\ lock' = "main"
  BY DEF BubbleExpired
<1>3. UNCHANGED <<agreement, rReOrderQue, fgIsWaitingForPktWithSsn, drops, u4SeqNo,
        fgIsAmsduDuplicated, bubble, missTimeout, rxVars, mainOut, ring, air,
        lastOut, host, raced>>
  BY DEF BubbleExpired
<1>4. TypeOK'
  <2>1. SeqTypes'
    BY <1>0, <1>1, <1>2, <1>3 DEF TypeOK, SeqTypes, agreement, drops, bubble, rxVars, air, host
  <2>2. FlagTypes'
    BY <1>0, <1>1, <1>2, <1>3 DEF TypeOK, FlagTypes, agreement, drops, bubble, rxVars, air, host
  <2>3. NumberTypes'
    BY <1>0, <1>1, <1>2, <1>3 DEF TypeOK, NumberTypes, agreement, drops, bubble, rxVars, air, host
  <2> QED
    BY <2>1, <2>2, <2>3 DEF TypeOK, SeqTypes, FlagTypes, NumberTypes
<1>5. LockIsHeld' /\ WindowIsAgreed' /\ InsertsParts'
  BY <1>0, <1>1, <1>2, <1>3 DEF IInv, LockIsHeld, WindowIsAgreed, InsertsParts, agreement, drops, bubble, rxVars, air, host
<1> QED
  BY <1>4, <1>5 DEF IInv

LEMMA FlushPopPreserves ==
  ASSUME IInv, FlushPop
  PROVE  IInv'
<1>0. TypeOK /\ mainPc = "flush" /\ lock = "main"
  BY DEF IInv, LockIsHeld, FlushPop
<1>1. /\ rReOrderQue' \in Seq(Parts) /\ rxOut' \in Seq(Parts)
      /\ mainOut' \in Seq(Parts) /\ lastOut' \in Nat /\ raced' \in BOOLEAN
      /\ u2WinStart' \in 0 .. MaxSeq - 1
      /\ u8LastAmsduSubIdx' \in {"MSDU", "FIRST", "LAST"}
      /\ UNCHANGED bubble /\ rxMissing' = rxMissing
  BY <1>0, PopAheadTyped DEF FlushPop
<1>2. UNCHANGED <<u2WinEnd, drops, missTimeout, lock, rxPc, rxPkt, rxMissing, rxBeforeEnd, mainPc,
        agreement, fgIsWaitingForPktWithSsn, u4SeqNo, fgIsAmsduDuplicated, ring, air, host>>
  BY DEF FlushPop, LoopFrame
<1>3. TypeOK'
  <2>1. SeqTypes'
    BY <1>0, <1>1, <1>2 DEF TypeOK, SeqTypes, agreement, drops, bubble, air, host
  <2>2. FlagTypes'
    BY <1>0, <1>1, <1>2 DEF TypeOK, FlagTypes, agreement, drops, bubble, air, host
  <2>3. NumberTypes'
    BY <1>0, <1>1, <1>2 DEF TypeOK, NumberTypes, agreement, drops, bubble, air, host
  <2> QED
    BY <2>1, <2>2, <2>3 DEF TypeOK, SeqTypes, FlagTypes, NumberTypes
<1>4. LockIsHeld' /\ WindowIsAgreed' /\ InsertsParts'
  BY <1>0, <1>1, <1>2 DEF IInv, LockIsHeld, WindowIsAgreed, InsertsParts, agreement, drops, bubble, air, host
<1> QED
  BY <1>3, <1>4 DEF IInv

LEMMA FlushEndsPreserves ==
  ASSUME IInv, FlushEnds
  PROVE  IInv'
<1>0. TypeOK /\ mainPc = "flush" /\ lock = "main"
  BY DEF IInv, LockIsHeld, FlushEnds
<1>1. LoopEnds(HeadIsAhead)
  BY DEF FlushEnds
<1>2. /\ rReOrderQue' = rReOrderQue /\ rxOut' = rxOut /\ mainOut' = mainOut
      /\ lastOut' = lastOut /\ raced' = raced
      /\ u2WinStart' \in 0 .. MaxSeq - 1 /\ u2WinEnd' \in 0 .. MaxSeq - 1
      /\ u2WinEnd' = WinEnd(u2WinStart')
      /\ u8LastAmsduSubIdx' \in {"MSDU", "FIRST", "LAST"}
  BY <1>0, <1>1, LoopEndsTyped
<1>3. fgHasBubble' \in BOOLEAN /\ mainPc' = "deliver" /\ lock' = "none"
  BY DEF FlushEnds
<1>4. UNCHANGED <<u2FirstBubbleSn, bubbleTimer, drops, missTimeout, rxPc, rxPkt, rxMissing, rxBeforeEnd,
        agreement, fgIsWaitingForPktWithSsn, u4SeqNo, fgIsAmsduDuplicated, ring, air, host>>
  BY DEF FlushEnds, LoopFrame
<1>5. TypeOK'
  <2>1. SeqTypes'
    BY <1>0, <1>1, <1>2, <1>3, <1>4 DEF TypeOK, SeqTypes, agreement, drops, air, host
  <2>2. FlagTypes'
    BY <1>0, <1>1, <1>2, <1>3, <1>4 DEF TypeOK, FlagTypes, agreement, drops, air, host
  <2>3. NumberTypes'
    BY <1>0, <1>1, <1>2, <1>3, <1>4 DEF TypeOK, NumberTypes, agreement, drops, air, host
  <2> QED
    BY <2>1, <2>2, <2>3 DEF TypeOK, SeqTypes, FlagTypes, NumberTypes
<1>6. LockIsHeld' /\ WindowIsAgreed' /\ InsertsParts'
  BY <1>0, <1>1, <1>2, <1>3, <1>4 DEF IInv, LockIsHeld, WindowIsAgreed, InsertsParts, agreement, drops, air, host
<1> QED
  BY <1>5, <1>6 DEF IInv

LEMMA FlushDeliverPreserves ==
  ASSUME IInv, FlushDeliver
  PROVE  IInv'
<1>0. TypeOK /\ mainPc = "deliver"
  BY DEF IInv, LockIsHeld, FlushDeliver
<1>1. hostLast' \in Nat /\ late' \in BOOLEAN /\ passed' \in BOOLEAN
  BY <1>0, HandToHostTyped DEF FlushDeliver, TypeOK
<1>2. mainOut' = <<>> /\ mainPc' = "miss"
  BY DEF FlushDeliver
<1>3. UNCHANGED <<agreement, window, rReOrderQue, drops, u4SeqNo, amsdu, bubble,
        missTimeout, lock, rxVars, ring, air, lastOut, raced>>
  BY DEF FlushDeliver
<1>4. TypeOK'
  <2>1. SeqTypes'
    BY <1>0, <1>1, <1>2, <1>3 DEF TypeOK, SeqTypes, agreement, window, drops, amsdu, bubble, rxVars, air
  <2>2. FlagTypes'
    BY <1>0, <1>1, <1>2, <1>3 DEF TypeOK, FlagTypes, agreement, window, drops, amsdu, bubble, rxVars, air
  <2>3. NumberTypes'
    BY <1>0, <1>1, <1>2, <1>3 DEF TypeOK, NumberTypes, agreement, window, drops, amsdu, bubble, rxVars, air
  <2> QED
    BY <2>1, <2>2, <2>3 DEF TypeOK, SeqTypes, FlagTypes, NumberTypes
<1>5. LockIsHeld' /\ WindowIsAgreed' /\ InsertsParts'
  BY <1>0, <1>1, <1>2, <1>3 DEF IInv, LockIsHeld, WindowIsAgreed, InsertsParts, agreement, window, drops, amsdu, bubble, rxVars, air
<1> QED
  BY <1>4, <1>5 DEF IInv

LEMMA ResetMissTimeoutPreserves ==
  ASSUME IInv, ResetMissTimeout
  PROVE  IInv'
<1>0. TypeOK /\ mainPc = "miss"
  BY DEF IInv, LockIsHeld, ResetMissTimeout
<1>1. missTimeout' \in {"0", "set"} /\ mainPc' = "idle"
  BY DEF ResetMissTimeout
<1>2. UNCHANGED <<agreement, window, rReOrderQue, drops, u4SeqNo, amsdu, bubble,
        lock, rxVars, mainOut, ring, air, lastOut, host, raced>>
  BY DEF ResetMissTimeout
<1>3. TypeOK'
  <2>1. SeqTypes'
    BY <1>0, <1>1, <1>2 DEF TypeOK, SeqTypes, agreement, window, drops, amsdu, bubble, rxVars, air, host
  <2>2. FlagTypes'
    BY <1>0, <1>1, <1>2 DEF TypeOK, FlagTypes, agreement, window, drops, amsdu, bubble, rxVars, air, host
  <2>3. NumberTypes'
    BY <1>0, <1>1, <1>2 DEF TypeOK, NumberTypes, agreement, window, drops, amsdu, bubble, rxVars, air, host
  <2> QED
    BY <2>1, <2>2, <2>3 DEF TypeOK, SeqTypes, FlagTypes, NumberTypes
<1>4. LockIsHeld' /\ WindowIsAgreed' /\ InsertsParts'
  BY <1>0, <1>1, <1>2 DEF IInv, LockIsHeld, WindowIsAgreed, InsertsParts, agreement, window, drops, amsdu, bubble, rxVars, air, host
<1> QED
  BY <1>3, <1>4 DEF IInv

LEMMA MissGetsOldPreserves ==
  ASSUME IInv, MissGetsOld
  PROVE  IInv'
<1>0. TypeOK
  BY DEF IInv, LockIsHeld, MissGetsOld
<1>1. missTimeout' = "old"
  BY DEF MissGetsOld
<1>2. UNCHANGED <<agreement, window, rReOrderQue, drops, u4SeqNo, amsdu, bubble,
        lock, rxVars, mainVars, ring, air, lastOut, host, raced>>
  BY DEF MissGetsOld
<1>3. TypeOK'
  <2>1. SeqTypes'
    BY <1>0, <1>1, <1>2 DEF TypeOK, SeqTypes, agreement, window, drops, amsdu, bubble, rxVars, air, host, mainVars
  <2>2. FlagTypes'
    BY <1>0, <1>1, <1>2 DEF TypeOK, FlagTypes, agreement, window, drops, amsdu, bubble, rxVars, air, host, mainVars
  <2>3. NumberTypes'
    BY <1>0, <1>1, <1>2 DEF TypeOK, NumberTypes, agreement, window, drops, amsdu, bubble, rxVars, air, host, mainVars
  <2> QED
    BY <2>1, <2>2, <2>3 DEF TypeOK, SeqTypes, FlagTypes, NumberTypes
<1>4. LockIsHeld' /\ WindowIsAgreed' /\ InsertsParts'
  BY <1>0, <1>1, <1>2 DEF IInv, LockIsHeld, WindowIsAgreed, InsertsParts, agreement, window, drops, amsdu, bubble, rxVars, air, host, mainVars
<1> QED
  BY <1>3, <1>4 DEF IInv

LEMMA qmDelRxBaEntryPreserves ==
  ASSUME IInv, qmDelRxBaEntry
  PROVE  IInv'
<1>0. TypeOK /\ mainPc = "idle" /\ lock = "none"
  BY DEF IInv, LockIsHeld, qmDelRxBaEntry
<1>1. mainOut' \in Seq(Parts) /\ raced' \in BOOLEAN
  BY <1>0 DEF qmDelRxBaEntry, TypeOK
<1>2. rReOrderQue' = <<>> /\ lastOut' = 0 /\ mainPc' = "stop"
  BY DEF qmDelRxBaEntry
<1>3. UNCHANGED <<agreement, window, drops, u4SeqNo, amsdu, bubble, missTimeout,
        lock, rxVars, ring, air, host>>
  BY DEF qmDelRxBaEntry
<1>4. TypeOK'
  <2>1. SeqTypes'
    BY <1>0, <1>1, <1>2, <1>3 DEF TypeOK, SeqTypes, agreement, window, drops, amsdu, bubble, rxVars, air, host
  <2>2. FlagTypes'
    BY <1>0, <1>1, <1>2, <1>3 DEF TypeOK, FlagTypes, agreement, window, drops, amsdu, bubble, rxVars, air, host
  <2>3. NumberTypes'
    BY <1>0, <1>1, <1>2, <1>3 DEF TypeOK, NumberTypes, agreement, window, drops, amsdu, bubble, rxVars, air, host
  <2> QED
    BY <2>1, <2>2, <2>3 DEF TypeOK, SeqTypes, FlagTypes, NumberTypes
<1>5. LockIsHeld' /\ WindowIsAgreed' /\ InsertsParts'
  BY <1>0, <1>1, <1>2, <1>3 DEF IInv, LockIsHeld, WindowIsAgreed, InsertsParts, agreement, window, drops, amsdu, bubble, rxVars, air, host
<1> QED
  BY <1>4, <1>5 DEF IInv

LEMMA DelStopsTimerPreserves ==
  ASSUME IInv, DelStopsTimer
  PROVE  IInv'
<1>0. TypeOK /\ mainPc = "stop"
  BY DEF IInv, LockIsHeld, DelStopsTimer
<1>1. hostLast' \in Nat /\ late' \in BOOLEAN /\ passed' \in BOOLEAN
  BY <1>0, HandToHostTyped DEF DelStopsTimer, TypeOK
<1>2. mainOut' = <<>> /\ mainPc' = "forget"
  BY DEF DelStopsTimer
<1>3. fgHasBubble' \in BOOLEAN /\ bubbleTimer' \in BOOLEAN
  BY <1>0 DEF DelStopsTimer, TypeOK
<1>4. UNCHANGED <<agreement, window, rReOrderQue, drops, u4SeqNo, amsdu,
        u2FirstBubbleSn, missTimeout, lock, rxVars, ring, air, lastOut, raced>>
  BY DEF DelStopsTimer
<1>5. TypeOK'
  <2>1. SeqTypes'
    BY <1>0, <1>1, <1>2, <1>3, <1>4 DEF TypeOK, SeqTypes, agreement, window, drops, amsdu, rxVars, air
  <2>2. FlagTypes'
    BY <1>0, <1>1, <1>2, <1>3, <1>4 DEF TypeOK, FlagTypes, agreement, window, drops, amsdu, rxVars, air
  <2>3. NumberTypes'
    BY <1>0, <1>1, <1>2, <1>3, <1>4 DEF TypeOK, NumberTypes, agreement, window, drops, amsdu, rxVars, air
  <2> QED
    BY <2>1, <2>2, <2>3 DEF TypeOK, SeqTypes, FlagTypes, NumberTypes
<1>6. LockIsHeld' /\ WindowIsAgreed' /\ InsertsParts'
  BY <1>0, <1>1, <1>2, <1>3, <1>4 DEF IInv, LockIsHeld, WindowIsAgreed, InsertsParts, agreement, window, drops, amsdu, rxVars, air
<1> QED
  BY <1>5, <1>6 DEF IInv

LEMMA DelForgetsPreserves ==
  ASSUME IInv, DelForgets
  PROVE  IInv'
<1>0. TypeOK /\ mainPc = "forget"
  BY DEF IInv, LockIsHeld, DelForgets
<1>1. /\ fgIsValid' \in BOOLEAN /\ refTbl' \in BOOLEAN /\ mainPc' = "idle"
      /\ hostLast' = 0
  BY DEF DelForgets
<1>2. UNCHANGED <<fgFirstSnToWinStart, agreements, suspends, window, rReOrderQue,
        drops, u4SeqNo, amsdu, bubble, missTimeout, lock, rxVars, mainOut, ring,
        air, lastOut, late, passed, raced>>
  BY DEF DelForgets
<1>3. TypeOK'
  <2>1. SeqTypes'
    BY <1>0, <1>1, <1>2 DEF TypeOK, SeqTypes, window, drops, amsdu, bubble, rxVars, air
  <2>2. FlagTypes'
    BY <1>0, <1>1, <1>2 DEF TypeOK, FlagTypes, window, drops, amsdu, bubble, rxVars, air
  <2>3. NumberTypes'
    BY <1>0, <1>1, <1>2 DEF TypeOK, NumberTypes, window, drops, amsdu, bubble, rxVars, air
  <2> QED
    BY <2>1, <2>2, <2>3 DEF TypeOK, SeqTypes, FlagTypes, NumberTypes
<1>4. LockIsHeld' /\ WindowIsAgreed' /\ InsertsParts'
  BY <1>0, <1>1, <1>2 DEF IInv, LockIsHeld, WindowIsAgreed, InsertsParts, window, drops, amsdu, bubble, rxVars, air
<1> QED
  BY <1>3, <1>4 DEF IInv

LEMMA qmAddRxBaEntryPreserves ==
  ASSUME IInv, qmAddRxBaEntry
  PROVE  IInv'
<1>0. TypeOK /\ mainPc = "idle"
  BY DEF IInv, LockIsHeld, qmAddRxBaEntry
<1>1. /\ u2WinStart' \in 0 .. MaxSeq - 1 /\ u2WinEnd' \in 0 .. MaxSeq - 1
      /\ u2WinEnd' = WinEnd(u2WinStart')
  BY <1>0, Numbering DEF qmAddRxBaEntry, TypeOK
<1>2. agreements' \in 0 .. MaxAgreements
  BY <1>0, ConstantsAssumption DEF qmAddRxBaEntry, TypeOK
<1>3. /\ fgIsValid' \in BOOLEAN /\ refTbl' \in BOOLEAN /\ fgIsWaitingForPktWithSsn' \in BOOLEAN
      /\ u8LastAmsduSubIdx' = "MSDU" /\ fgIsAmsduDuplicated' \in BOOLEAN
      /\ fgHasBubble' \in BOOLEAN /\ missTimeout' = "0"
  BY DEF qmAddRxBaEntry
<1>4. UNCHANGED <<fgFirstSnToWinStart, suspends, rReOrderQue, drops, u4SeqNo,
        u2FirstBubbleSn, bubbleTimer, lock, rxVars, mainVars, ring, air, lastOut,
        host, raced>>
  BY DEF qmAddRxBaEntry
<1>5. TypeOK'
  <2>1. SeqTypes'
    BY <1>0, <1>1, <1>2, <1>3, <1>4 DEF TypeOK, SeqTypes, drops, rxVars, mainVars, air, host
  <2>2. FlagTypes'
    BY <1>0, <1>1, <1>2, <1>3, <1>4 DEF TypeOK, FlagTypes, drops, rxVars, mainVars, air, host
  <2>3. NumberTypes'
    BY <1>0, <1>1, <1>2, <1>3, <1>4 DEF TypeOK, NumberTypes, drops, rxVars, mainVars, air, host
  <2> QED
    BY <2>1, <2>2, <2>3 DEF TypeOK, SeqTypes, FlagTypes, NumberTypes
<1>6. LockIsHeld' /\ WindowIsAgreed' /\ InsertsParts'
  BY <1>0, <1>1, <1>2, <1>3, <1>4 DEF IInv, LockIsHeld, WindowIsAgreed, InsertsParts, drops, rxVars, mainVars, air, host
<1> QED
  BY <1>5, <1>6 DEF IInv

LEMMA SuspendPreserves ==
  ASSUME IInv, Suspend
  PROVE  IInv'
<1>0. TypeOK
  BY DEF IInv, LockIsHeld, Suspend
<1>1. suspends' \in 0 .. MaxSuspends
  BY <1>0, ConstantsAssumption DEF Suspend, TypeOK
<1>2. fgFirstSnToWinStart' \in BOOLEAN
  BY DEF Suspend
<1>3. UNCHANGED <<fgIsValid, refTbl, agreements, window, rReOrderQue, drops,
        u4SeqNo, amsdu, bubble, missTimeout, lock, rxVars, mainVars, ring, air,
        lastOut, host, raced>>
  BY DEF Suspend
<1>4. TypeOK'
  <2>1. SeqTypes'
    BY <1>0, <1>1, <1>2, <1>3 DEF TypeOK, SeqTypes, window, drops, amsdu, bubble, rxVars, mainVars, air, host
  <2>2. FlagTypes'
    BY <1>0, <1>1, <1>2, <1>3 DEF TypeOK, FlagTypes, window, drops, amsdu, bubble, rxVars, mainVars, air, host
  <2>3. NumberTypes'
    BY <1>0, <1>1, <1>2, <1>3 DEF TypeOK, NumberTypes, window, drops, amsdu, bubble, rxVars, mainVars, air, host
  <2> QED
    BY <2>1, <2>2, <2>3 DEF TypeOK, SeqTypes, FlagTypes, NumberTypes
<1>5. LockIsHeld' /\ WindowIsAgreed' /\ InsertsParts'
  BY <1>0, <1>1, <1>2, <1>3 DEF IInv, LockIsHeld, WindowIsAgreed, InsertsParts, window, drops, amsdu, bubble, rxVars, mainVars, air, host
<1> QED
  BY <1>4, <1>5 DEF IInv

LEMMA NextPreserves ==
  ASSUME IInv, [Next]_vars
  PROVE  IInv'
<1>1. CASE Rx
  BY <1>1, RxReceivePreserves, RxFallsWithinPreserves, RxFallsAheadPreserves,
     RxFallsBehindPreserves, RxBarPreserves, RxPopWithinPreserves,
     RxWithinEndsPreserves, RxPopAheadPreserves, RxAheadEndsPreserves,
     RxDeliverPreserves
  DEF Rx
<1>2. CASE Main
  BY <1>2, BubbleTimeoutPreserves, BubbleFilledPreserves, BubbleMovedPreserves,
     RestartTimerPreserves, BubbleExpiredPreserves, FlushPopPreserves,
     FlushEndsPreserves, FlushDeliverPreserves, ResetMissTimeoutPreserves,
     DelStopsTimerPreserves, DelForgetsPreserves
  DEF Main
<1>3. CASE UNCHANGED vars
  BY <1>3 DEF IInv, TypeOK, LockIsHeld, WindowIsAgreed, InsertsParts, vars,
     agreement, window, drops, amsdu, bubble, rxVars, mainVars, air, host
<1> QED
  BY <1>1, <1>2, <1>3, AirPreserves, MissGetsOldPreserves, qmDelRxBaEntryPreserves,
     qmAddRxBaEntryPreserves, SuspendPreserves
  DEF Next

LEMMA Invariance == Spec => []IInv
BY InitIInv, NextPreserves, PTL DEF Spec

\* Every variable keeps its type, whatever the traffic, the timeouts and the
\* agreements do.
THEOREM TypeCorrect == Spec => []TypeOK
<1>1. IInv => TypeOK
  BY DEF IInv
<1> QED
  BY <1>1, Invariance, PTL

\* Whenever nobody is in a critical section the window is as wide as the
\* agreement says: no path through the two loops, a BAR, the timeout or a
\* suspend leaves u2WinEnd behind.
THEOREM WindowKeepsItsWidth == Spec => []WindowIsAgreed
<1>1. IInv => WindowIsAgreed
  BY DEF IInv
<1> QED
  BY <1>1, Invariance, PTL

-----------------------------------------------------------------------------
(* Agreements that are not deleted while the tasklet is at work: what they *)
(* leave behind, and that a marked bubble is timed.                        *)

EndsClean ==
  /\ refTbl = fgIsValid
  /\ ~fgIsValid =>
       rxPc = "idle" /\ mainPc = "idle" /\ rReOrderQue = <<>> /\ ~fgHasBubble
  /\ mainPc \in {"stop", "forget"} => rxPc = "idle" /\ rReOrderQue = <<>>
  /\ mainPc = "forget" => ~fgHasBubble

CInv == TypeOK /\ LockIsHeld /\ EndsClean /\ BubbleIsTimed

\* A loop that ends leaves the queue as it is, starts the timer with the mark
\* and touches nothing of main_thread.
LEMMA StartBubbleTimerTimes ==
  ASSUME BubbleIsTimed, mainPc' = mainPc, NEW start,
         UNCHANGED bubble \/ StartBubbleTimer(start)
  PROVE  BubbleIsTimed'
BY DEF BubbleIsTimed, StartBubbleTimer, bubble

LEMMA RxKeepsClean ==
  ASSUME CInv, DelRaces = FALSE, Rx
  PROVE  EndsClean' /\ BubbleIsTimed'
<1>1. /\ fgIsValid \in BOOLEAN /\ refTbl \in BOOLEAN /\ EndsClean /\ BubbleIsTimed
      /\ fgHasBubble \in BOOLEAN
  BY DEF CInv, TypeOK
<1>2. UNCHANGED <<fgIsValid, refTbl, mainPc>>
  BY DEF Rx, RxReceive, RxFallsWithin, RxFallsAhead, RxPassesBehind, RxDropsBehind,
     RxFallsBehind, RxBar, RxPopWithin, RxWithinEnds, RxPopAhead, RxAheadEnds, RxDeliver,
     RxLocks, LoopFrame, mainVars, agreement
<1>3. \/ fgIsValid /\ mainPc \notin {"stop", "forget"}
      \/ UNCHANGED <<rxPc, rReOrderQue, bubble>>
  <2>1. CASE rxPc # "idle"
    BY <1>1, <2>1 DEF EndsClean
  <2>2. CASE rxPc = "idle"
    <3>1. RxReceive
      BY <2>2 DEF Rx, RxFallsWithin, RxFallsAhead, RxPassesBehind, RxDropsBehind,
         RxFallsBehind, RxBar, RxPopWithin, RxWithinEnds, RxPopAhead, RxAheadEnds,
         RxDeliver, RxLocks
    <3>2. mainPc \notin {"stop", "forget"} /\ UNCHANGED <<rReOrderQue, bubble>>
      BY <3>1 DEF RxReceive
    <3>3. ~fgIsValid => rxPc' = "idle"
      BY <1>1, <3>1 DEF RxReceive, EndsClean
    <3> QED
      BY <2>2, <3>2, <3>3
  <2> QED
    BY <2>1, <2>2
<1>4. EndsClean'
  BY <1>1, <1>2, <1>3 DEF EndsClean, bubble
<1>5. UNCHANGED bubble \/ StartBubbleTimer(Start0)
  BY DEF Rx, RxReceive, RxFallsWithin, RxFallsAhead, RxPassesBehind, RxDropsBehind,
     RxFallsBehind, RxBar, RxPopWithin, RxWithinEnds, RxPopAhead, PopAhead, TakeNext,
     RxAheadEnds, RxDeliver, RxLocks
<1>6. BubbleIsTimed'
  BY <1>1, <1>2, <1>5, StartBubbleTimerTimes
<1> QED
  BY <1>4, <1>6

LEMMA MainKeepsClean ==
  ASSUME CInv, Main
  PROVE  EndsClean' /\ BubbleIsTimed'
<1>0. /\ fgIsValid \in BOOLEAN /\ refTbl \in BOOLEAN /\ fgHasBubble \in BOOLEAN
      /\ EndsClean /\ BubbleIsTimed
  BY DEF CInv, TypeOK
<1>1. CASE BubbleTimeout
  BY <1>0, <1>1 DEF BubbleTimeout, EndsClean, BubbleIsTimed, agreement, rxVars
<1>2. CASE BubbleFilled
  BY <1>0, <1>2 DEF BubbleFilled, EndsClean, BubbleIsTimed, agreement, rxVars
<1>3. CASE BubbleMoved
  BY <1>0, <1>3 DEF BubbleMoved, EndsClean, BubbleIsTimed, agreement, rxVars
<1>4. CASE RestartTimer
  BY <1>0, <1>4 DEF RestartTimer, EndsClean, BubbleIsTimed, agreement, rxVars
<1>5. CASE BubbleExpired
  BY <1>0, <1>5 DEF BubbleExpired, EndsClean, BubbleIsTimed, agreement, rxVars, bubble
<1>6. CASE FlushPop
  BY <1>0, <1>6 DEF FlushPop, EndsClean, BubbleIsTimed, agreement, bubble, LoopFrame, PopAhead, TakeNext
<1>7. CASE FlushEnds
  BY <1>0, <1>7 DEF FlushEnds, EndsClean, BubbleIsTimed, agreement, LoopFrame
<1>8. CASE FlushDeliver
  BY <1>0, <1>8 DEF FlushDeliver, EndsClean, BubbleIsTimed, agreement, bubble, rxVars
<1>9. CASE ResetMissTimeout
  BY <1>0, <1>9 DEF ResetMissTimeout, EndsClean, BubbleIsTimed, agreement, bubble, rxVars
<1>10. CASE DelStopsTimer
  BY <1>0, <1>10 DEF DelStopsTimer, EndsClean, BubbleIsTimed, agreement, rxVars
<1>11. CASE DelForgets
  BY <1>0, <1>11 DEF DelForgets, EndsClean, BubbleIsTimed, bubble, rxVars
<1> QED
  BY <1>1, <1>2, <1>3, <1>4, <1>5, <1>6, <1>7, <1>8, <1>9, <1>10, <1>11 DEF Main

LEMMA CleanInvariance ==
  ASSUME DelRaces = FALSE
  PROVE  Spec => [](EndsClean /\ BubbleIsTimed)
<1>1. Init => EndsClean /\ BubbleIsTimed
  BY DEF Init, EndsClean, BubbleIsTimed
<1>2. EndsClean /\ BubbleIsTimed /\ IInv /\ [Next]_vars => EndsClean' /\ BubbleIsTimed'
  <2> SUFFICES ASSUME EndsClean, BubbleIsTimed, IInv, [Next]_vars
               PROVE  EndsClean' /\ BubbleIsTimed'
    OBVIOUS
  <2>0. /\ CInv /\ fgIsValid \in BOOLEAN /\ refTbl \in BOOLEAN /\ fgHasBubble \in BOOLEAN
    BY DEF CInv, IInv, TypeOK
  <2>1. CASE Rx
    BY <2>0, <2>1, RxKeepsClean
  <2>2. CASE Main
    BY <2>0, <2>2, MainKeepsClean
  <2>3. CASE Air \/ MissGetsOld \/ Suspend \/ UNCHANGED vars
    <3>1. UNCHANGED <<fgIsValid, refTbl, rxVars, mainVars, rReOrderQue, bubble>>
      BY <2>3 DEF Air, Send, Acked, GiveUp, ApMovesTo, SendBar, SendStray, MissGetsOld,
         Suspend, vars, agreement
    <3> QED
      BY <3>1 DEF EndsClean, BubbleIsTimed, rxVars, mainVars, bubble
  <2>4. CASE qmDelRxBaEntry
    <3>1. refTbl /\ mainPc = "idle" /\ (DelRaces \/ rxPc = "idle")
      BY <2>4, Zenon DEF qmDelRxBaEntry
    <3>2. refTbl = TRUE /\ fgIsValid = TRUE /\ rxPc = "idle"
      BY <2>0, <3>1 DEF EndsClean
    <3>3. /\ rReOrderQue' = <<>> /\ mainPc' = "stop"
          /\ UNCHANGED <<fgIsValid, refTbl, rxPc, fgHasBubble, bubbleTimer>>
      BY <2>4 DEF qmDelRxBaEntry, agreement, rxVars, bubble
    <3> QED
      BY <3>2, <3>3 DEF EndsClean, BubbleIsTimed
  <2>5. CASE qmAddRxBaEntry
    BY <2>0, <2>5
    DEF qmAddRxBaEntry, EndsClean, BubbleIsTimed, rxVars, mainVars
  <2> QED
    BY <2>1, <2>2, <2>3, <2>4, <2>5 DEF Next
<1> QED
  BY <1>1, <1>2, Invariance, PTL DEF Spec

\* A bubble that is marked is timed, whatever the two threads do, for every
\* width of the numbers and any traffic: no mark keeps the timer from starting.
THEOREM MarkedBubbleIsTimed ==
  ASSUME DelRaces = FALSE
  PROVE  Spec => []BubbleIsTimed
BY CleanInvariance, PTL

=============================================================================
