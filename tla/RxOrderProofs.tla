---------------------------- MODULE RxOrderProofs ----------------------------
(***************************************************************************)
(* Theorems about RxReorder: the queue of an agreement is in order, inside *)
(* of its window, and never forgotten; it implements ReorderBuffer; the    *)
(* host gets its frames in order; and none is dropped as too old before its *)
(* time: however often the 12-bit numbers wrap, as long as the access point *)
(* and the driver are less than a quarter of the circle of numbers apart.  *)
(***************************************************************************)
EXTENDS RxReorderProofs

-----------------------------------------------------------------------------
(* Numbers that never wrap, and what the code's comparisons make of them.  *)

LEMMA ModIs ==
  ASSUME NEW x \in Nat, NEW q \in Nat, NEW t \in Nat,
         x = MaxSeq * q + t, t < MaxSeq
  PROVE  x % MaxSeq = t
<1> DEFINE q2 == x \div MaxSeq
           t2 == x % MaxSeq
<1>1. MaxSeq \in Nat /\ MaxSeq > 0
  BY Sizes
<1>2. q2 \in Nat /\ t2 \in Nat /\ t2 < MaxSeq /\ x = MaxSeq * q2 + t2
  BY <1>1
<1> HIDE DEF q2, t2
<1>3. MaxSeq * q + t = MaxSeq * q2 + t2
  BY <1>2
<1>4. CASE q = q2
  <2>1. t = t2
    BY <1>1, <1>2, <1>3, <1>4
  <2> QED
    BY <2>1 DEF t2
<1>5. CASE q < q2
  <2> DEFINE k == q2 - q
  <2>1. k \in Nat /\ k >= 1 /\ q2 = q + k
    BY <1>2, <1>5
  <2> HIDE DEF k
  <2> DEFINE a == MaxSeq * q
             b == MaxSeq * k
  <2>2. MaxSeq * q2 = a + b /\ a \in Nat /\ b \in Nat /\ b >= MaxSeq
    BY <1>1, <2>1
  <2>3. a + t = a + b + t2
    BY <1>3, <2>2
  <2> HIDE DEF a, b
  <2> QED
    BY <1>1, <1>2, <2>2, <2>3
<1>6. CASE q > q2
  <2> DEFINE k == q - q2
  <2>1. k \in Nat /\ k >= 1 /\ q = q2 + k
    BY <1>2, <1>6
  <2> HIDE DEF k
  <2> DEFINE a == MaxSeq * q2
             b == MaxSeq * k
  <2>2. MaxSeq * q = a + b /\ a \in Nat /\ b \in Nat /\ b >= MaxSeq
    BY <1>1, <1>2, <2>1
  <2>3. a + b + t = a + t2
    BY <1>3, <2>2
  <2> HIDE DEF a, b
  <2> QED
    BY <1>1, <1>2, <2>2, <2>3
<1> QED
  BY <1>2, <1>4, <1>5, <1>6

(* The distance to a number that is less than the circle ahead.            *)
LEMMA DistAhead ==
  ASSUME NEW x \in Nat, NEW k \in Nat, k < MaxSeq
  PROVE  /\ Dist(x % MaxSeq, (x + k) % MaxSeq) = k
         /\ Advance(x % MaxSeq, k) = (x + k) % MaxSeq
<1> DEFINE q == x \div MaxSeq
           r == x % MaxSeq
           y == x + k
<1>1. /\ MaxSeq \in Nat /\ q \in Nat /\ r \in Nat /\ r < MaxSeq
      /\ x = MaxSeq * q + r
  BY Sizes
<1> HIDE DEF q, r
<1>2. y \in Nat
  OBVIOUS
<1>3. CASE r + k < MaxSeq
  <2>1. y = MaxSeq * q + (r + k)
    BY <1>1
  <2>2. y % MaxSeq = r + k
    <3> DEFINE t == r + k
    <3>1. t \in Nat /\ t < MaxSeq /\ y = MaxSeq * q + t
      BY <1>1, <1>3, <2>1
    <3> HIDE DEF t, y
    <3>2. y % MaxSeq = t
      BY <1>1, <1>2, <3>1, ModIs
    <3> QED
      BY <3>2 DEF t
  <2>3. r \in Numbers /\ y % MaxSeq \in Numbers
    BY <1>1, <1>3, <2>2 DEF Numbers
  <2> HIDE DEF y
  <2>4. Dist(r, y % MaxSeq) = k
    BY <1>1, <1>3, <2>2, <2>3, DistIs
  <2>5. Advance(r, k) = y % MaxSeq
    BY <1>1, <1>3, <2>2, <2>3, AdvanceIs
  <2> QED
    BY <2>4, <2>5 DEF r, y
<1>4. CASE r + k >= MaxSeq
  <2> DEFINE t == r + k - MaxSeq
             q1 == q + 1
  <2>1. /\ t \in Nat /\ t < MaxSeq /\ t < r + 1 /\ q1 \in Nat
        /\ MaxSeq * q1 = MaxSeq * q + MaxSeq
    BY <1>1, <1>4
  <2>2. y = MaxSeq * q1 + t
    <3> HIDE DEF q1
    <3> QED
      BY <1>1, <2>1
  <2>3. t = r + k - MaxSeq
    OBVIOUS
  <2> HIDE DEF t, q1, y
  <2>4. y % MaxSeq = t
    BY <1>1, <1>2, <2>1, <2>2, ModIs
  <2>5. r \in Numbers /\ t \in Numbers
    BY <1>1, <2>1 DEF Numbers
  <2>6. Dist(r, t) = k
    BY <1>1, <2>1, <2>3, <2>5, DistIs
  <2>7. Advance(r, k) = t
    BY <1>1, <1>4, <2>3, <2>5, AdvanceIs
  <2> QED
    BY <2>4, <2>6, <2>7 DEF r, y
<1> QED
  BY <1>1, <1>3, <1>4

(* The distance to a number that is behind.                                *)
LEMMA DistBehind ==
  ASSUME NEW x \in Nat, NEW k \in Nat, k > 0, k < MaxSeq
  PROVE  Dist((x + k) % MaxSeq, x % MaxSeq) = MaxSeq - k
<1> DEFINE a == x % MaxSeq
           b == (x + k) % MaxSeq
<1>1. a \in Numbers /\ b \in Numbers
  BY ModInNumbers
<1>2. Dist(a, b) = k
  BY DistAhead
<1> HIDE DEF a, b
<1>3. Dist(b, a) = MaxSeq - k
  BY <1>1, <1>2, DistIs, Sizes DEF Numbers
<1> QED
  BY <1>3 DEF a, b

Close(x, y) == x - y < Half /\ y - x < Half

LEMMA Compare ==
  ASSUME NEW x \in Nat, NEW y \in Nat, Close(x, y)
  PROVE  /\ x % MaxSeq = y % MaxSeq <=> x = y
         /\ qmCompareSnIsLessThan(x % MaxSeq, y % MaxSeq) <=> x < y
<1> DEFINE a == x % MaxSeq
           b == y % MaxSeq
<1>1. a \in Numbers /\ b \in Numbers
  BY ModInNumbers
<1>2. MaxSeq \in Nat /\ Half \in Nat /\ MaxSeq = 2 * Half /\ Half >= 2
  BY Sizes
<1>3. Dist(a, b) = IF x <= y THEN y - x ELSE y - x + MaxSeq
  <2>1. CASE x <= y
    <3> DEFINE k == y - x
    <3>1. k \in Nat /\ k < MaxSeq /\ x + k = y
      BY <1>2, <2>1 DEF Close
    <3> HIDE DEF k
    <3>2. Dist(a, b) = k
      BY <3>1, DistAhead
    <3> QED
      BY <2>1, <3>1, <3>2
  <2>2. CASE x > y
    <3> DEFINE k == x - y
    <3>1. k \in Nat /\ k > 0 /\ k < MaxSeq /\ y + k = x
      BY <1>2, <2>2 DEF Close
    <3> HIDE DEF k
    <3>2. Dist(a, b) = MaxSeq - k
      BY <3>1, DistBehind
    <3> QED
      BY <1>2, <2>2, <3>1, <3>2
  <2> QED
    BY <2>1, <2>2
<1>4. Dist(a, b) = IF a <= b THEN b - a ELSE b - a + MaxSeq
  BY <1>1, DistIs
<1>5. a = b => x = y
  <2> HIDE DEF a, b
  <2> QED
    BY <1>1, <1>2, <1>3, <1>4 DEF Close, Numbers
<1>6. qmCompareSnIsLessThan(a, b) <=> Dist(a, b) \in 1 .. Half - 1
  BY <1>1, LessIsBehind
<1>7. Dist(a, b) \in 1 .. Half - 1 <=> x < y
  <2> HIDE DEF a, b
  <2> QED
    BY <1>2, <1>3 DEF Close
<1> QED
  BY <1>5, <1>6, <1>7

LEMMA WindowIs ==
  ASSUME NEW w \in Nat, NEW n \in Nat, Close(n, w)
  PROVE  /\ FallsWithin(n % MaxSeq, w % MaxSeq, WinEnd(w % MaxSeq))
              <=> w <= n /\ n < w + WinSize
         /\ FallsAhead(n % MaxSeq, w % MaxSeq, WinEnd(w % MaxSeq))
              <=> w + WinSize <= n
<1> DEFINE a == w % MaxSeq
           b == n % MaxSeq
<1>1. a \in Numbers /\ b \in Numbers
  BY ModInNumbers
<1>2. /\ MaxSeq \in Nat /\ Half \in Nat /\ MaxSeq = 2 * Half
      /\ WinSize \in Nat /\ WinSize >= 2 /\ WinSize <= Half
  BY Sizes
<1>3. /\ FallsWithin(b, a, WinEnd(a)) <=> Dist(a, b) < WinSize
      /\ FallsAhead(b, a, WinEnd(a)) <=> Dist(a, b) \in WinSize .. Half - 1
  BY <1>1, WithinIsWindow, AheadIsNextHalf
<1>4. CASE w <= n
  <2> DEFINE k == n - w
  <2>1. k \in Nat /\ k < Half /\ k < MaxSeq /\ w + k = n
    BY <1>2, <1>4 DEF Close
  <2> HIDE DEF k
  <2>2. Dist(a, b) = k
    BY <2>1, DistAhead
  <2> HIDE DEF a, b
  <2>3. /\ Dist(a, b) < WinSize <=> w <= n /\ n < w + WinSize
        /\ Dist(a, b) \in WinSize .. Half - 1 <=> w + WinSize <= n
    BY <1>2, <2>1, <2>2
  <2> QED
    BY <1>3, <2>3 DEF a, b
<1>5. CASE w > n
  <2> DEFINE k == w - n
  <2>1. k \in Nat /\ k > 0 /\ k < Half /\ k < MaxSeq /\ n + k = w
    BY <1>2, <1>5 DEF Close
  <2> HIDE DEF k
  <2>2. Dist(a, b) = MaxSeq - k
    BY <2>1, DistBehind
  <2> HIDE DEF a, b
  <2>3. /\ Dist(a, b) < WinSize <=> w <= n /\ n < w + WinSize
        /\ Dist(a, b) \in WinSize .. Half - 1 <=> w + WinSize <= n
    BY <1>2, <2>1, <2>2
  <2> QED
    BY <1>3, <2>3 DEF a, b
<1> QED
  BY <1>4, <1>5

LEMMA AdvanceOne ==
  ASSUME NEW x \in Nat
  PROVE  Advance(x % MaxSeq, 1) = (x + 1) % MaxSeq
<1>1. 1 \in Nat /\ 1 < MaxSeq
  BY Sizes
<1> QED
  BY <1>1, DistAhead

(* Where RxFallsAhead puts the window: its end is the frame.               *)
LEMMA AdvanceBack ==
  ASSUME NEW n \in Nat, n >= WinSize
  PROVE  /\ n - WinSize + 1 \in Nat
         /\ Advance(n % MaxSeq, MaxSeq - WinSize + 1) = (n - WinSize + 1) % MaxSeq
<1> DEFINE y == n - WinSize + 1
           k == WinSize - 1
           a == y % MaxSeq
<1>1. /\ MaxSeq \in Nat /\ y \in Nat /\ k \in Nat /\ k < MaxSeq /\ y + k = n
      /\ k \in 0 .. MaxSeq /\ MaxSeq - k \in 0 .. MaxSeq
      /\ MaxSeq - WinSize + 1 = MaxSeq - k
  BY Sizes
<1> HIDE DEF y, k
<1>2. Advance(a, k) = n % MaxSeq
  BY <1>1, DistAhead
<1>3. a \in Numbers /\ n % MaxSeq \in Numbers
  BY <1>1, ModInNumbers
<1>4. Advance(Advance(a, k), MaxSeq - k) = a
  <2> HIDE DEF a
  <2>1. Advance(a, k) \in Numbers
    BY <1>1, <1>3, AdvanceIs
  <2>2. Advance(a, k) = IF a + k < MaxSeq THEN a + k ELSE a + k - MaxSeq
    BY <1>1, <1>3, AdvanceIs
  <2> DEFINE c == Advance(a, k)
  <2> HIDE DEF c
  <2>3. Advance(c, MaxSeq - k) =
          IF c + (MaxSeq - k) < MaxSeq THEN c + (MaxSeq - k)
          ELSE c + (MaxSeq - k) - MaxSeq
    BY <1>1, <2>1, AdvanceIs DEF c
  <2>4. Advance(c, MaxSeq - k) = a
    BY <1>1, <1>3, <2>1, <2>2, <2>3 DEF Numbers, c
  <2> QED
    BY <2>4 DEF c
<1> QED
  BY <1>1, <1>2, <1>4 DEF y

\* Two numbers are the same when they are so modulo MaxSeq and less than the
\* circle apart.
LEMMA SameNumber ==
  ASSUME NEW x \in Nat, NEW y \in Nat, x % MaxSeq = y % MaxSeq,
         x - y < MaxSeq, y - x < MaxSeq
  PROVE  x = y
<1>1. ASSUME NEW a \in Nat, NEW b \in Nat, a % MaxSeq = b % MaxSeq,
             b - a < MaxSeq, a < b
      PROVE  FALSE
  <2> DEFINE k == b - a
  <2>1. k \in Nat /\ k > 0 /\ k < MaxSeq /\ a + k = b
    BY <1>1
  <2> HIDE DEF k
  <2>2. Dist(a % MaxSeq, b % MaxSeq) = k
    BY <2>1, DistAhead
  <2>3. Dist(a % MaxSeq, b % MaxSeq) = 0
    BY <1>1, ModInNumbers, DistIs DEF Numbers
  <2> QED
    BY <2>1, <2>2, <2>3
<1>2. ~(x < y) /\ ~(y < x)
  BY <1>1
<1> QED
  BY <1>2

-----------------------------------------------------------------------------
(* The queue as a sequence of parts, and where it is of a window that      *)
(* starts at w: at rest inside of it, not beyond it while rx releases      *)
(* after a jump, before it while main_thread flushes.                      *)

Inc(q) == \A i, j \in 1 .. Len(q) : i < j => Pos(q[i]) < Pos(q[j])
Rests(q, w) == \A i \in 1 .. Len(q) : 2 * w <= Pos(q[i]) /\ q[i].n < w + WinSize
Leads(q, w) == \A i \in 1 .. Len(q) : q[i].n < w + WinSize
Behind(q, w) == \A i \in 1 .. Len(q) : q[i].n < w
AtRest(q, w) == Rests(q, w) /\ (q # <<>> => q[1].n # w)

LEMMA PosIs ==
  ASSUME NEW p \in Parts
  PROVE  /\ p.n \in Nat /\ Pos(p) \in Nat
         /\ Pos(p) = IF p.fmt = "LAST" THEN 2 * p.n + 2 ELSE 2 * p.n + 1
         /\ 2 * p.n + 1 <= Pos(p) /\ Pos(p) <= 2 * p.n + 2
<1>1. p.n \in Nat
  BY DEF Parts
<1>2. Pos(p) = IF p.fmt = "LAST" THEN 2 * p.n + 2 ELSE 2 * p.n + 1
  BY <1>1 DEF Pos
<1> QED
  BY <1>1, <1>2

LEMMA PosOrders ==
  ASSUME NEW p \in Parts, NEW r \in Parts, Pos(p) <= Pos(r)
  PROVE  p.n <= r.n
<1>1. p.n \in Nat /\ 2 * p.n + 1 <= Pos(p) /\ Pos(p) \in Nat
  BY PosIs
<1>2. r.n \in Nat /\ Pos(r) <= 2 * r.n + 2 /\ Pos(r) \in Nat
  BY PosIs
<1> QED
  BY <1>1, <1>2

LEMMA TailIs ==
  ASSUME NEW q \in Seq(Parts), q # <<>>
  PROVE  /\ Tail(q) \in Seq(Parts) /\ Len(q) \in Nat /\ Len(q) >= 1
         /\ Len(Tail(q)) = Len(q) - 1
         /\ Head(q) = q[1] /\ q[1] \in Parts
         /\ \A i \in 1 .. Len(Tail(q)) :
              i + 1 \in 2 .. Len(q) /\ Tail(q)[i] = q[i + 1] /\ q[i + 1] \in Parts
<1>1. /\ Tail(q) \in Seq(Parts) /\ Len(q) \in Nat /\ Len(q) >= 1
      /\ Len(Tail(q)) = Len(q) - 1
      /\ Head(q) = q[1] /\ q[1] \in Parts
  OBVIOUS
<1>2. ASSUME NEW i \in 1 .. Len(Tail(q))
      PROVE  i + 1 \in 2 .. Len(q) /\ Tail(q)[i] = q[i + 1] /\ q[i + 1] \in Parts
  <2>1. i + 1 \in 2 .. Len(q) /\ i + 1 \in 1 .. Len(q)
    BY <1>1
  <2> QED
    BY <2>1
<1> QED
  BY <1>1, <1>2

\* A head that leaves keeps the order and the upper bound.
LEMMA TailInc ==
  ASSUME NEW q \in Seq(Parts), q # <<>>, Inc(q)
  PROVE  Inc(Tail(q))
<1> SUFFICES ASSUME NEW i \in 1 .. Len(Tail(q)), NEW j \in 1 .. Len(Tail(q)), i < j
             PROVE  Pos(Tail(q)[i]) < Pos(Tail(q)[j])
  BY DEF Inc
<1>1. /\ i + 1 \in 1 .. Len(q) /\ j + 1 \in 1 .. Len(q) /\ i + 1 < j + 1
      /\ Tail(q)[i] = q[i + 1] /\ Tail(q)[j] = q[j + 1]
  BY TailIs
<1> QED
  BY <1>1 DEF Inc

\* Every later part is behind the head by its place.
LEMMA HeadFirst ==
  ASSUME NEW q \in Seq(Parts), q # <<>>, Inc(q), NEW i \in 1 .. Len(q)
  PROVE  /\ q[i] \in Parts /\ Pos(q[1]) <= Pos(q[i]) /\ q[1].n <= q[i].n
         /\ i # 1 => Pos(q[1]) < Pos(q[i])
<1>1. q[i] \in Parts /\ q[1] \in Parts /\ 1 \in 1 .. Len(q)
  OBVIOUS
<1>2. i # 1 => Pos(q[1]) < Pos(q[i])
  BY <1>1 DEF Inc
<1>3. Pos(q[1]) \in Nat /\ Pos(q[i]) \in Nat
  BY <1>1, PosIs
<1>4. Pos(q[1]) <= Pos(q[i])
  BY <1>2, <1>3
<1>5. q[1].n <= q[i].n
  BY <1>1, <1>4, PosOrders
<1> QED
  BY <1>1, <1>2, <1>4, <1>5

\* When the head leaves and the window moves up to it, or past it, the rest is
\* inside of the window.
LEMMA TailRests ==
  ASSUME NEW q \in Seq(Parts), q # <<>>, Inc(q), NEW w \in Nat, NEW v \in Nat,
         Leads(q, w), w <= v, v <= q[1].n + 1
  PROVE  Rests(Tail(q), v)
<1> SUFFICES ASSUME NEW i \in 1 .. Len(Tail(q))
             PROVE  2 * v <= Pos(Tail(q)[i]) /\ Tail(q)[i].n < v + WinSize
  BY DEF Rests
<1>1. /\ i + 1 \in 1 .. Len(q) /\ i + 1 # 1 /\ Tail(q)[i] = q[i + 1]
      /\ q[1] \in Parts /\ q[i + 1] \in Parts
  BY TailIs
<1>2. Pos(q[1]) < Pos(q[i + 1]) /\ q[i + 1].n < w + WinSize
  BY <1>1, HeadFirst DEF Leads
<1> DEFINE e == q[i + 1]
           h == q[1]
<1>3. h \in Parts /\ e \in Parts
  BY <1>1
<1>4. Pos(h) < Pos(e) /\ e.n < w + WinSize /\ v <= h.n + 1
  BY <1>2
<1> HIDE DEF e, h
<1>5. 2 * v <= Pos(e) /\ e.n < v + WinSize
  <2>1. h.n \in Nat /\ Pos(h) \in Nat /\ 2 * h.n + 1 <= Pos(h)
    BY <1>3, PosIs
  <2>2. e.n \in Nat /\ Pos(e) \in Nat
    BY <1>3, PosIs
  <2>3. 2 * v <= 2 * h.n + 2
    BY <1>4, <2>1
  <2>4. 2 * v <= Pos(e)
    <3> DEFINE a == h.n
               b == Pos(h)
               c == Pos(e)
    <3>1. /\ a \in Nat /\ b \in Nat /\ c \in Nat /\ 2 * a + 1 <= b
          /\ b < c /\ 2 * v <= 2 * a + 2
      BY <1>4, <2>1, <2>2, <2>3
    <3> HIDE DEF a, b, c
    <3>2. 2 * v <= c
      BY <3>1
    <3> QED
      BY <3>2 DEF c
  <2>5. e.n < v + WinSize
    BY <1>4, <2>2, Sizes
  <2> QED
    BY <2>4, <2>5
<1> QED
  BY <1>1, <1>5 DEF e

LEMMA TailLeads ==
  ASSUME NEW q \in Seq(Parts), q # <<>>, NEW w \in Nat, NEW v \in Nat, w <= v
  PROVE  /\ Leads(q, w) => Leads(Tail(q), v)
         /\ Behind(q, w) => Behind(Tail(q), v)
<1>1. ASSUME NEW i \in 1 .. Len(Tail(q))
      PROVE  /\ i + 1 \in 1 .. Len(q) /\ Tail(q)[i] = q[i + 1]
             /\ q[i + 1].n \in Nat
  BY TailIs, PosIs
<1>2. Leads(q, w) => Leads(Tail(q), v)
  BY <1>1, Sizes DEF Leads
<1>3. Behind(q, w) => Behind(Tail(q), v)
  BY <1>1 DEF Behind
<1> QED
  BY <1>2, <1>3

\* A window that does not pass the head.
LEMMA EndRests ==
  ASSUME NEW q \in Seq(Parts), q # <<>>, Inc(q), NEW w \in Nat, NEW v \in Nat,
         Leads(q, w), w <= v, v <= q[1].n
  PROVE  Rests(q, v)
<1> SUFFICES ASSUME NEW i \in 1 .. Len(q)
             PROVE  2 * v <= Pos(q[i]) /\ q[i].n < v + WinSize
  BY DEF Rests
<1>1. q[i] \in Parts /\ q[1] \in Parts /\ q[1].n <= q[i].n /\ q[i].n < w + WinSize
  BY HeadFirst DEF Leads
<1> DEFINE e == q[i]
<1>2. /\ e.n \in Nat /\ Pos(e) \in Nat /\ 2 * e.n + 1 <= Pos(e)
  <2>1. e \in Parts
    BY <1>1
  <2> HIDE DEF e
  <2> QED
    BY <2>1, PosIs
<1>3. q[1].n <= e.n /\ e.n < w + WinSize /\ q[1].n \in Nat
  BY <1>1, PosIs
<1> HIDE DEF e
<1>4. 2 * v <= Pos(e) /\ e.n < v + WinSize
  BY <1>2, <1>3, Sizes
<1> QED
  BY <1>4 DEF e

LEMMA RestsLeads ==
  ASSUME NEW q \in Seq(Parts), NEW w \in Nat, NEW v \in Nat, Rests(q, w), w <= v
  PROVE  Leads(q, v)
<1> SUFFICES ASSUME NEW i \in 1 .. Len(q) PROVE q[i].n < v + WinSize
  BY DEF Leads
<1>1. q[i].n \in Nat /\ q[i].n < w + WinSize
  BY PosIs DEF Rests
<1> QED
  BY <1>1, Sizes

\* What qmInsertFallWithinReorderPkt does to the queue when it finds the place.
LEMMA InsertIs ==
  ASSUME NEW q \in Seq(Parts), NEW p \in Parts, NEW k \in 1 .. Len(q) + 1
  PROVE  /\ InsertAt(q, k, p) \in Seq(Parts)
         /\ Len(InsertAt(q, k, p)) = Len(q) + 1
         /\ \A i \in 1 .. Len(q) + 1 :
              InsertAt(q, k, p)[i] = IF i < k THEN q[i] ELSE IF i = k THEN p ELSE q[i - 1]
<1>0. Len(q) \in Nat /\ k \in Nat /\ k >= 1 /\ k <= Len(q) + 1
  OBVIOUS
<1> DEFINE a == SubSeq(q, 1, k - 1)
           b == SubSeq(q, k, Len(q))
<1>1. /\ a \in Seq(Parts) /\ Len(a) = k - 1
      /\ \A i \in 1 .. k - 1 : a[i] = q[i]
  BY <1>0
<1>2. /\ b \in Seq(Parts) /\ Len(b) = Len(q) - k + 1
      /\ \A i \in 1 .. Len(q) - k + 1 : b[i] = q[k + i - 1]
  BY <1>0
<1>3. InsertAt(q, k, p) = (a \o <<p>>) \o b
  BY DEF InsertAt
<1> HIDE DEF a, b
<1> DEFINE c == a \o <<p>>
<1>4. /\ c \in Seq(Parts) /\ Len(c) = k
      /\ \A i \in 1 .. k : c[i] = IF i < k THEN q[i] ELSE p
  <2>1. <<p>> \in Seq(Parts) /\ Len(<<p>>) = 1 /\ <<p>>[1] = p
    OBVIOUS
  <2>2. /\ c \in Seq(Parts) /\ Len(c) = Len(a) + Len(<<p>>)
        /\ \A i \in 1 .. Len(a) + Len(<<p>>) :
             c[i] = IF i <= Len(a) THEN a[i] ELSE <<p>>[i - Len(a)]
    BY <1>1, <2>1, ConcatProperties
  <2>3. ASSUME NEW i \in 1 .. k PROVE c[i] = IF i < k THEN q[i] ELSE p
    <3>1. c[i] = IF i <= k - 1 THEN a[i] ELSE <<p>>[i - (k - 1)]
      BY <1>0, <1>1, <2>1, <2>2
    <3> HIDE DEF c
    <3>2. CASE i < k
      BY <1>0, <1>1, <3>1, <3>2
    <3>3. CASE i = k
      <4>1. i - (k - 1) = 1 /\ ~(i <= k - 1)
        BY <1>0, <3>3
      <4> QED
        BY <2>1, <3>1, <3>3, <4>1
    <3> QED
      BY <1>0, <3>2, <3>3
  <2> QED
    BY <1>0, <1>1, <2>1, <2>2, <2>3
<1> HIDE DEF c
<1>5. /\ c \o b \in Seq(Parts) /\ Len(c \o b) = Len(c) + Len(b)
      /\ \A i \in 1 .. Len(c) + Len(b) :
           (c \o b)[i] = IF i <= Len(c) THEN c[i] ELSE b[i - Len(c)]
  BY <1>2, <1>4, ConcatProperties
<1>6. Len(c) + Len(b) = Len(q) + 1
  BY <1>0, <1>2, <1>4
<1>7. ASSUME NEW i \in 1 .. Len(q) + 1
      PROVE  (c \o b)[i] = IF i < k THEN q[i] ELSE IF i = k THEN p ELSE q[i - 1]
  <2>1. (c \o b)[i] = IF i <= k THEN c[i] ELSE b[i - k]
    BY <1>4, <1>5, <1>6
  <2>2. CASE i <= k
    BY <1>0, <1>4, <2>1, <2>2
  <2>3. CASE i > k
    <3>1. i - k \in 1 .. Len(q) - k + 1 /\ k + (i - k) - 1 = i - 1 /\ ~(i <= k)
      BY <1>0, <2>3
    <3>2. b[i - k] = q[k + (i - k) - 1]
      BY <1>2, <3>1
    <3>3. (c \o b)[i] = b[i - k]
      BY <2>1, <3>1, Zenon
    <3>4. ~(i < k) /\ i # k
      BY <1>0, <2>3
    <3> QED
      BY <3>1, <3>2, <3>3, <3>4, Zenon
  <2>4. i <= k \/ i > k
    BY <1>0
  <2> QED
    BY <2>2, <2>3, <2>4, Zenon
<1>8. InsertAt(q, k, p) = c \o b
  BY <1>3 DEF c
<1> QED
  BY <1>5, <1>6, <1>7, <1>8

\* A part put between the earlier and the later ones keeps the order.
LEMMA InsertInc ==
  ASSUME NEW q \in Seq(Parts), NEW p \in Parts, NEW k \in 1 .. Len(q) + 1, Inc(q),
         \A i \in 1 .. Len(q) : i < k => Pos(q[i]) < Pos(p),
         \A i \in 1 .. Len(q) : i >= k => Pos(p) < Pos(q[i])
  PROVE  /\ Inc(InsertAt(q, k, p)) /\ InsertAt(q, k, p) \in Seq(Parts)
         /\ InsertAt(q, k, p) # <<>>
         /\ \A i \in 1 .. Len(InsertAt(q, k, p)) :
              \/ InsertAt(q, k, p)[i] = p
              \/ \E j \in 1 .. Len(q) : InsertAt(q, k, p)[i] = q[j]
<1> DEFINE r == InsertAt(q, k, p)
<1>1. /\ r \in Seq(Parts) /\ Len(r) = Len(q) + 1
      /\ \A i \in 1 .. Len(q) + 1 :
           r[i] = IF i < k THEN q[i] ELSE IF i = k THEN p ELSE q[i - 1]
  <2>1. r \in Seq(Parts)
    BY InsertIs
  <2>2. Len(r) = Len(q) + 1
    BY InsertIs
  <2>3. ASSUME NEW i \in 1 .. Len(q) + 1
        PROVE  r[i] = IF i < k THEN q[i] ELSE IF i = k THEN p ELSE q[i - 1]
    BY InsertIs
  <2> HIDE DEF r
  <2> QED
    BY <2>1, <2>2, <2>3
<1> HIDE DEF r
<1>2. Len(q) \in Nat /\ k \in Nat /\ k >= 1 /\ k <= Len(q) + 1
  OBVIOUS
<1>3. ASSUME NEW i \in 1 .. Len(r)
      PROVE  \/ i < k /\ i \in 1 .. Len(q) /\ r[i] = q[i]
             \/ i = k /\ r[i] = p
             \/ i > k /\ i - 1 \in 1 .. Len(q) /\ i - 1 >= k /\ r[i] = q[i - 1]
  BY <1>1, <1>2
<1>4. ASSUME NEW i \in 1 .. Len(r), NEW j \in 1 .. Len(r), i < j
      PROVE  Pos(r[i]) < Pos(r[j])
  <2>0. i \in Nat /\ j \in Nat
    BY <1>1, <1>2
  <2>1. CASE i < k /\ j < k
    BY <1>2, <1>3, <1>4, <2>0, <2>1 DEF Inc
  <2>2. CASE i < k /\ j = k
    BY <1>2, <1>3, <2>0, <2>2
  <2>3. CASE i < k /\ j > k
    <3>1. i \in 1 .. Len(q) /\ j - 1 \in 1 .. Len(q) /\ i < j - 1
      BY <1>2, <1>3, <2>0, <2>3
    <3>2. r[i] = q[i] /\ r[j] = q[j - 1]
      BY <1>2, <1>3, <2>0, <2>3
    <3> QED
      BY <3>1, <3>2 DEF Inc
  <2>4. CASE i = k /\ j > k
    BY <1>2, <1>3, <2>0, <2>4
  <2>5. CASE i > k /\ j > k
    <3>1. i - 1 \in 1 .. Len(q) /\ j - 1 \in 1 .. Len(q) /\ i - 1 < j - 1
      BY <1>2, <1>3, <1>4, <2>0, <2>5
    <3>2. r[i] = q[i - 1] /\ r[j] = q[j - 1]
      BY <1>2, <1>3, <2>0, <2>5
    <3> QED
      BY <3>1, <3>2 DEF Inc
  <2> QED
    BY <1>2, <1>4, <2>0, <2>1, <2>2, <2>3, <2>4, <2>5
<1>5. Inc(r)
  BY <1>4 DEF Inc
<1>6. r # <<>>
  BY <1>1, <1>2
<1>7. \A i \in 1 .. Len(r) : r[i] = p \/ \E j \in 1 .. Len(q) : r[i] = q[j]
  BY <1>3
<1> QED
  BY <1>1, <1>5, <1>6, <1>7 DEF r

LEMMA AppendInc ==
  ASSUME NEW q \in Seq(Parts), NEW p \in Parts, Inc(q),
         \A i \in 1 .. Len(q) : Pos(q[i]) < Pos(p)
  PROVE  /\ Inc(Append(q, p)) /\ Append(q, p) \in Seq(Parts)
         /\ \A i \in 1 .. Len(Append(q, p)) :
              \/ Append(q, p)[i] = p
              \/ \E j \in 1 .. Len(q) : Append(q, p)[i] = q[j]
<1> DEFINE r == Append(q, p)
<1>1. /\ r \in Seq(Parts) /\ Len(r) = Len(q) + 1 /\ Len(q) \in Nat
      /\ \A i \in 1 .. Len(q) : r[i] = q[i]
      /\ r[Len(q) + 1] = p
  BY AppendProperties
<1> HIDE DEF r
<1>2. \A i \in 1 .. Len(r) : \/ i \in 1 .. Len(q) /\ r[i] = q[i]
                             \/ i = Len(q) + 1 /\ r[i] = p
  BY <1>1
<1>3. ASSUME NEW i \in 1 .. Len(r), NEW j \in 1 .. Len(r), i < j
      PROVE  Pos(r[i]) < Pos(r[j])
  <2>1. i \in 1 .. Len(q)
    BY <1>1, <1>3
  <2>2. r[i] = q[i]
    BY <1>1, <2>1
  <2>3. CASE j \in 1 .. Len(q)
    BY <1>1, <1>3, <2>1, <2>2, <2>3 DEF Inc
  <2>4. CASE j = Len(q) + 1
    BY <1>1, <2>1, <2>2, <2>4
  <2> QED
    BY <1>2, <2>3, <2>4
<1>4. Inc(r)
  BY <1>3 DEF Inc
<1> QED
  BY <1>1, <1>2, <1>4 DEF r

-----------------------------------------------------------------------------
(* Where a part is put.                                                    *)

LEMMA CloseCompares ==
  ASSUME NEW p \in Parts, NEW r \in Parts, Close(p.n, r.n)
  PROVE  /\ SN(p) = SN(r) <=> p.n = r.n
         /\ qmCompareSnIsLessThan(SN(p), SN(r)) <=> p.n < r.n
<1>1. p.n \in Nat /\ r.n \in Nat
  BY PosIs
<1> QED
  BY <1>1, Compare DEF SN

\* The search stops at the first part that is not before the new one.
LEMMA StopIs ==
  ASSUME TypeOK, rxPkt \in Parts,
         \A i \in 1 .. Len(rReOrderQue) : Close(rReOrderQue[i].n, rxPkt.n)
  PROVE  /\ StopAt \in 1 .. Len(rReOrderQue) + 1
         /\ \A i \in 1 .. Len(rReOrderQue) :
              i < StopAt => rReOrderQue[i].n < rxPkt.n
         /\ StopAt <= Len(rReOrderQue) => rxPkt.n <= rReOrderQue[StopAt].n
         /\ FindsSame <=> /\ StopAt <= Len(rReOrderQue)
                          /\ rReOrderQue[StopAt].n = rxPkt.n
<1> DEFINE q == rReOrderQue
           n == rxPkt.n
           L == Len(q)
           k == StopAt
           Hits(i) == \/ SN(q[i]) = SN(rxPkt)
                      \/ qmCompareSnIsLessThan(SN(rxPkt), SN(q[i]))
           S == {i \in 1 .. L : Hits(i)} \cup {L + 1}
<1>1. L \in Nat /\ n \in Nat /\ q \in Seq(Parts)
  BY PosIs DEF TypeOK
<1>2. ASSUME NEW i \in 1 .. L
      PROVE  /\ q[i] \in Parts /\ q[i].n \in Nat
             /\ SN(q[i]) = SN(rxPkt) <=> q[i].n = n
             /\ Hits(i) <=> n <= q[i].n
  <2>1. q[i] \in Parts /\ q[i].n \in Nat
    BY <1>1, PosIs
  <2>2. Close(q[i].n, n)
    OBVIOUS
  <2>3. Close(n, q[i].n)
    BY <2>2 DEF Close
  <2>4. SN(q[i]) = SN(rxPkt) <=> q[i].n = n
    BY <2>1, <2>2, CloseCompares
  <2>5. qmCompareSnIsLessThan(SN(rxPkt), SN(q[i])) <=> n < q[i].n
    BY <2>1, <2>3, CloseCompares
  <2> HIDE DEF q, n
  <2> QED
    BY <1>1, <2>1, <2>4, <2>5
<1>3. k \in S /\ \A y \in S : k <= y
  <2>1. S \in SUBSET Nat /\ S # {}
    <3> HIDE DEF Hits, L
    <3> QED
      BY <1>1
  <2>2. k = Min(S)
    BY DEF StopAt
  <2> HIDE DEF S, k
  <2> QED
    BY <2>1, <2>2, MinOfNats
<1> HIDE DEF Hits, k
<1>4. k \in 1 .. L + 1
  <2> HIDE DEF L
  <2> QED
    BY <1>1, <1>3
<1>5. ASSUME NEW i \in 1 .. L, i < k PROVE q[i].n < n
  <2>1. ~Hits(i)
    <3> HIDE DEF L
    <3> QED
      BY <1>1, <1>3, <1>4, <1>5
  <2>2. ~(n <= q[i].n)
    BY <1>2, <2>1
  <2> HIDE DEF q, n
  <2> QED
    BY <1>1, <1>2, <2>2
<1>6. k <= L => k \in 1 .. L /\ n <= q[k].n
  <2>1. k <= L => k \in 1 .. L /\ Hits(k)
    <3> HIDE DEF L
    <3> QED
      BY <1>1, <1>3, <1>4
  <2> QED
    BY <1>2, <2>1
<1>7. FindsSame <=> k <= L /\ q[k].n = n
  <2>1. k <= L => (SN(q[k]) = SN(rxPkt) <=> q[k].n = n)
    BY <1>2, <1>6
  <2> QED
    BY <2>1 DEF FindsSame, k
<1> QED
  BY <1>4, <1>5, <1>6, <1>7 DEF k

\* The place behind the parts of the same frame.
LEMMA PlaceIs ==
  ASSUME TypeOK, rxPkt \in Parts, FindsSame, Inc(rReOrderQue),
         \A i \in 1 .. Len(rReOrderQue) : Close(rReOrderQue[i].n, rxPkt.n)
  PROVE  /\ Place \in 1 .. Len(rReOrderQue) + 1
         /\ \A i \in 1 .. Len(rReOrderQue) :
              i < Place => rReOrderQue[i].n <= rxPkt.n
         /\ \A i \in 1 .. Len(rReOrderQue) :
              i >= Place => rReOrderQue[i].n > rxPkt.n
<1> DEFINE q == rReOrderQue
           n == rxPkt.n
           L == Len(q)
           k == StopAt
           m == Place
           S == {i \in k .. L : SN(q[i]) # SN(rxPkt)} \cup {L + 1}
<1>1. L \in Nat /\ n \in Nat /\ q \in Seq(Parts) /\ Inc(q)
  BY PosIs DEF TypeOK
<1>2. ASSUME NEW i \in 1 .. L
      PROVE  /\ q[i] \in Parts /\ q[i].n \in Nat
             /\ SN(q[i]) = SN(rxPkt) <=> q[i].n = n
  <2>1. q[i] \in Parts /\ q[i].n \in Nat
    BY <1>1, PosIs
  <2>2. Close(q[i].n, n)
    OBVIOUS
  <2> QED
    BY <2>1, <2>2, CloseCompares
<1>3. /\ k \in 1 .. L /\ q[k].n = n
      /\ \A i \in 1 .. L : i < k => q[i].n < n
  <2>1. /\ k \in 1 .. L + 1 /\ k <= L /\ q[k].n = n
        /\ \A i \in 1 .. L : i < k => q[i].n < n
    BY StopIs
  <2>2. k \in 1 .. L
    <3> HIDE DEF L, k
    <3> QED
      BY <1>1, <2>1
  <2> QED
    BY <2>1, <2>2
<1>4. m \in S /\ \A y \in S : m <= y
  <2>1. S \in SUBSET Nat /\ S # {}
    <3> HIDE DEF L, k, q
    <3> QED
      BY <1>1, <1>3
  <2>2. m = Min(S)
    BY DEF Place
  <2> HIDE DEF S, m
  <2> QED
    BY <2>1, <2>2, MinOfNats
<1> HIDE DEF m, k
<1>5. /\ m \in Nat /\ m >= k /\ m <= L + 1
      /\ m <= L => SN(q[m]) # SN(rxPkt)
  <2> HIDE DEF L, q
  <2> QED
    BY <1>1, <1>3, <1>4
<1>6. ASSUME NEW i \in 1 .. L, i < m PROVE q[i].n <= n
  <2>1. CASE i < k
    BY <1>1, <1>2, <1>3, <2>1
  <2>2. CASE i >= k
    <3>1. i \in k .. L /\ i \notin S
      <4> HIDE DEF L, q
      <4> QED
        BY <1>1, <1>3, <1>4, <1>5, <1>6, <2>2
    <3>2. SN(q[i]) = SN(rxPkt)
      BY <3>1
    <3>3. q[i].n = n
      BY <1>2, <3>2
    <3> QED
      BY <1>1, <3>3
  <2> QED
    BY <1>1, <1>3, <2>1, <2>2
<1>7. ASSUME NEW i \in 1 .. L, i >= m PROVE q[i].n > n
  <2>1. m \in 1 .. L /\ m # k /\ k < m
    <3>1. m \in 1 .. L
      <4> HIDE DEF L
      <4> QED
        BY <1>1, <1>3, <1>5, <1>7
    <3>2. q[m].n # n
      BY <1>2, <1>5, <3>1
    <3>3. m # k
      BY <1>3, <3>2
    <3> QED
      BY <1>3, <1>5, <3>1, <3>3
  <2>2. Pos(q[k]) < Pos(q[m]) /\ q[m].n # n
    BY <1>1, <1>2, <1>3, <1>5, <2>1 DEF Inc
  <2>3. q[k].n <= q[m].n
    <3>1. q[k] \in Parts /\ q[m] \in Parts /\ Pos(q[k]) <= Pos(q[m])
      <4>1. q[k] \in Parts /\ q[m] \in Parts
        BY <1>2, <1>3, <2>1
      <4>2. Pos(q[k]) \in Nat /\ Pos(q[m]) \in Nat
        BY <4>1, PosIs
      <4> QED
        BY <2>2, <4>1, <4>2
    <3> QED
      BY <3>1, PosOrders
  <2>4. q[m].n > n
    <3>1. q[m].n \in Nat
      BY <1>2, <2>1
    <3> QED
      BY <1>1, <1>3, <2>2, <2>3, <3>1
  <2>5. q[m].n <= q[i].n
    <3>1. CASE i = m
      BY <1>2, <3>1
    <3>2. CASE i > m
      <4>1. Pos(q[m]) < Pos(q[i])
        BY <1>1, <2>1, <3>2 DEF Inc
      <4>2. q[m] \in Parts /\ q[i] \in Parts
        BY <1>2, <2>1
      <4>3. Pos(q[m]) <= Pos(q[i])
        BY <4>1, <4>2, PosIs
      <4> QED
        BY <4>2, <4>3, PosOrders
    <3> QED
      BY <1>5, <1>7, <3>1, <3>2
  <2>6. q[m].n \in Nat /\ q[i].n \in Nat
    BY <1>2, <2>1
  <2> QED
    BY <1>1, <2>4, <2>5, <2>6
<1>8. m \in 1 .. L + 1
  <2> HIDE DEF L
  <2> QED
    BY <1>1, <1>3, <1>5
<1> QED
  BY <1>6, <1>7, <1>8 DEF m

\* The last part of rxPkt's frame is in the queue already.
LastQueued ==
  \E i \in 1 .. Len(rReOrderQue) :
    rReOrderQue[i].fmt = "LAST" /\ rReOrderQue[i].n = rxPkt.n

\* The insertion keeps the order, when it knows of a last part that came twice
\* (fgIsAmsduDuplicated), and it learns of it from the first.
LEMMA InsertKeepsOrder ==
  ASSUME TypeOK, rxPkt \in Parts, Inc(rReOrderQue),
         \A i \in 1 .. Len(rReOrderQue) : Close(rReOrderQue[i].n, rxPkt.n),
         rxPkt.fmt = "LAST" /\ LastQueued => fgIsAmsduDuplicated,
         qmInsertFallWithinReorderPkt
  PROVE  /\ Inc(rReOrderQue') /\ rReOrderQue' \in Seq(Parts) /\ rReOrderQue' # <<>>
         /\ \A i \in 1 .. Len(rReOrderQue') :
              \/ rReOrderQue'[i] = rxPkt
              \/ \E j \in 1 .. Len(rReOrderQue) : rReOrderQue'[i] = rReOrderQue[j]
         /\ rxPkt.fmt = "FIRST" /\ LastQueued => fgIsAmsduDuplicated'
<1> DEFINE q == rReOrderQue
           n == rxPkt.n
           L == Len(q)
<1>1. /\ L \in Nat /\ n \in Nat /\ q \in Seq(Parts)
      /\ rxPkt.fmt \in {"MSDU", "FIRST", "LAST"} /\ fgIsAmsduDuplicated \in BOOLEAN
      /\ \A i \in 1 .. L : q[i] \in Parts /\ q[i].n \in Nat /\ Pos(q[i]) \in Nat
  <2>1. q \in Seq(Parts) /\ fgIsAmsduDuplicated \in BOOLEAN
    BY DEF TypeOK
  <2>2. n \in Nat /\ rxPkt.fmt \in {"MSDU", "FIRST", "LAST"}
    BY PartFacts
  <2>3. ASSUME NEW i \in 1 .. L
        PROVE  q[i] \in Parts /\ q[i].n \in Nat /\ Pos(q[i]) \in Nat
    <3>1. q[i] \in Parts
      BY <2>1
    <3> HIDE DEF q
    <3> QED
      BY <3>1, PosIs
  <2>4. L \in Nat
    BY <2>1
  <2> QED
    BY <2>1, <2>2, <2>3, <2>4
<1>2. /\ StopAt \in 1 .. L + 1
      /\ \A i \in 1 .. L : i < StopAt => q[i].n < n
      /\ StopAt <= L => n <= q[StopAt].n
      /\ FindsSame <=> StopAt <= L /\ q[StopAt].n = n
  BY StopIs
<1>3. CASE FindsSame /\ Duplicate
  <2>1. rReOrderQue' = q /\ (rxPkt.fmt = "FIRST" => fgIsAmsduDuplicated')
    BY <1>3 DEF qmInsertFallWithinReorderPkt
  <2>2. q # <<>>
    BY <1>1, <1>2, <1>3
  <2> QED
    BY <1>1, <2>1, <2>2
<1>4. CASE FindsSame /\ ~Duplicate
  <2>1. ~fgIsAmsduDuplicated /\ rxPkt.fmt = "LAST" /\ ~LastQueued
    BY <1>4 DEF Duplicate
  <2>2. rReOrderQue' = InsertAt(q, Place, rxPkt)
    BY <1>4 DEF qmInsertFallWithinReorderPkt
  <2>3. /\ Place \in 1 .. L + 1
        /\ \A i \in 1 .. L : i < Place => q[i].n <= n
        /\ \A i \in 1 .. L : i >= Place => q[i].n > n
    BY <1>4, PlaceIs
  <2>4. Pos(rxPkt) = 2 * n + 2
    BY <2>1, PosIs
  <2>5. ASSUME NEW i \in 1 .. L, i < Place PROVE Pos(q[i]) < Pos(rxPkt)
    <3>1. q[i].n <= n /\ q[i] \in Parts
      BY <1>1, <2>3, <2>5
    <3>2. ~(q[i].fmt = "LAST" /\ q[i].n = n)
      BY <2>1 DEF LastQueued
    <3>3. CASE q[i].fmt # "LAST"
      <4>1. Pos(q[i]) = 2 * q[i].n + 1 /\ q[i].n \in Nat
        BY <3>1, <3>3, PosIs
      <4> QED
        BY <1>1, <2>4, <3>1, <4>1
    <3>4. CASE q[i].n # n
      <4>1. Pos(q[i]) <= 2 * q[i].n + 2 /\ q[i].n \in Nat /\ Pos(q[i]) \in Nat
        BY <3>1, PosIs
      <4> QED
        BY <1>1, <2>4, <3>1, <3>4, <4>1
    <3> QED
      BY <3>2, <3>3, <3>4
  <2>6. ASSUME NEW i \in 1 .. L, i >= Place PROVE Pos(rxPkt) < Pos(q[i])
    <3>1. q[i].n > n /\ q[i] \in Parts
      BY <1>1, <2>3, <2>6
    <3>2. 2 * q[i].n + 1 <= Pos(q[i]) /\ q[i].n \in Nat /\ Pos(q[i]) \in Nat
      BY <3>1, PosIs
    <3> QED
      BY <1>1, <2>4, <3>1, <3>2
  <2> DEFINE m == Place
  <2> HIDE DEF m
  <2>7. /\ m \in 1 .. L + 1
        /\ \A i \in 1 .. L : i < m => Pos(q[i]) < Pos(rxPkt)
        /\ \A i \in 1 .. L : i >= m => Pos(rxPkt) < Pos(q[i])
    BY <2>3, <2>5, <2>6 DEF m
  <2>8. /\ Inc(InsertAt(q, m, rxPkt)) /\ InsertAt(q, m, rxPkt) \in Seq(Parts)
        /\ InsertAt(q, m, rxPkt) # <<>>
        /\ \A i \in 1 .. Len(InsertAt(q, m, rxPkt)) :
             \/ InsertAt(q, m, rxPkt)[i] = rxPkt
             \/ \E j \in 1 .. L : InsertAt(q, m, rxPkt)[i] = q[j]
    BY <1>1, <2>7, InsertInc
  <2> QED
    BY <2>1, <2>2, <2>8 DEF m
<1>5. CASE ~FindsSame
  <2>1. rReOrderQue' = InsertAt(q, StopAt, rxPkt)
    BY <1>5 DEF qmInsertFallWithinReorderPkt, Duplicate, Place
  <2> DEFINE m == StopAt
  <2> HIDE DEF m
  <2>2. m \in 1 .. L + 1 /\ m \in Nat
    BY <1>1, <1>2 DEF m
  <2>3. ASSUME NEW i \in 1 .. L, i < m PROVE Pos(q[i]) < Pos(rxPkt)
    <3>1. q[i].n < n /\ q[i] \in Parts
      BY <1>1, <1>2, <2>3 DEF m
    <3>2. Pos(q[i]) <= 2 * q[i].n + 2 /\ q[i].n \in Nat /\ Pos(q[i]) \in Nat
      BY <3>1, PosIs
    <3>3. 2 * n + 1 <= Pos(rxPkt) /\ Pos(rxPkt) \in Nat
      BY PosIs
    <3> QED
      BY <1>1, <3>1, <3>2, <3>3
  <2>4. m <= L => m \in 1 .. L /\ n < q[m].n
    <3>1. m <= L => n <= q[m].n /\ q[m].n # n
      BY <1>2, <1>5 DEF m
    <3>2. m <= L => m \in 1 .. L
      BY <1>1, <2>2
    <3> QED
      BY <1>1, <3>1, <3>2
  <2>5. ASSUME NEW i \in 1 .. L, i >= m PROVE Pos(rxPkt) < Pos(q[i])
    <3>1. m \in 1 .. L /\ n < q[m].n /\ q[m] \in Parts /\ q[i] \in Parts
      BY <1>1, <2>2, <2>4, <2>5
    <3>2. Pos(q[m]) <= Pos(q[i])
      <4>1. CASE i = m
        BY <1>1, <4>1
      <4>2. CASE i > m
        <5>1. Pos(q[m]) < Pos(q[i])
          BY <3>1, <4>2 DEF Inc
        <5> QED
          BY <3>1, <5>1, PosIs
      <4> QED
        BY <2>2, <2>5, <4>1, <4>2
    <3>3. 2 * q[m].n + 1 <= Pos(q[m]) /\ q[m].n \in Nat /\ Pos(q[m]) \in Nat
      BY <3>1, PosIs
    <3>4. Pos(rxPkt) <= 2 * n + 2 /\ Pos(rxPkt) \in Nat /\ Pos(q[i]) \in Nat
      BY <3>1, PosIs
    <3> QED
      BY <1>1, <3>1, <3>2, <3>3, <3>4
  <2>6. /\ Inc(InsertAt(q, m, rxPkt)) /\ InsertAt(q, m, rxPkt) \in Seq(Parts)
        /\ InsertAt(q, m, rxPkt) # <<>>
        /\ \A i \in 1 .. Len(InsertAt(q, m, rxPkt)) :
             \/ InsertAt(q, m, rxPkt)[i] = rxPkt
             \/ \E j \in 1 .. L : InsertAt(q, m, rxPkt)[i] = q[j]
    BY <1>1, <2>2, <2>3, <2>5, InsertInc
  <2>7. ~LastQueued
    <3> SUFFICES ASSUME NEW i \in 1 .. L, q[i].n = n PROVE FALSE
      BY DEF LastQueued
    <3>1. CASE i < m
      BY <1>1, <1>2, <3>1 DEF m
    <3>2. CASE i >= m
      <4>1. m \in 1 .. L /\ n < q[m].n /\ Pos(rxPkt) < Pos(q[i])
        BY <2>2, <2>4, <2>5, <3>2
      <4>2. i # m
        BY <1>1, <4>1
      <4>3. Pos(q[m]) < Pos(q[i])
        BY <1>1, <2>2, <3>2, <4>1, <4>2 DEF Inc
      <4>4. q[m].n <= q[i].n
        <5>1. q[m] \in Parts /\ q[i] \in Parts
          BY <1>1, <4>1
        <5>2. Pos(q[m]) <= Pos(q[i])
          BY <4>3, <5>1, PosIs
        <5> QED
          BY <5>1, <5>2, PosOrders
      <4>5. q[m].n \in Nat
        BY <1>1, <4>1
      <4> QED
        BY <1>1, <4>1, <4>4, <4>5
    <3> QED
      BY <2>2, <3>1, <3>2
  <2> QED
    BY <2>1, <2>6, <2>7 DEF m
<1> QED
  BY <1>3, <1>4, <1>5

-----------------------------------------------------------------------------
(* The invariant.                                                          *)

Near(a, b) == a - b < Quarter /\ b - a < Quarter

\* The assumption about the environment: the access point, the window of the
\* driver and the frames it holds are less than a quarter of the circle apart,
\* so that twelve bits can tell what is old from what is new.
InStep ==
  suspends = 0 =>
    /\ fgIsValid => \E w \in Nat : Near(w, apLow) /\ w % MaxSeq = u2WinStart
    /\ \A i \in 1 .. Len(rReOrderQue) : Near(rReOrderQue[i].n, apLow)
    /\ rxPc \in {"insert", "bar"} => Near(rxPkt.n, apLow)

\* The receive ring holds one frame, of which rx has taken the first part when
\* the last one is at its head.
RingShape ==
  /\ Len(ring) > 1 =>
       /\ Len(ring) = 2 /\ ring[1].fmt = "FIRST"
       /\ ring[2].fmt = "LAST" /\ ring[2].n = ring[1].n
  /\ ring # <<>> /\ ring[1].fmt = "LAST" =>
       /\ Len(ring) = 1 /\ rxPc # "bar"
       /\ rxPc = "insert" => rxPkt.n = ring[1].n /\ rxPkt.fmt = "FIRST"

\* The last part of frame n is the next to be put into the queue, ...
LastComing(n) ==
  IF rxPc = "insert" THEN rxPkt.fmt = "LAST" /\ rxPkt.n = n
  ELSE ring # <<>> /\ ring[1].fmt = "LAST" /\ ring[1].n = n

\* ... and when it is there already, rx knows that the frame came twice, or
\* will find it behind the window.
LastIsNew(w) ==
  \A n \in Nat : \A i \in 1 .. Len(rReOrderQue) :
    LastComing(n) /\ rReOrderQue[i].fmt = "LAST" /\ rReOrderQue[i].n = n
      => fgIsAmsduDuplicated \/ n < w

\* Where the queue is in each phase of the two threads.
Phase(w) ==
  /\ rxPc = "within" => Rests(rReOrderQue, w)
  /\ rxPc \in {"ahead", "barAhead"} => Leads(rReOrderQue, w)
  /\ mainPc = "flush" => Behind(rReOrderQue, w)
  /\ lock = "none" => AtRest(rReOrderQue, w)

\* The window starts at the number w.
Window(w) ==
  /\ Near(w, apLow) /\ w % MaxSeq = u2WinStart
  /\ Inc(rReOrderQue)
  /\ Phase(w)
  /\ LastIsNew(w)

OBody ==
  /\ fgIsValid => \E w \in Nat : Window(w)
  /\ fgIsWaitingForPktWithSsn => rReOrderQue = <<>>
  /\ fgFirstSnToWinStart = FALSE
  /\ RingShape
  /\ WaitingIsMarked

\* Until the first suspend.
OInv == suspends = 0 => OBody

\* What is known of a state besides.
Known == IInv /\ EndsClean /\ InStep

LEMMA Quarters ==
  /\ Quarter \in Nat /\ Quarter >= 1 /\ MaxSeq = 4 * Quarter /\ Half = 2 * Quarter
  /\ MaxSeq \in Nat /\ Half \in Nat /\ WinSize \in Nat /\ WinSize >= 2 /\ WinSize <= Half
<1>1. MaxSeq \in Nat /\ MaxSeq % 4 = 0 /\ MaxSeq >= 4
  BY ConstantsAssumption, Sizes
<1>2. Quarter \in Nat /\ MaxSeq = 4 * Quarter
  BY <1>1 DEF Quarter
<1> QED
  BY <1>1, <1>2, Sizes

\* In step, the queue is close to the window.
LEMMA QueueIsClose ==
  ASSUME IInv, InStep, suspends = 0, NEW w \in Nat, Near(w, apLow)
  PROVE  /\ apLow \in Nat /\ rReOrderQue \in Seq(Parts)
         /\ \A i \in 1 .. Len(rReOrderQue) :
              /\ rReOrderQue[i] \in Parts /\ rReOrderQue[i].n \in Nat
              /\ Near(rReOrderQue[i].n, apLow)
              /\ Close(rReOrderQue[i].n, w) /\ Close(w, rReOrderQue[i].n)
              /\ Close(rReOrderQue[i].n, w + 1)
<1>1. apLow \in Nat /\ rReOrderQue \in Seq(Parts)
  BY DEF IInv, TypeOK
<1>2. ASSUME NEW i \in 1 .. Len(rReOrderQue)
      PROVE  /\ rReOrderQue[i] \in Parts /\ rReOrderQue[i].n \in Nat
             /\ Near(rReOrderQue[i].n, apLow)
             /\ Close(rReOrderQue[i].n, w) /\ Close(w, rReOrderQue[i].n)
             /\ Close(rReOrderQue[i].n, w + 1)
  <2> DEFINE e == rReOrderQue[i]
             m == e.n
  <2>1. e \in Parts
    BY <1>1
  <2>2. m \in Nat
    BY <2>1, PosIs
  <2>3. Near(m, apLow)
    BY DEF InStep
  <2> HIDE DEF m
  <2>4. Close(m, w) /\ Close(w, m) /\ Close(m, w + 1)
    BY <1>1, <2>2, <2>3, Quarters DEF Near, Close
  <2> QED
    BY <2>1, <2>2, <2>3, <2>4 DEF m
<1> QED
  BY <1>1, <1>2

\* Where the loops see the window start: TailGivenUp moves it by one number,
\* and only when the head of the queue is beyond.
LEMMA StartIs ==
  ASSUME IInv, InStep, suspends = 0, NEW w \in Nat, Near(w, apLow),
         w % MaxSeq = u2WinStart, rReOrderQue # <<>>
  PROVE  \E v \in {w, w + 1} :
           /\ v \in Nat /\ Start0 = v % MaxSeq
           /\ v = w + 1 => w < rReOrderQue[1].n
           /\ SN(Head(rReOrderQue)) = Start0 <=> rReOrderQue[1].n = v
           /\ qmCompareSnIsLessThan(SN(Head(rReOrderQue)), Start0)
                <=> rReOrderQue[1].n < v
<1> DEFINE h == Head(rReOrderQue)
           m == h.n
<1>1. /\ Head(rReOrderQue) = rReOrderQue[1] /\ 1 \in 1 .. Len(rReOrderQue)
  BY DEF IInv, TypeOK
<1>2. m \in Nat /\ Close(m, w) /\ Close(w, m) /\ Close(m, w + 1)
  BY <1>1, QueueIsClose
<1>3. SN(h) = m % MaxSeq
  BY DEF SN
<1> HIDE DEF m, h
<1>4. qmCompareSnIsLessThan(u2WinStart, SN(h)) <=> w < m
  BY <1>2, <1>3, Compare
<1>5. CASE TailGivenUp
  <2>1. w < m
    BY <1>4, <1>5 DEF TailGivenUp, h
  <2>2. Start0 = (w + 1) % MaxSeq
    BY <1>5, AdvanceOne DEF Start0
  <2>3. w + 1 \in Nat
    OBVIOUS
  <2>4. /\ SN(h) = Start0 <=> m = w + 1
        /\ qmCompareSnIsLessThan(SN(h), Start0) <=> m < w + 1
    BY <1>2, <1>3, <2>2, <2>3, Compare
  <2>5. m = rReOrderQue[1].n
    BY <1>1 DEF m, h
  <2> QED
    BY <2>1, <2>2, <2>3, <2>4, <2>5 DEF h
<1>6. CASE ~TailGivenUp
  <2>1. Start0 = w % MaxSeq
    BY <1>6 DEF Start0
  <2>2. /\ SN(h) = Start0 <=> m = w
        /\ qmCompareSnIsLessThan(SN(h), Start0) <=> m < w
    BY <1>2, <1>3, <2>1, Compare
  <2>3. m = rReOrderQue[1].n
    BY <1>1 DEF m, h
  <2>4. w # w + 1
    OBVIOUS
  <2> QED
    BY <2>1, <2>2, <2>3, <2>4 DEF h
<1> QED
  BY <1>5, <1>6

\* The assumption holds after the step as well, which pins the window down.
LEMMA StaysNear ==
  ASSUME IInv', InStep', suspends' = 0, fgIsValid',
         NEW x \in Nat, x % MaxSeq = u2WinStart',
         x - apLow' <= 3 * Quarter, apLow' - x <= 3 * Quarter
  PROVE  Near(x, apLow')
<1>1. apLow' \in Nat
  BY DEF IInv, TypeOK
<1>2. PICK y \in Nat : Near(y, apLow') /\ y % MaxSeq = u2WinStart'
  BY DEF InStep
<1> DEFINE a == apLow'
<1>3. /\ a \in Nat /\ a - y < Quarter /\ y - a < Quarter
      /\ x - a <= 3 * Quarter /\ a - x <= 3 * Quarter
  BY <1>1, <1>2 DEF Near
<1> HIDE DEF a
<1>4. x - y < MaxSeq /\ y - x < MaxSeq
  BY <1>3, Quarters
<1>5. x = y
  BY <1>2, <1>4, SameNumber
<1> QED
  BY <1>2, <1>5

-----------------------------------------------------------------------------
(* What several steps have in common.                                      *)

\* A window that moves on, over a queue without new parts.
LEMMA NewStays ==
  ASSUME IInv, IInv', NEW w \in Nat, NEW v \in Nat, w <= v, LastIsNew(w),
         \A i \in 1 .. Len(rReOrderQue') :
           \E j \in 1 .. Len(rReOrderQue) : rReOrderQue'[i] = rReOrderQue[j],
         fgIsAmsduDuplicated' = fgIsAmsduDuplicated,
         \A n \in Nat : LastComing(n)' => LastComing(n)
  PROVE  LastIsNew(v)'
<1> SUFFICES ASSUME NEW n \in Nat, NEW i \in 1 .. Len(rReOrderQue'), LastComing(n)',
                    rReOrderQue'[i].fmt = "LAST", rReOrderQue'[i].n = n
             PROVE  fgIsAmsduDuplicated' \/ n < v
  BY DEF LastIsNew
<1>1. PICK j \in 1 .. Len(rReOrderQue) : rReOrderQue'[i] = rReOrderQue[j]
  OBVIOUS
<1>2. LastComing(n)
  OBVIOUS
<1>3. fgIsAmsduDuplicated \/ n < w
  BY <1>1, <1>2 DEF LastIsNew
<1> QED
  BY <1>3

\* A step that leaves the window and the queue alone, and begins no loop.
LEMMA Undisturbed ==
  ASSUME IInv, IInv', NEW w \in Nat, Window(w),
         UNCHANGED <<u2WinStart, rReOrderQue, lock, fgIsAmsduDuplicated, apLow>>,
         rxPc' = rxPc \/ rxPc' \in {"idle", "insert", "bar"},
         mainPc' = "flush" => mainPc = "flush",
         \A n \in Nat : LastComing(n)' => LastComing(n)
  PROVE  Window(w)'
<1>1. LastIsNew(w)'
  <2>1. \A i \in 1 .. Len(rReOrderQue') :
           \E j \in 1 .. Len(rReOrderQue) : rReOrderQue'[i] = rReOrderQue[j]
    OBVIOUS
  <2>2. LastIsNew(w) /\ w <= w
    BY DEF Window
  <2> QED
    BY <2>1, <2>2, NewStays
<1>2. Phase(w)'
  BY DEF Window, Phase
<1> QED
  BY <1>1, <1>2 DEF Window

\* A head that leaves.
LEMMA HeadLeaves ==
  ASSUME IInv, IInv', InStep, InStep', suspends = 0, suspends' = 0, fgIsValid',
         NEW w \in Nat, Window(w), NEW v \in Nat, w <= v,
         v <= w + 1 \/ v <= rReOrderQue[1].n + 1,
         rReOrderQue # <<>>, rReOrderQue' = Tail(rReOrderQue),
         u2WinStart' = v % MaxSeq,
         UNCHANGED <<apLow, fgIsAmsduDuplicated, ring, rxPc, rxPkt>>
  PROVE  Near(v, apLow') /\ Inc(rReOrderQue') /\ LastIsNew(v)'
<1>1. Near(w, apLow) /\ Inc(rReOrderQue) /\ LastIsNew(w)
  BY DEF Window
<1>2. rReOrderQue \in Seq(Parts) /\ apLow \in Nat
  BY DEF IInv, TypeOK
<1>3. Inc(rReOrderQue')
  BY <1>1, <1>2, TailInc
<1>4. LastIsNew(v)'
  <2>1. \A i \in 1 .. Len(rReOrderQue') :
           \E j \in 1 .. Len(rReOrderQue) : rReOrderQue'[i] = rReOrderQue[j]
    <3>1. ASSUME NEW i \in 1 .. Len(rReOrderQue')
          PROVE  \E j \in 1 .. Len(rReOrderQue) : rReOrderQue'[i] = rReOrderQue[j]
      <4>1. i + 1 \in 2 .. Len(rReOrderQue) /\ rReOrderQue'[i] = rReOrderQue[i + 1]
        BY <1>2, TailIs
      <4>2. i + 1 \in 1 .. Len(rReOrderQue)
        BY <4>1
      <4> QED
        BY <4>1, <4>2
    <3> QED
      BY <3>1
  <2>2. \A n \in Nat : LastComing(n)' => LastComing(n)
    BY DEF LastComing
  <2> QED
    BY <1>1, <2>1, <2>2, NewStays
<1>5. Near(v, apLow')
  <2> DEFINE m == rReOrderQue[1].n
  <2>1. m \in Nat /\ Near(m, apLow)
    <3>1. 1 \in 1 .. Len(rReOrderQue)
      BY <1>2
    <3> QED
      BY <1>1, <3>1, QueueIsClose
  <2>2. v <= w + 1 \/ v <= m + 1
    OBVIOUS
  <2> HIDE DEF m
  <2>3. v - apLow <= 3 * Quarter /\ apLow - v <= 3 * Quarter
    BY <1>1, <1>2, <2>1, <2>2, Quarters DEF Near
  <2>4. apLow' = apLow
    OBVIOUS
  <2> QED
    BY <2>3, <2>4, StaysNear
<1> QED
  BY <1>3, <1>4, <1>5

\* The number after the one of a part.
LEMMA AdvanceIsNext ==
  ASSUME NEW p \in Parts
  PROVE  p.n + 1 \in Nat /\ Advance(SN(p), 1) = (p.n + 1) % MaxSeq
BY PosIs, AdvanceOne DEF SN

LEMMA TakeNextMoves ==
  ASSUME IInv, InStep, suspends = 0, NEW w \in Nat, Near(w, apLow),
         w % MaxSeq = u2WinStart, NEW a, TakeNext(a)
  PROVE  /\ rReOrderQue # <<>> /\ rReOrderQue' = Tail(rReOrderQue)
         /\ w <= rReOrderQue[1].n
         /\ \E v \in Nat : /\ u2WinStart' = v % MaxSeq
                           /\ w <= v /\ v <= rReOrderQue[1].n + 1
<1>1. /\ rReOrderQue # <<>> /\ SN(Head(rReOrderQue)) = Start0
      /\ rReOrderQue' = Tail(rReOrderQue)
  BY DEF TakeNext, Release
<1>2. Head(rReOrderQue) = rReOrderQue[1] /\ rReOrderQue[1] \in Parts
  BY <1>1 DEF IInv, TypeOK
<1>3. PICK v \in {w, w + 1} :
        v \in Nat /\ Start0 = v % MaxSeq /\ rReOrderQue[1].n = v
  BY <1>1, StartIs
<1>4. u2WinStart' = v % MaxSeq \/ u2WinStart' = (v + 1) % MaxSeq
  <2>1. Advance(SN(Head(rReOrderQue)), 1) = (v + 1) % MaxSeq
    BY <1>2, <1>3, AdvanceIsNext
  <2> QED
    BY <1>3, <2>1 DEF TakeNext
<1> DEFINE m == rReOrderQue[1].n
<1>5. m = v
  BY <1>3
<1> HIDE DEF m
<1>6. v \in Nat /\ v + 1 \in Nat /\ w <= v /\ w <= v + 1 /\ v <= m + 1 /\ v + 1 <= m + 1
  BY <1>3, <1>5
<1>7. w <= m
  BY <1>5, <1>6
<1> QED
  BY <1>1, <1>4, <1>6, <1>7 DEF m

LEMMA PopAheadMoves ==
  ASSUME IInv, InStep, suspends = 0, NEW w \in Nat, Near(w, apLow),
         w % MaxSeq = u2WinStart, NEW a, PopAhead(a)
  PROVE  /\ rReOrderQue # <<>> /\ rReOrderQue' = Tail(rReOrderQue)
         /\ \E v \in Nat : /\ u2WinStart' = v % MaxSeq /\ w <= v
                           /\ v <= w + 1 \/ v <= rReOrderQue[1].n + 1
<1>1. CASE TakeNext(a)
  BY <1>1, TakeNextMoves
<1>2. CASE ~TakeNext(a)
  <2>1. /\ rReOrderQue # <<>> /\ rReOrderQue' = Tail(rReOrderQue) /\ u2WinStart' = Start0
    BY <1>2 DEF PopAhead, Release
  <2>2. PICK v \in {w, w + 1} : v \in Nat /\ Start0 = v % MaxSeq
    BY <2>1, StartIs
  <2>3. w <= v /\ v <= w + 1
    BY <2>2
  <2> QED
    BY <2>1, <2>2, <2>3
<1> QED
  BY <1>1, <1>2

-----------------------------------------------------------------------------
(* The loops.                                                              *)

LEMMA LoopIsValid ==
  ASSUME IInv, EndsClean, rxPc # "idle" \/ mainPc # "idle"
  PROVE  fgIsValid
BY DEF IInv, TypeOK, EndsClean

\* What an iteration of a loop, under the lock, does not touch.
LEMMA PopKeepsRest ==
  ASSUME OBody, rReOrderQue # <<>>, lock' # "none",
         UNCHANGED <<fgIsWaitingForPktWithSsn, fgFirstSnToWinStart, ring, rxPc, rxPkt>>
  PROVE  /\ fgIsWaitingForPktWithSsn' => rReOrderQue' = <<>>
         /\ fgFirstSnToWinStart' = FALSE /\ RingShape' /\ WaitingIsMarked'
<1>1. ~fgIsWaitingForPktWithSsn
  BY DEF OBody
<1>2. RingShape'
  BY DEF OBody, RingShape
<1> QED
  BY <1>1, <1>2 DEF OBody, WaitingIsMarked

LEMMA RxPopWithinOrders ==
  ASSUME Known, Known', suspends = 0, suspends' = 0, OBody, RxPopWithin
  PROVE  OBody'
<1>1. /\ IInv /\ EndsClean /\ InStep /\ IInv' /\ InStep'
      /\ rxPc = "within" /\ rxPc' = "within"
  BY DEF Known, RxPopWithin
<1>2. /\ UNCHANGED <<fgIsValid, fgFirstSnToWinStart, fgIsWaitingForPktWithSsn,
           fgIsAmsduDuplicated, ring, apLow, lock, rxPkt, rxPc, mainPc>>
      /\ rReOrderQue # <<>> /\ rReOrderQue' = Tail(rReOrderQue)
  BY DEF RxPopWithin, LoopFrame, TakeNext, Release, agreement, air
<1>3. fgIsValid /\ fgIsValid'
  BY <1>1, <1>2, LoopIsValid
<1>4. lock' = "rx" /\ mainPc' # "flush"
  BY <1>1, <1>2 DEF IInv, LockIsHeld
<1>5. PICK w \in Nat : Window(w)
  BY <1>3 DEF OBody
<1>6. Near(w, apLow) /\ w % MaxSeq = u2WinStart /\ Inc(rReOrderQue) /\ Rests(rReOrderQue, w)
  BY <1>1, <1>5 DEF Window, Phase
<1>7. \E v \in Nat : /\ u2WinStart' = v % MaxSeq
                     /\ w <= v /\ v <= rReOrderQue[1].n + 1
  <2>1. CASE TakeNext("rx")
    BY <1>1, <1>6, <2>1, TakeNextMoves
  <2>2. CASE ~TakeNext("rx")
    <3> DEFINE h == rReOrderQue[1]
    <3>1. u2WinStart' = Advance(SN(Head(rReOrderQue)), 1)
      BY <2>2 DEF RxPopWithin
    <3>2. Head(rReOrderQue) = h /\ h \in Parts /\ 1 \in 1 .. Len(rReOrderQue)
      <4>1. rReOrderQue \in Seq(Parts) /\ rReOrderQue # <<>>
        BY <1>1, <1>2 DEF IInv, TypeOK
      <4> QED
        BY <4>1
    <3>3. 2 * w <= Pos(h)
      BY <1>6, <3>2 DEF Rests
    <3> HIDE DEF h
    <3>4. h.n + 1 \in Nat /\ u2WinStart' = (h.n + 1) % MaxSeq
      BY <3>1, <3>2, AdvanceIsNext
    <3>5. w <= h.n + 1
      <4>1. h.n \in Nat /\ Pos(h) \in Nat /\ Pos(h) <= 2 * h.n + 2
        BY <3>2, PosIs
      <4> DEFINE m == h.n
                 c == Pos(h)
      <4>2. m \in Nat /\ c \in Nat /\ c <= 2 * m + 2 /\ 2 * w <= c
        BY <3>3, <4>1
      <4> HIDE DEF m, c
      <4>3. w <= m + 1
        BY <4>2
      <4> QED
        BY <4>3 DEF m
    <3>6. h.n + 1 <= h.n + 1
      BY <3>4
    <3> QED
      BY <3>4, <3>5, <3>6 DEF h
  <2> QED
    BY <2>1, <2>2
<1>8. PICK v \in Nat : /\ u2WinStart' = v % MaxSeq
                       /\ w <= v /\ v <= rReOrderQue[1].n + 1
  BY <1>7
<1>9. Near(v, apLow') /\ Inc(rReOrderQue') /\ LastIsNew(v)'
  BY <1>1, <1>2, <1>3, <1>5, <1>8, HeadLeaves
<1>10. Rests(rReOrderQue', v)
  <2>1. rReOrderQue \in Seq(Parts)
    BY <1>1 DEF IInv, TypeOK
  <2>2. Leads(rReOrderQue, w)
    BY <1>6, <2>1, RestsLeads
  <2> QED
    BY <1>2, <1>6, <1>8, <2>1, <2>2, TailRests
<1>11. Window(v)'
  BY <1>1, <1>4, <1>8, <1>9, <1>10 DEF Window, Phase
<1>12. /\ fgIsWaitingForPktWithSsn' => rReOrderQue' = <<>>
       /\ fgFirstSnToWinStart' = FALSE /\ RingShape' /\ WaitingIsMarked'
  BY <1>2, <1>4, PopKeepsRest
<1> QED
  BY <1>11, <1>12 DEF OBody

LEMMA RxPopAheadOrders ==
  ASSUME Known, Known', suspends = 0, suspends' = 0, OBody, RxPopAhead
  PROVE  OBody'
<1>1. /\ IInv /\ EndsClean /\ InStep /\ IInv' /\ InStep' /\ PopAhead("rx")
      /\ rxPc \in {"ahead", "barAhead"}
  BY DEF Known, RxPopAhead
<1>2. UNCHANGED <<fgIsValid, fgFirstSnToWinStart, fgIsWaitingForPktWithSsn,
        fgIsAmsduDuplicated, ring, apLow, lock, rxPkt, rxPc, mainPc>>
  BY DEF RxPopAhead, LoopFrame, agreement, air
<1>3. fgIsValid /\ fgIsValid'
  BY <1>1, <1>2, LoopIsValid
<1>4. lock' = "rx" /\ mainPc' # "flush"
  BY <1>1, <1>2 DEF IInv, LockIsHeld
<1>5. PICK w \in Nat : Window(w)
  BY <1>3 DEF OBody
<1>6. Near(w, apLow) /\ w % MaxSeq = u2WinStart /\ Inc(rReOrderQue) /\ Leads(rReOrderQue, w)
  BY <1>1, <1>5 DEF Window, Phase
<1>7. /\ rReOrderQue # <<>> /\ rReOrderQue' = Tail(rReOrderQue)
      /\ \E v \in Nat : /\ u2WinStart' = v % MaxSeq /\ w <= v
                        /\ v <= w + 1 \/ v <= rReOrderQue[1].n + 1
  BY <1>1, <1>6, PopAheadMoves
<1>8. PICK v \in Nat : /\ u2WinStart' = v % MaxSeq /\ w <= v
                       /\ v <= w + 1 \/ v <= rReOrderQue[1].n + 1
  BY <1>7
<1>9. Near(v, apLow') /\ Inc(rReOrderQue') /\ LastIsNew(v)'
  BY <1>1, <1>2, <1>3, <1>5, <1>7, <1>8, HeadLeaves
<1>10. Leads(rReOrderQue', v)
  <2>1. rReOrderQue \in Seq(Parts)
    BY <1>1 DEF IInv, TypeOK
  <2> QED
    BY <1>6, <1>7, <1>8, <2>1, TailLeads
<1>11. Window(v)'
  BY <1>1, <1>2, <1>4, <1>8, <1>9, <1>10 DEF Window, Phase
<1>12. /\ fgIsWaitingForPktWithSsn' => rReOrderQue' = <<>>
       /\ fgFirstSnToWinStart' = FALSE /\ RingShape' /\ WaitingIsMarked'
  BY <1>2, <1>4, <1>7, PopKeepsRest
<1> QED
  BY <1>11, <1>12 DEF OBody

\* main_thread releases all that is queued: each part is behind the window.
LEMMA FlushPopOrders ==
  ASSUME Known, Known', suspends = 0, suspends' = 0, OBody, FlushPop
  PROVE  OBody'
<1>1. /\ IInv /\ EndsClean /\ InStep /\ IInv' /\ InStep' /\ PopAhead("main")
      /\ mainPc = "flush"
  BY DEF Known, FlushPop
<1>2. UNCHANGED <<fgIsValid, fgFirstSnToWinStart, fgIsWaitingForPktWithSsn,
        fgIsAmsduDuplicated, ring, apLow, lock, rxPkt, rxPc, mainPc>>
  BY DEF FlushPop, LoopFrame, agreement, air
<1>3. fgIsValid /\ fgIsValid'
  BY <1>1, <1>2, LoopIsValid
<1>4. lock' = "main" /\ rxPc' \notin {"within", "ahead", "barAhead"}
  BY <1>1, <1>2 DEF IInv, LockIsHeld
<1>5. PICK w \in Nat : Window(w)
  BY <1>3 DEF OBody
<1>6. Near(w, apLow) /\ w % MaxSeq = u2WinStart /\ Inc(rReOrderQue) /\ Behind(rReOrderQue, w)
  BY <1>1, <1>5 DEF Window, Phase
<1>7. /\ rReOrderQue # <<>> /\ rReOrderQue' = Tail(rReOrderQue)
      /\ \E v \in Nat : /\ u2WinStart' = v % MaxSeq /\ w <= v
                        /\ v <= w + 1 \/ v <= rReOrderQue[1].n + 1
  BY <1>1, <1>6, PopAheadMoves
<1>8. PICK v \in Nat : /\ u2WinStart' = v % MaxSeq /\ w <= v
                       /\ v <= w + 1 \/ v <= rReOrderQue[1].n + 1
  BY <1>7
<1>9. Near(v, apLow') /\ Inc(rReOrderQue') /\ LastIsNew(v)'
  BY <1>1, <1>2, <1>3, <1>5, <1>7, <1>8, HeadLeaves
<1>10. Behind(rReOrderQue', v)
  <2>1. rReOrderQue \in Seq(Parts)
    BY <1>1 DEF IInv, TypeOK
  <2> QED
    BY <1>6, <1>7, <1>8, <2>1, TailLeads
<1>11. Window(v)'
  BY <1>1, <1>2, <1>4, <1>8, <1>9, <1>10 DEF Window, Phase
<1>12. /\ fgIsWaitingForPktWithSsn' => rReOrderQue' = <<>>
       /\ fgFirstSnToWinStart' = FALSE /\ RingShape' /\ WaitingIsMarked'
  BY <1>2, <1>4, <1>7, PopKeepsRest
<1> QED
  BY <1>11, <1>12 DEF OBody

LEMMA LoopEndMoves ==
  ASSUME IInv, InStep, suspends = 0, NEW w \in Nat, Near(w, apLow),
         w % MaxSeq = u2WinStart, NEW stays, LoopEnds(stays)
  PROVE  \E v \in Nat :
           /\ u2WinStart' = v % MaxSeq /\ w <= v /\ v <= w + 1
           /\ rReOrderQue = <<>> => v = w
           /\ v # w => rReOrderQue # <<>> /\ v <= rReOrderQue[1].n
           /\ rReOrderQue # <<>> =>
                /\ rReOrderQue[1].n # v
                /\ stays
                /\ qmCompareSnIsLessThan(SN(Head(rReOrderQue)), Start0)
                     <=> rReOrderQue[1].n < v
<1>1. CASE rReOrderQue = <<>>
  <2>1. u2WinStart' = w % MaxSeq /\ w <= w /\ w <= w + 1
    BY <1>1 DEF LoopEnds
  <2> QED
    BY <1>1, <2>1
<1>2. CASE rReOrderQue # <<>>
  <2>1. SN(Head(rReOrderQue)) # Start0 /\ stays /\ u2WinStart' = Start0
    BY <1>2 DEF LoopEnds
  <2>2. PICK v \in {w, w + 1} :
           /\ v \in Nat /\ Start0 = v % MaxSeq
           /\ v = w + 1 => w < rReOrderQue[1].n
           /\ SN(Head(rReOrderQue)) = Start0 <=> rReOrderQue[1].n = v
           /\ qmCompareSnIsLessThan(SN(Head(rReOrderQue)), Start0)
                <=> rReOrderQue[1].n < v
    BY <1>2, StartIs
  <2> DEFINE m == rReOrderQue[1].n
  <2>3. m \in Nat
    <3>1. 1 \in 1 .. Len(rReOrderQue)
      <4>1. rReOrderQue \in Seq(Parts)
        BY DEF IInv, TypeOK
      <4> QED
        BY <1>2, <4>1
    <3> QED
      BY <3>1, QueueIsClose
  <2>4. v = w + 1 => w < m
    BY <2>2
  <2> HIDE DEF m
  <2>5. w <= v /\ v <= w + 1 /\ (v # w => v <= m)
    BY <2>2, <2>3, <2>4
  <2> QED
    BY <1>2, <2>1, <2>2, <2>5 DEF m
<1> QED
  BY <1>1, <1>2

\* A loop that ends with the queue at rest.
LEMMA EndsOrdered ==
  ASSUME IInv, IInv', InStep, InStep', suspends = 0, suspends' = 0, fgIsValid',
         NEW w \in Nat, Window(w), NEW v \in Nat, w <= v, v <= w + 1,
         AtRest(rReOrderQue, v), rReOrderQue' = rReOrderQue, u2WinStart' = v % MaxSeq,
         UNCHANGED <<apLow, fgIsAmsduDuplicated, ring>>,
         rxPc' \notin {"within", "ahead", "barAhead"}, mainPc' # "flush",
         \/ rxPc # "insert" /\ rxPc' # "insert"
         \/ UNCHANGED <<rxPc, rxPkt>>
  PROVE  Window(v)'
<1>1. Near(w, apLow) /\ Inc(rReOrderQue) /\ LastIsNew(w) /\ apLow \in Nat
  BY DEF Window, IInv, TypeOK
<1>2. LastIsNew(v)'
  <2>1. \A i \in 1 .. Len(rReOrderQue') :
           \E j \in 1 .. Len(rReOrderQue) : rReOrderQue'[i] = rReOrderQue[j]
    OBVIOUS
  <2>2. \A n \in Nat : LastComing(n)' => LastComing(n)
    BY DEF LastComing
  <2> QED
    BY <1>1, <2>1, <2>2, NewStays
<1>3. Near(v, apLow')
  <2>1. v - apLow <= 3 * Quarter /\ apLow - v <= 3 * Quarter
    BY <1>1, Quarters DEF Near
  <2> QED
    BY <2>1, StaysNear
<1> QED
  BY <1>1, <1>2, <1>3 DEF Window, Phase

LEMMA RxWithinEndsOrders ==
  ASSUME Known, Known', suspends = 0, suspends' = 0, OBody, RxWithinEnds
  PROVE  OBody'
<1>1. /\ IInv /\ EndsClean /\ InStep /\ IInv' /\ InStep' /\ LoopEnds(~MissOver)
      /\ rxPc = "within" /\ rxPc' = "deliver" /\ lock' = "none"
  BY DEF Known, RxWithinEnds
<1>2. /\ UNCHANGED <<fgIsValid, fgFirstSnToWinStart, fgIsWaitingForPktWithSsn,
           fgIsAmsduDuplicated, ring, apLow, mainPc>>
      /\ rReOrderQue' = rReOrderQue
  BY DEF RxWithinEnds, LoopFrame, LoopEnds, NothingReleased, agreement, air
<1>3. fgIsValid /\ fgIsValid' /\ mainPc' # "flush"
  BY <1>1, <1>2, LoopIsValid DEF IInv, LockIsHeld
<1>4. PICK w \in Nat : Window(w)
  BY <1>3 DEF OBody
<1>5. /\ Near(w, apLow) /\ w % MaxSeq = u2WinStart /\ Inc(rReOrderQue)
      /\ Rests(rReOrderQue, w) /\ rReOrderQue \in Seq(Parts)
  BY <1>1, <1>4 DEF Window, Phase, IInv, TypeOK
<1>6. PICK v \in Nat :
        /\ u2WinStart' = v % MaxSeq /\ w <= v /\ v <= w + 1
        /\ v # w => rReOrderQue # <<>> /\ v <= rReOrderQue[1].n
        /\ rReOrderQue # <<>> => rReOrderQue[1].n # v
  BY <1>1, <1>5, LoopEndMoves
<1>7. Rests(rReOrderQue, v)
  <2>1. CASE v = w
    BY <1>5, <2>1
  <2>2. CASE v # w
    <3>1. Leads(rReOrderQue, w)
      BY <1>5, RestsLeads
    <3> QED
      BY <1>5, <1>6, <2>2, <3>1, EndRests
  <2> QED
    BY <2>1, <2>2
<1>8. AtRest(rReOrderQue, v)
  BY <1>6, <1>7 DEF AtRest
<1>9. Window(v)'
  BY <1>1, <1>2, <1>3, <1>4, <1>6, <1>8, EndsOrdered
<1>10. WaitingIsMarked'
  <2>1. rReOrderQue # <<>> => fgHasBubble'
    BY <1>1 DEF RxWithinEnds, StartBubbleTimer, bubble
  <2> QED
    BY <1>2, <2>1 DEF WaitingIsMarked
<1>11. RingShape'
  BY <1>1, <1>2 DEF OBody, RingShape
<1> QED
  BY <1>2, <1>9, <1>10, <1>11 DEF OBody

LEMMA RxAheadEndsOrders ==
  ASSUME Known, Known', suspends = 0, suspends' = 0, OBody, RxAheadEnds
  PROVE  OBody'
<1>1. /\ IInv /\ EndsClean /\ InStep /\ IInv' /\ InStep' /\ LoopEnds(HeadIsAhead)
      /\ rxPc \in {"ahead", "barAhead"} /\ rxPc' = "deliver" /\ lock' = "none"
  BY DEF Known, RxAheadEnds
<1>2. /\ UNCHANGED <<fgIsValid, fgFirstSnToWinStart, fgIsWaitingForPktWithSsn,
           fgIsAmsduDuplicated, ring, apLow, mainPc>>
      /\ rReOrderQue' = rReOrderQue
  BY DEF RxAheadEnds, LoopFrame, LoopEnds, NothingReleased, agreement, air
<1>3. fgIsValid /\ fgIsValid' /\ mainPc' # "flush"
  BY <1>1, <1>2, LoopIsValid DEF IInv, LockIsHeld
<1>4. PICK w \in Nat : Window(w)
  BY <1>3 DEF OBody
<1>5. /\ Near(w, apLow) /\ w % MaxSeq = u2WinStart /\ Inc(rReOrderQue)
      /\ Leads(rReOrderQue, w) /\ rReOrderQue \in Seq(Parts)
  BY <1>1, <1>4 DEF Window, Phase, IInv, TypeOK
<1>6. PICK v \in Nat :
        /\ u2WinStart' = v % MaxSeq /\ w <= v /\ v <= w + 1
        /\ rReOrderQue # <<>> =>
             /\ rReOrderQue[1].n # v
             /\ HeadIsAhead
             /\ qmCompareSnIsLessThan(SN(Head(rReOrderQue)), Start0)
                  <=> rReOrderQue[1].n < v
  BY <1>1, <1>5, LoopEndMoves
<1>7. AtRest(rReOrderQue, v)
  <2>1. CASE rReOrderQue = <<>>
    BY <2>1 DEF AtRest, Rests
  <2>2. CASE rReOrderQue # <<>>
    <3>1. ~(rReOrderQue[1].n < v) /\ rReOrderQue[1].n # v
      BY <1>6, <2>2 DEF HeadIsAhead
    <3>2. rReOrderQue[1].n \in Nat
      <4>1. 1 \in 1 .. Len(rReOrderQue)
        BY <1>5, <2>2
      <4> QED
        BY <1>1, <1>5, <4>1, QueueIsClose
    <3>3. v <= rReOrderQue[1].n
      BY <3>1, <3>2
    <3>4. Rests(rReOrderQue, v)
      BY <1>5, <1>6, <2>2, <3>3, EndRests
    <3> QED
      BY <3>1, <3>4 DEF AtRest
  <2> QED
    BY <2>1, <2>2
<1>8. Window(v)'
  BY <1>1, <1>2, <1>3, <1>4, <1>6, <1>7, EndsOrdered
<1>9. WaitingIsMarked'
  <2>1. rReOrderQue # <<>> => fgHasBubble'
    BY DEF RxAheadEnds, StartBubbleTimer, bubble
  <2> QED
    BY <1>2, <2>1 DEF WaitingIsMarked
<1>10. RingShape'
  BY <1>1, <1>2 DEF OBody, RingShape
<1> QED
  BY <1>2, <1>8, <1>9, <1>10 DEF OBody

\* The flush ends with an empty queue: that is why main_thread may clear the
\* mark of the bubble.
LEMMA FlushEndsOrders ==
  ASSUME Known, Known', suspends = 0, suspends' = 0, OBody, FlushEnds
  PROVE  OBody' /\ rReOrderQue' = <<>>
<1>1. /\ IInv /\ EndsClean /\ InStep /\ IInv' /\ InStep' /\ LoopEnds(HeadIsAhead)
      /\ mainPc = "flush" /\ mainPc' = "deliver" /\ lock' = "none"
  BY DEF Known, FlushEnds
<1>2. /\ UNCHANGED <<fgIsValid, fgFirstSnToWinStart, fgIsWaitingForPktWithSsn,
           fgIsAmsduDuplicated, ring, apLow, rxPc, rxPkt>>
      /\ rReOrderQue' = rReOrderQue
  BY DEF FlushEnds, LoopFrame, LoopEnds, NothingReleased, agreement, air
<1>3. fgIsValid /\ fgIsValid' /\ rxPc' \notin {"within", "ahead", "barAhead"}
  BY <1>1, <1>2, LoopIsValid DEF IInv, LockIsHeld
<1>4. PICK w \in Nat : Window(w)
  BY <1>3 DEF OBody
<1>5. /\ Near(w, apLow) /\ w % MaxSeq = u2WinStart /\ Inc(rReOrderQue)
      /\ Behind(rReOrderQue, w) /\ rReOrderQue \in Seq(Parts)
  BY <1>1, <1>4 DEF Window, Phase, IInv, TypeOK
<1>6. PICK v \in Nat :
        /\ u2WinStart' = v % MaxSeq /\ w <= v /\ v <= w + 1
        /\ rReOrderQue # <<>> =>
             /\ rReOrderQue[1].n # v
             /\ HeadIsAhead
             /\ qmCompareSnIsLessThan(SN(Head(rReOrderQue)), Start0)
                  <=> rReOrderQue[1].n < v
  BY <1>1, <1>5, LoopEndMoves
<1>7. rReOrderQue = <<>>
  <2> SUFFICES ASSUME rReOrderQue # <<>> PROVE FALSE
    OBVIOUS
  <2> DEFINE m == rReOrderQue[1].n
  <2>1. ~(m < v)
    BY <1>6 DEF HeadIsAhead
  <2>2. 1 \in 1 .. Len(rReOrderQue)
    BY <1>5
  <2>3. m \in Nat
    BY <1>1, <1>5, <2>2, QueueIsClose
  <2>4. m < w
    BY <1>5, <2>2 DEF Behind
  <2> HIDE DEF m
  <2> QED
    BY <1>6, <2>1, <2>3, <2>4
<1>8. AtRest(rReOrderQue, v)
  BY <1>7 DEF AtRest, Rests
<1>9. Window(v)'
  BY <1>1, <1>2, <1>3, <1>4, <1>6, <1>8, EndsOrdered
<1>10. WaitingIsMarked'
  BY <1>2, <1>7 DEF WaitingIsMarked
<1>11. RingShape'
  BY <1>1, <1>2 DEF OBody, RingShape
<1> QED
  BY <1>2, <1>7, <1>9, <1>10, <1>11 DEF OBody

-----------------------------------------------------------------------------
(* The three cases of qmInsertReorderPkt, and BARs.                        *)

\* What rx knows of its frame when it has the lock.
LEMMA LockedContext ==
  ASSUME Known, suspends = 0, OBody, RxLocks, NEW w \in Nat, Window(w)
  PROVE  /\ rxPkt \in Parts /\ rxPkt.n \in Nat /\ Near(rxPkt.n, apLow)
         /\ apLow \in Nat /\ rReOrderQue \in Seq(Parts)
         /\ Near(w, apLow) /\ Close(rxPkt.n, w)
         /\ SN(rxPkt) = rxPkt.n % MaxSeq
         /\ Inc(rReOrderQue) /\ AtRest(rReOrderQue, w)
         /\ \A i \in 1 .. Len(rReOrderQue) : Close(rReOrderQue[i].n, rxPkt.n)
         /\ u2WinStart = w % MaxSeq
         /\ SeenStart = w % MaxSeq /\ SeenEnd = WinEnd(w % MaxSeq)
         /\ UNCHANGED <<fgIsValid, apLow, ring, mainPc>>
         /\ mainPc # "flush" /\ fgFirstSnToWinStart' = FALSE
<1>1. /\ IInv /\ InStep /\ rxPc = "insert" /\ lock = "none"
  BY DEF Known, RxLocks
<1>2. /\ rxPkt \in Parts /\ mainPc # "flush" /\ apLow \in Nat
      /\ rReOrderQue \in Seq(Parts) /\ u2WinEnd = WinEnd(u2WinStart)
  BY <1>1 DEF IInv, InsertsParts, LockIsHeld, WindowIsAgreed, TypeOK
<1>3. rxPkt.n \in Nat /\ Near(rxPkt.n, apLow) /\ SN(rxPkt) = rxPkt.n % MaxSeq
  BY <1>1, <1>2, PosIs DEF InStep, SN
<1>4. /\ Near(w, apLow) /\ w % MaxSeq = u2WinStart /\ Inc(rReOrderQue)
      /\ AtRest(rReOrderQue, w)
  BY <1>1 DEF Window, Phase
<1> DEFINE n == rxPkt.n
<1>5. n \in Nat /\ Near(n, apLow)
  BY <1>3
<1> HIDE DEF n
<1>6. Close(n, w)
  BY <1>2, <1>4, <1>5, Quarters DEF Near, Close
<1>7. ASSUME NEW i \in 1 .. Len(rReOrderQue) PROVE Close(rReOrderQue[i].n, n)
  <2> DEFINE m == rReOrderQue[i].n
  <2>1. m \in Nat /\ Near(m, apLow)
    BY <1>1, <1>4, QueueIsClose
  <2> HIDE DEF m
  <2>2. Close(m, n)
    BY <1>2, <1>5, <2>1, Quarters DEF Near, Close
  <2> QED
    BY <2>2 DEF m
<1>8. fgFirstSnToWinStart = FALSE
  BY DEF OBody
<1>9. /\ UNCHANGED <<fgIsValid, apLow, ring, mainPc>> /\ fgFirstSnToWinStart' = FALSE
  BY DEF RxLocks, mainVars, air
<1> QED
  BY <1>2, <1>3, <1>4, <1>6, <1>7, <1>8, <1>9 DEF n, SeenStart, SeenEnd

LEMMA RxFallsWithinOrders ==
  ASSUME Known, Known', suspends = 0, suspends' = 0, OBody, RxFallsWithin
  PROVE  OBody'
<1>1. /\ IInv /\ EndsClean /\ RxLocks /\ rxPc = "insert" /\ rxPc' = "within"
      /\ lock' = "rx" /\ fgIsWaitingForPktWithSsn' = FALSE /\ UNCHANGED rxPkt
      /\ FallsWithin(SN(rxPkt), SeenStart, SeenEnd) /\ qmInsertFallWithinReorderPkt
      /\ u2WinStart' = IF fgIsWaitingForPktWithSsn THEN SN(rxPkt) ELSE SeenStart
      /\ TypeOK
  BY DEF Known, RxFallsWithin, RxLocks, IInv
<1>2. fgIsValid
  BY <1>1, LoopIsValid
<1>3. PICK w \in Nat : Window(w)
  BY <1>2 DEF OBody
<1>4. /\ rxPkt \in Parts /\ rxPkt.n \in Nat /\ Near(rxPkt.n, apLow)
      /\ rReOrderQue \in Seq(Parts)
      /\ Near(w, apLow) /\ Close(rxPkt.n, w)
      /\ SN(rxPkt) = rxPkt.n % MaxSeq
      /\ Inc(rReOrderQue) /\ AtRest(rReOrderQue, w)
      /\ \A i \in 1 .. Len(rReOrderQue) : Close(rReOrderQue[i].n, rxPkt.n)
      /\ SeenStart = w % MaxSeq /\ SeenEnd = WinEnd(w % MaxSeq)
      /\ UNCHANGED <<fgIsValid, apLow, ring, mainPc>>
      /\ mainPc # "flush" /\ fgFirstSnToWinStart' = FALSE
  BY <1>1, <1>3, LockedContext
<1> DEFINE n == rxPkt.n
<1>5. w <= n /\ n < w + WinSize
  BY <1>1, <1>4, WindowIs
<1>6. rxPkt.fmt = "LAST" /\ LastQueued => fgIsAmsduDuplicated
  <2> SUFFICES ASSUME rxPkt.fmt = "LAST", NEW i \in 1 .. Len(rReOrderQue),
                      rReOrderQue[i].fmt = "LAST", rReOrderQue[i].n = n
               PROVE  fgIsAmsduDuplicated
    BY DEF LastQueued
  <2>1. LastComing(n)
    BY <1>1 DEF LastComing
  <2>2. LastIsNew(w)
    BY <1>3 DEF Window
  <2>3. fgIsAmsduDuplicated \/ n < w
    BY <1>4, <2>1, <2>2 DEF LastIsNew
  <2> QED
    BY <1>4, <1>5, <2>3
<1>7. /\ Inc(rReOrderQue')
      /\ \A i \in 1 .. Len(rReOrderQue') :
           \/ rReOrderQue'[i] = rxPkt
           \/ \E j \in 1 .. Len(rReOrderQue) : rReOrderQue'[i] = rReOrderQue[j]
      /\ rxPkt.fmt = "FIRST" /\ LastQueued => fgIsAmsduDuplicated'
  BY <1>1, <1>4, <1>6, InsertKeepsOrder
<1>8. ASSUME NEW v \in Nat PROVE LastIsNew(v)'
  <2> SUFFICES ASSUME NEW m \in Nat, NEW i \in 1 .. Len(rReOrderQue'), LastComing(m)',
                      rReOrderQue'[i].fmt = "LAST", rReOrderQue'[i].n = m
               PROVE  fgIsAmsduDuplicated'
    BY DEF LastIsNew
  <2>1. ring # <<>> /\ ring[1].fmt = "LAST" /\ ring[1].n = m
    BY <1>1, <1>4 DEF LastComing
  <2>2. rxPkt.n = m /\ rxPkt.fmt = "FIRST"
    BY <1>1, <2>1 DEF OBody, RingShape
  <2>3. LastQueued
    BY <1>7, <2>2 DEF LastQueued
  <2> QED
    BY <1>7, <2>2, <2>3
<1>9. \E v \in Nat : /\ Near(v, apLow') /\ v % MaxSeq = u2WinStart'
                     /\ Rests(rReOrderQue', v)
  <2>1. 2 * n + 1 <= Pos(rxPkt) /\ Pos(rxPkt) \in Nat
    BY <1>4, PosIs
  <2>2. CASE fgIsWaitingForPktWithSsn
    <3>1. rReOrderQue = <<>>
      BY <2>2 DEF OBody
    <3>2. 2 * n <= Pos(rxPkt) /\ n < n + WinSize
      BY <1>4, <2>1, Sizes
    <3>3. ASSUME NEW i \in 1 .. Len(rReOrderQue')
          PROVE  2 * n <= Pos(rReOrderQue'[i]) /\ rReOrderQue'[i].n < n + WinSize
      <4>1. rReOrderQue'[i] = rxPkt
        BY <1>7, <3>1
      <4> QED
        BY <3>2, <4>1
    <3>4. Rests(rReOrderQue', n)
      BY <3>3 DEF Rests
    <3> QED
      BY <1>1, <1>4, <2>2, <3>4
  <2>3. CASE ~fgIsWaitingForPktWithSsn
    <3>1. 2 * w <= Pos(rxPkt)
      BY <1>4, <1>5, <2>1
    <3>2. ASSUME NEW i \in 1 .. Len(rReOrderQue')
          PROVE  2 * w <= Pos(rReOrderQue'[i]) /\ rReOrderQue'[i].n < w + WinSize
      <4>1. CASE rReOrderQue'[i] = rxPkt
        BY <1>5, <3>1, <4>1
      <4>2. CASE \E j \in 1 .. Len(rReOrderQue) : rReOrderQue'[i] = rReOrderQue[j]
        <5>1. PICK j \in 1 .. Len(rReOrderQue) : rReOrderQue'[i] = rReOrderQue[j]
          BY <4>2
        <5> QED
          BY <1>4, <5>1 DEF AtRest, Rests
      <4> QED
        BY <1>7, <4>1, <4>2
    <3>3. Rests(rReOrderQue', w)
      BY <3>2 DEF Rests
    <3> QED
      BY <1>1, <1>4, <2>3, <3>3
  <2> QED
    BY <2>2, <2>3
<1>10. \E v \in Nat : Window(v)'
  <2>1. PICK v \in Nat : /\ Near(v, apLow') /\ v % MaxSeq = u2WinStart'
                         /\ Rests(rReOrderQue', v)
    BY <1>9
  <2>2. Phase(v)'
    BY <1>1, <1>4, <2>1 DEF Phase
  <2>3. Window(v)'
    BY <1>7, <1>8, <2>1, <2>2 DEF Window
  <2> QED
    BY <2>3
<1>11. RingShape' /\ WaitingIsMarked'
  BY <1>1, <1>4 DEF OBody, RingShape, WaitingIsMarked
<1> QED
  BY <1>1, <1>4, <1>10, <1>11 DEF OBody

LEMMA RxFallsAheadOrders ==
  ASSUME Known, Known', suspends = 0, suspends' = 0, OBody, RxFallsAhead
  PROVE  OBody'
<1>1. /\ IInv /\ EndsClean /\ RxLocks /\ rxPc = "insert" /\ rxPc' = "ahead"
      /\ lock' = "rx" /\ fgIsWaitingForPktWithSsn' = FALSE /\ UNCHANGED rxPkt
      /\ FallsAhead(SN(rxPkt), SeenStart, SeenEnd)
      /\ rReOrderQue' = Append(rReOrderQue, rxPkt)
      /\ u2WinStart' = Advance(SN(rxPkt), MaxSeq - WinSize + 1)
      /\ IInv' /\ InStep'
  BY DEF Known, RxFallsAhead, RxLocks
<1>2. fgIsValid
  BY <1>1, LoopIsValid
<1>3. PICK w \in Nat : Window(w)
  BY <1>2 DEF OBody
<1>4. /\ rxPkt \in Parts /\ rxPkt.n \in Nat /\ Near(rxPkt.n, apLow)
      /\ apLow \in Nat /\ rReOrderQue \in Seq(Parts) /\ Close(rxPkt.n, w)
      /\ SN(rxPkt) = rxPkt.n % MaxSeq
      /\ Inc(rReOrderQue) /\ AtRest(rReOrderQue, w)
      /\ SeenStart = w % MaxSeq /\ SeenEnd = WinEnd(w % MaxSeq)
      /\ UNCHANGED <<fgIsValid, apLow, ring, mainPc>>
      /\ mainPc # "flush" /\ fgFirstSnToWinStart' = FALSE
  BY <1>1, <1>3, LockedContext
<1> DEFINE n == rxPkt.n
<1>5. w + WinSize <= n
  BY <1>1, <1>4, WindowIs
<1>6. n \in Nat /\ Near(n, apLow)
  BY <1>4
<1>7. PICK v \in Nat : v = n - WinSize + 1 /\ v % MaxSeq = u2WinStart'
  <2>1. n >= WinSize
    BY <1>5, <1>6, Sizes
  <2> QED
    BY <1>1, <1>4, <2>1, AdvanceBack
<1>8. v - apLow <= 3 * Quarter /\ apLow - v <= 3 * Quarter /\ v + WinSize = n + 1
  <2> HIDE DEF n
  <2> QED
    BY <1>4, <1>6, <1>7, Quarters DEF Near
<1>9. 2 * n + 1 <= Pos(rxPkt) /\ Pos(rxPkt) \in Nat
  BY <1>4, PosIs
<1>10. Near(v, apLow')
  BY <1>1, <1>2, <1>4, <1>7, <1>8, StaysNear
<1>11. ASSUME NEW i \in 1 .. Len(rReOrderQue)
       PROVE  /\ rReOrderQue[i].n < n /\ rReOrderQue[i].n \in Nat
              /\ Pos(rReOrderQue[i]) < Pos(rxPkt)
  <2> DEFINE e == rReOrderQue[i]
  <2>1. e \in Parts /\ e.n < w + WinSize
    BY <1>4 DEF AtRest, Rests
  <2> HIDE DEF e
  <2>2. e.n \in Nat /\ Pos(e) \in Nat /\ Pos(e) <= 2 * e.n + 2
    BY <2>1, PosIs
  <2>3. e.n < n
    BY <1>5, <1>6, <2>1, <2>2, Sizes
  <2>4. Pos(e) < Pos(rxPkt)
    BY <1>6, <1>9, <2>2, <2>3
  <2> QED
    BY <2>2, <2>3, <2>4 DEF e
<1>12. /\ Inc(rReOrderQue')
       /\ \A i \in 1 .. Len(rReOrderQue') :
            \/ rReOrderQue'[i] = rxPkt
            \/ \E j \in 1 .. Len(rReOrderQue) : rReOrderQue'[i] = rReOrderQue[j]
  BY <1>1, <1>4, <1>11, AppendInc
<1>13. ASSUME NEW i \in 1 .. Len(rReOrderQue') PROVE rReOrderQue'[i].n < v + WinSize
  <2>1. n < v + WinSize
    BY <1>6, <1>8
  <2>2. CASE rReOrderQue'[i] = rxPkt
    BY <2>1, <2>2
  <2>3. CASE \E j \in 1 .. Len(rReOrderQue) : rReOrderQue'[i] = rReOrderQue[j]
    <3>1. PICK j \in 1 .. Len(rReOrderQue) : rReOrderQue'[i] = rReOrderQue[j]
      BY <2>3
    <3> DEFINE m == rReOrderQue[j].n
    <3>2. m < n /\ m \in Nat /\ rReOrderQue'[i].n = m
      BY <1>11, <3>1
    <3> HIDE DEF m, n
    <3>3. m < v + WinSize
      BY <1>6, <1>8, <3>2
    <3> QED
      BY <3>2, <3>3
  <2> QED
    BY <1>12, <2>2, <2>3
<1>14. Leads(rReOrderQue', v)
  BY <1>13 DEF Leads
<1>15. LastIsNew(v)'
  <2> SUFFICES ASSUME NEW m \in Nat, NEW i \in 1 .. Len(rReOrderQue'), LastComing(m)',
                      rReOrderQue'[i].fmt = "LAST", rReOrderQue'[i].n = m
               PROVE  FALSE
    BY DEF LastIsNew
  <2>1. ring # <<>> /\ ring[1].fmt = "LAST" /\ ring[1].n = m
    BY <1>1, <1>4 DEF LastComing
  <2>2. n = m /\ rxPkt.fmt = "FIRST"
    BY <1>1, <2>1 DEF OBody, RingShape
  <2>3. PICK j \in 1 .. Len(rReOrderQue) : rReOrderQue'[i] = rReOrderQue[j]
    BY <1>12, <2>2
  <2>4. rReOrderQue[j].n < n /\ rReOrderQue[j].n = n
    BY <1>11, <2>2, <2>3
  <2> QED
    BY <1>6, <2>4
<1>16. Window(v)'
  <2>1. Phase(v)'
    BY <1>1, <1>4, <1>14 DEF Phase
  <2> QED
    BY <1>7, <1>10, <1>12, <1>15, <2>1 DEF Window
<1>17. RingShape' /\ WaitingIsMarked'
  BY <1>1, <1>4 DEF OBody, RingShape, WaitingIsMarked
<1> QED
  BY <1>1, <1>4, <1>7, <1>16, <1>17 DEF OBody

LEMMA RxFallsBehindOrders ==
  ASSUME Known, Known', suspends = 0, suspends' = 0, OBody,
         RxPassesBehind \/ RxDropsBehind
  PROVE  OBody'
<1>1. /\ IInv /\ EndsClean /\ RxLocks /\ rxPc = "insert" /\ rxPc' \in {"idle", "deliver"}
      /\ lock = "none" /\ u2WinStart' = SeenStart
      /\ ~FallsWithin(SN(rxPkt), SeenStart, SeenEnd)
      /\ ~FallsAhead(SN(rxPkt), SeenStart, SeenEnd)
      /\ UNCHANGED <<rReOrderQue, fgIsWaitingForPktWithSsn, fgIsAmsduDuplicated,
                     lock, fgHasBubble>>
  BY DEF Known, RxPassesBehind, RxDropsBehind, RxFallsBehind, RxLocks, amsdu, bubble
<1>2. fgIsValid
  BY <1>1, LoopIsValid
<1>3. PICK w \in Nat : Window(w)
  BY <1>2 DEF OBody
<1>4. /\ rxPkt.n \in Nat /\ Close(rxPkt.n, w) /\ Near(w, apLow)
      /\ SN(rxPkt) = rxPkt.n % MaxSeq
      /\ Inc(rReOrderQue) /\ AtRest(rReOrderQue, w)
      /\ SeenStart = w % MaxSeq /\ SeenEnd = WinEnd(w % MaxSeq)
      /\ UNCHANGED <<fgIsValid, apLow, ring, mainPc>>
      /\ mainPc # "flush" /\ fgFirstSnToWinStart' = FALSE
  BY <1>1, <1>3, LockedContext
<1> DEFINE n == rxPkt.n
<1>5. n < w
  <2>1. ~(w <= n /\ n < w + WinSize) /\ ~(w + WinSize <= n)
    BY <1>1, <1>4, WindowIs
  <2> HIDE DEF n
  <2>2. n \in Nat
    BY <1>4 DEF n
  <2> QED
    BY <2>1, <2>2, Sizes
<1>6. LastIsNew(w)'
  <2> SUFFICES ASSUME NEW m \in Nat, LastComing(m)' PROVE m < w
    BY DEF LastIsNew
  <2>1. ring # <<>> /\ ring[1].fmt = "LAST" /\ ring[1].n = m
    BY <1>1, <1>4 DEF LastComing
  <2>2. n = m
    BY <1>1, <2>1 DEF OBody, RingShape
  <2> QED
    BY <1>5, <2>2
<1>7. Window(w)'
  <2>1. Phase(w)'
    BY <1>1, <1>4 DEF Phase
  <2> QED
    BY <1>1, <1>4, <1>6, <2>1 DEF Window
<1>8. RingShape' /\ WaitingIsMarked'
  BY <1>1, <1>4 DEF OBody, RingShape, WaitingIsMarked
<1> QED
  BY <1>1, <1>4, <1>7, <1>8 DEF OBody

LEMMA RxBarOrders ==
  ASSUME Known, Known', suspends = 0, suspends' = 0, OBody, RxBar
  PROVE  OBody'
<1>1. /\ IInv /\ EndsClean /\ InStep /\ IInv' /\ rxPc = "bar" /\ lock = "none"
      /\ UNCHANGED <<fgIsValid, fgFirstSnToWinStart, rReOrderQue, apLow, mainPc,
           fgIsWaitingForPktWithSsn, fgIsAmsduDuplicated, fgHasBubble, ring>>
  BY DEF Known, RxBar, agreement, bubble, mainVars, air
<1>2. fgIsValid /\ fgIsValid'
  BY <1>1, LoopIsValid
<1>3. PICK w \in Nat : Window(w)
  BY <1>2 DEF OBody
<1>4. RingShape'
  BY <1>1 DEF OBody, RingShape, RxBar
<1>5. \E v \in Nat : Window(v)'
  <2>1. CASE qmCompareSnIsLessThan(u2WinStart, SN(rxPkt))
    <3> DEFINE n == rxPkt.n
    <3>1. /\ u2WinStart' = SN(rxPkt) /\ rxPc' = "barAhead" /\ lock' = "rx"
          /\ rxPkt' = rxPkt
      BY <2>1 DEF RxBar
    <3>2. /\ Near(w, apLow) /\ w % MaxSeq = u2WinStart /\ Inc(rReOrderQue)
          /\ Rests(rReOrderQue, w) /\ LastIsNew(w) /\ mainPc # "flush"
          /\ apLow \in Nat /\ rReOrderQue \in Seq(Parts)
      BY <1>1, <1>3 DEF Window, Phase, AtRest, IInv, LockIsHeld, TypeOK
    <3>3. n \in Nat /\ Near(n, apLow)
      <4>1. rxPkt.n \in Nat
        BY <1>1 DEF IInv, TypeOK, Parts
      <4> QED
        BY <1>1, <4>1 DEF InStep
    <3>4. w < n
      <4>1. SN(rxPkt) = n % MaxSeq
        BY DEF SN
      <4> HIDE DEF n
      <4>2. Close(w, n)
        BY <3>2, <3>3, Quarters DEF Near, Close
      <4> QED
        BY <2>1, <3>2, <3>3, <4>1, <4>2, Compare
    <3>5. PICK v \in Nat : v = n
      BY <3>3
    <3>6. w <= v /\ Near(v, apLow') /\ v % MaxSeq = u2WinStart'
      <4>1. w <= v
        <5> HIDE DEF n
        <5> QED
          BY <3>3, <3>4, <3>5
      <4> QED
        BY <1>1, <3>1, <3>3, <3>5, <4>1 DEF SN
    <3>7. Leads(rReOrderQue', v)
      BY <1>1, <3>2, <3>6, RestsLeads
    <3>8. LastIsNew(v)'
      <4>1. \A i \in 1 .. Len(rReOrderQue') :
              \E j \in 1 .. Len(rReOrderQue) : rReOrderQue'[i] = rReOrderQue[j]
        BY <1>1
      <4>2. \A m \in Nat : LastComing(m)' => LastComing(m)
        BY <1>1, <3>1 DEF LastComing
      <4> QED
        BY <1>1, <3>2, <3>6, <4>1, <4>2, NewStays
    <3>9. Window(v)'
      BY <1>1, <3>1, <3>2, <3>6, <3>7, <3>8 DEF Window, Phase
    <3> QED
      BY <3>9
  <2>2. CASE ~qmCompareSnIsLessThan(u2WinStart, SN(rxPkt))
    <3>1. rxPc' = "idle" /\ UNCHANGED <<u2WinStart, lock>>
      BY <2>2 DEF RxBar
    <3>2. \A n \in Nat : LastComing(n)' => LastComing(n)
      BY <1>1, <3>1 DEF LastComing
    <3>3. Window(w)'
      BY <1>1, <1>3, <3>1, <3>2, Undisturbed
    <3> QED
      BY <3>3
  <2> QED
    BY <2>1, <2>2
<1>6. WaitingIsMarked'
  BY <1>1 DEF OBody, WaitingIsMarked
<1> QED
  BY <1>1, <1>4, <1>5, <1>6 DEF OBody

-----------------------------------------------------------------------------
(* The other steps.                                                        *)

\* The bubble was there for too long: the window moves past the whole queue.
LEMMA BubbleExpiredOrders ==
  ASSUME Known, Known', suspends = 0, suspends' = 0, OBody, BubbleExpired
  PROVE  OBody'
<1>1. /\ IInv /\ EndsClean /\ InStep /\ IInv' /\ InStep'
      /\ mainPc = "check" /\ lock = "none" /\ rReOrderQue # <<>>
      /\ u2WinStart' = Advance(SN(rReOrderQue[Len(rReOrderQue)]), 1)
      /\ mainPc' = "flush" /\ lock' = "main"
      /\ UNCHANGED <<fgIsValid, fgFirstSnToWinStart, rReOrderQue, apLow, rxPc, rxPkt,
           fgIsWaitingForPktWithSsn, fgIsAmsduDuplicated, ring>>
  BY DEF Known, BubbleExpired, agreement, rxVars, air
<1>2. fgIsValid /\ fgIsValid'
  BY <1>1, LoopIsValid
<1>3. PICK w \in Nat : Window(w)
  BY <1>2 DEF OBody
<1>4. /\ Near(w, apLow) /\ Inc(rReOrderQue) /\ Rests(rReOrderQue, w) /\ LastIsNew(w)
      /\ rxPc \notin {"within", "ahead", "barAhead"}
      /\ apLow \in Nat /\ rReOrderQue \in Seq(Parts)
  BY <1>1, <1>3 DEF Window, Phase, AtRest, IInv, LockIsHeld, TypeOK
<1> DEFINE L == Len(rReOrderQue)
           e == rReOrderQue[L]
           m == e.n
<1>5. L \in 1 .. L /\ L \in Nat
  BY <1>1, <1>4
<1>6. e \in Parts /\ 2 * w <= Pos(e)
  BY <1>4, <1>5 DEF Rests
<1>7. m \in Nat /\ Near(m, apLow)
  BY <1>1, <1>4, <1>5, QueueIsClose
<1>8. m + 1 \in Nat /\ u2WinStart' = (m + 1) % MaxSeq
  BY <1>1, <1>6, AdvanceIsNext
<1>9. w <= m + 1
  <2> HIDE DEF e
  <2>1. Pos(e) \in Nat /\ Pos(e) <= 2 * e.n + 2
    BY <1>6, PosIs
  <2> DEFINE c == Pos(e)
  <2>2. c \in Nat /\ c <= 2 * m + 2 /\ 2 * w <= c
    BY <1>6, <2>1
  <2> HIDE DEF c, m
  <2> QED
    BY <1>7, <2>2
<1>10. PICK v \in Nat : v = m + 1
  BY <1>8
<1>11. v - apLow <= 3 * Quarter /\ apLow - v <= 3 * Quarter
  <2> HIDE DEF m
  <2> QED
    BY <1>4, <1>7, <1>10, Quarters DEF Near
<1>12. Near(v, apLow')
  BY <1>1, <1>2, <1>8, <1>10, <1>11, StaysNear
<1>13. Behind(rReOrderQue, v)
  <2> SUFFICES ASSUME NEW i \in 1 .. L PROVE rReOrderQue[i].n < v
    BY DEF Behind
  <2> DEFINE k == rReOrderQue[i].n
  <2>1. rReOrderQue[i] \in Parts /\ k \in Nat
    BY <1>1, <1>4, QueueIsClose
  <2>2. i = L \/ i < L
    <3> HIDE DEF L
    <3> QED
      BY <1>5
  <2>3. Pos(rReOrderQue[i]) <= Pos(e)
    <3>1. CASE i = L
      BY <1>6, <3>1, PosIs
    <3>2. CASE i < L
      <4>1. Pos(rReOrderQue[i]) < Pos(e)
        BY <1>4, <1>5, <3>2 DEF Inc
      <4>2. Pos(rReOrderQue[i]) \in Nat /\ Pos(e) \in Nat
        BY <1>6, <2>1, PosIs
      <4> QED
        BY <4>1, <4>2
    <3> QED
      BY <2>2, <3>1, <3>2
  <2>4. k <= m
    BY <1>6, <2>1, <2>3, PosOrders
  <2> HIDE DEF k, m
  <2>5. k < v
    BY <1>7, <1>10, <2>1, <2>4
  <2> QED
    BY <2>5 DEF k
<1>14. LastIsNew(v)'
  <2>1. \A i \in 1 .. Len(rReOrderQue') :
          \E j \in 1 .. Len(rReOrderQue) : rReOrderQue'[i] = rReOrderQue[j]
    BY <1>1
  <2>2. \A n \in Nat : LastComing(n)' => LastComing(n)
    BY <1>1 DEF LastComing
  <2>3. w <= v
    BY <1>9, <1>10
  <2> QED
    BY <1>1, <1>4, <2>1, <2>2, <2>3, NewStays
<1>15. Window(v)'
  <2>1. Phase(v)'
    BY <1>1, <1>4, <1>13 DEF Phase
  <2> QED
    BY <1>1, <1>4, <1>8, <1>10, <1>12, <1>14, <2>1 DEF Window
<1>16. RingShape' /\ WaitingIsMarked'
  BY <1>1 DEF OBody, RingShape, WaitingIsMarked
<1> QED
  BY <1>1, <1>15, <1>16 DEF OBody

\* Steps that touch neither the queue nor the window.
LEMMA QuietOrders ==
  ASSUME Known, Known', OBody,
         UNCHANGED <<fgIsValid, u2WinStart, rReOrderQue, lock, fgIsAmsduDuplicated,
           apLow, fgIsWaitingForPktWithSsn, fgFirstSnToWinStart, ring, rxPkt>>,
         rxPc' = rxPc \/ (rxPc = "deliver" /\ rxPc' = "idle"),
         mainPc' = "flush" => mainPc = "flush",
         fgHasBubble' = fgHasBubble \/ rReOrderQue = <<>>
  PROVE  OBody'
<1>1. IInv /\ IInv'
  BY DEF Known
<1>2. ASSUME NEW w \in Nat, Window(w) PROVE Window(w)'
  <2>1. \A n \in Nat : LastComing(n)' => LastComing(n)
    BY DEF LastComing
  <2>2. rxPc' = rxPc \/ rxPc' \in {"idle", "insert", "bar"}
    OBVIOUS
  <2> QED
    BY <1>1, <1>2, <2>1, <2>2, Undisturbed
<1>3. fgIsValid' => \E w \in Nat : Window(w)'
  <2> SUFFICES ASSUME fgIsValid' PROVE \E w \in Nat : Window(w)'
    OBVIOUS
  <2>1. PICK w \in Nat : Window(w)
    BY DEF OBody
  <2>2. Window(w)'
    BY <1>2, <2>1
  <2> QED
    BY <2>2
<1>4. RingShape'
  BY DEF OBody, RingShape
<1>5. WaitingIsMarked'
  BY DEF OBody, WaitingIsMarked
<1> QED
  BY <1>3, <1>4, <1>5 DEF OBody

LEMMA RxReceiveOrders ==
  ASSUME Known, Known', suspends = 0, suspends' = 0, OBody, RxReceive
  PROVE  OBody'
<1>1. /\ IInv /\ IInv' /\ EndsClean /\ rxPc = "idle" /\ ring # <<>> /\ ring' = Tail(ring)
      /\ UNCHANGED <<fgIsValid, u2WinStart, rReOrderQue, lock, fgIsAmsduDuplicated,
           apLow, fgIsWaitingForPktWithSsn, fgFirstSnToWinStart, fgHasBubble, mainPc>>
      /\ ring \in Seq(Parts \cup [n : Nat, fmt : {"BAR"}])
  BY DEF Known, RxReceive, agreement, window, amsdu, bubble, mainVars, air, IInv, TypeOK
<1> DEFINE p == Head(ring)
<1>2. p = ring[1] /\ Len(ring) \in Nat /\ Len(ring) >= 1 /\ Len(ring') = Len(ring) - 1
  BY <1>1
<1>3. Len(ring) > 1 => ring'[1] = ring[2]
  BY <1>1, <1>2
<1>4. /\ rxPc' \in {"idle", "insert", "bar"}
      /\ rxPc' = "insert" => rxPkt' = p /\ p.fmt # "BAR"
      /\ rxPc' = "bar" => p.fmt = "BAR"
      /\ rxPc' = "idle" => ~refTbl \/ ~fgIsValid
  BY <1>1 DEF RxReceive
<1>5. ring' # <<>> =>
        /\ Len(ring) = 2 /\ Len(ring') = 1 /\ p.fmt = "FIRST"
        /\ ring'[1].fmt = "LAST" /\ ring'[1].n = p.n
  <2> SUFFICES ASSUME ring' # <<>> PROVE <1>5
    OBVIOUS
  <2>1. Len(ring) > 1
    BY <1>1, <1>2
  <2> QED
    BY <1>2, <1>3, <2>1 DEF OBody, RingShape
<1>6. RingShape'
  <2>1. ring' # <<>> => Len(ring') = 1 /\ rxPc' # "bar"
                        /\ (rxPc' = "insert" => rxPkt'.n = ring'[1].n /\ rxPkt'.fmt = "FIRST")
    BY <1>4, <1>5
  <2>2. ~(Len(ring') > 1)
    <3>1. Len(ring) > 1 => Len(ring) = 2
      BY DEF OBody, RingShape
    <3> DEFINE a == Len(ring)
               b == Len(ring')
    <3>2. a \in Nat /\ b = a - 1 /\ (a > 1 => a = 2)
      BY <1>2, <3>1
    <3> HIDE DEF a, b
    <3>3. ~(b > 1)
      BY <3>2
    <3> QED
      BY <3>3 DEF b
  <2> QED
    BY <2>1, <2>2 DEF RingShape
<1>7. fgIsValid' => \E w \in Nat : Window(w)'
  <2> SUFFICES ASSUME fgIsValid' PROVE \E w \in Nat : Window(w)'
    OBVIOUS
  <2>1. fgIsValid /\ refTbl
    BY <1>1 DEF EndsClean
  <2>2. PICK w \in Nat : Window(w)
    BY <2>1 DEF OBody
  <2>3. \A n \in Nat : LastComing(n)' => LastComing(n)
    <3> SUFFICES ASSUME NEW n \in Nat, LastComing(n)' PROVE LastComing(n)
      OBVIOUS
    <3>1. CASE rxPc' = "insert"
      <4>1. p.fmt = "LAST" /\ p.n = n
        BY <1>4, <3>1 DEF LastComing
      <4> QED
        BY <1>1, <1>2, <4>1 DEF LastComing
    <3>2. CASE rxPc' = "bar"
      <4>1. ring' # <<>>
        BY <3>2 DEF LastComing
      <4> QED
        BY <1>4, <1>5, <3>2, <4>1
    <3>3. CASE rxPc' = "idle"
      BY <1>4, <2>1, <3>3
    <3> QED
      BY <1>4, <3>1, <3>2, <3>3
  <2>4. Window(w)'
    BY <1>1, <1>4, <2>2, <2>3, Undisturbed
  <2> QED
    BY <2>4
<1>8. WaitingIsMarked'
  BY <1>1 DEF OBody, WaitingIsMarked
<1> QED
  BY <1>1, <1>6, <1>7, <1>8 DEF OBody

LEMMA FrameShape ==
  ASSUME NEW n \in Nat
  PROVE  /\ Frame(n)[1].fmt # "LAST"
         /\ Len(Frame(n)) > 1 =>
              /\ Len(Frame(n)) = 2 /\ Frame(n)[1].fmt = "FIRST"
              /\ Frame(n)[2].fmt = "LAST" /\ Frame(n)[2].n = Frame(n)[1].n
BY DEF Frame

LEMMA AirAdvances ==
  ASSUME apLow \in Nat, Air, Jumps \subseteq 1 .. Half
  PROVE  apLow' \in Nat /\ apLow <= apLow' /\ apLow' <= apLow + Half
<1>1. CASE \E n \in apLow .. Last : Send(n)
  BY <1>1, Quarters DEF Send
<1>2. CASE Acked
  BY <1>2, Quarters DEF Acked, ApMovesTo
<1>3. CASE GiveUp
  <2>1. PICK j \in Jumps : apLow' = apLow + j
    BY <1>3 DEF GiveUp, ApMovesTo
  <2>2. j \in 1 .. Half
    OBVIOUS
  <2> QED
    BY <2>1, <2>2, Quarters
<1>4. CASE SendBar \/ SendStray
  BY <1>4, Quarters DEF SendBar, SendStray
<1> QED
  BY <1>1, <1>2, <1>3, <1>4 DEF Air

LEMMA AirOrders ==
  ASSUME Known, Known', suspends = 0, suspends' = 0, OBody, Air,
         Jumps \subseteq 1 .. Half
  PROVE  OBody'
<1>1. /\ IInv /\ IInv' /\ InStep'
      /\ UNCHANGED <<fgIsValid, u2WinStart, rReOrderQue, lock, fgIsAmsduDuplicated,
           fgIsWaitingForPktWithSsn, fgFirstSnToWinStart, fgHasBubble, rxPc, rxPkt,
           mainPc>>
  BY DEF Known, Air, Send, Acked, GiveUp, SendBar, SendStray, ApMovesTo, agreement,
     window, amsdu, bubble, rxVars, mainVars
<1>2. apLow \in Nat /\ apLow' \in Nat
  BY <1>1 DEF IInv, TypeOK
<1>3. \/ ring' = ring
      \/ /\ ring'[1].fmt # "LAST"
         /\ Len(ring') > 1 => /\ Len(ring') = 2 /\ ring'[1].fmt = "FIRST"
                              /\ ring'[2].fmt = "LAST" /\ ring'[2].n = ring'[1].n
  <2>1. ASSUME NEW n \in apLow .. Last, Send(n) PROVE <1>3
    <3>1. n \in Nat /\ ring' = Frame(n)
      BY <1>2, <2>1, ConstantsAssumption DEF Send
    <3> QED
      BY <3>1, FrameShape
  <2>2. CASE Acked \/ GiveUp
    BY <2>2 DEF Acked, GiveUp, ApMovesTo
  <2>3. CASE SendBar \/ SendStray
    BY <2>3 DEF SendBar, SendStray
  <2> QED
    BY <2>1, <2>2, <2>3 DEF Air
<1>4. apLow <= apLow' /\ apLow' <= apLow + Half
  BY <1>2, AirAdvances
<1>5. RingShape'
  BY <1>1, <1>3 DEF OBody, RingShape
<1>6. fgIsValid' => \E w \in Nat : Window(w)'
  <2> SUFFICES ASSUME fgIsValid' PROVE \E w \in Nat : Window(w)'
    OBVIOUS
  <2>1. PICK w \in Nat : Window(w)
    BY <1>1 DEF OBody
  <2>2. Near(w, apLow) /\ LastIsNew(w) /\ w % MaxSeq = u2WinStart
    BY <2>1 DEF Window
  <2>3. Near(w, apLow')
    <3> DEFINE a == apLow'
    <3>1. a \in Nat /\ apLow <= a /\ a <= apLow + Half
      BY <1>2, <1>4
    <3> HIDE DEF a
    <3>2. w - a <= 3 * Quarter /\ a - w <= 3 * Quarter
      BY <1>2, <2>2, <3>1, Quarters DEF Near
    <3> QED
      BY <1>1, <2>2, <3>2, StaysNear DEF a
  <2>4. LastIsNew(w)'
    <3>1. \A i \in 1 .. Len(rReOrderQue') :
            \E j \in 1 .. Len(rReOrderQue) : rReOrderQue'[i] = rReOrderQue[j]
      BY <1>1
    <3>2. \A n \in Nat : LastComing(n)' => LastComing(n)
      BY <1>1, <1>3 DEF LastComing
    <3>3. w <= w
      OBVIOUS
    <3> QED
      BY <1>1, <2>2, <3>1, <3>2, <3>3, NewStays
  <2>5. Window(w)'
    BY <1>1, <2>1, <2>2, <2>3, <2>4 DEF Window, Phase
  <2> QED
    BY <2>5
<1>7. WaitingIsMarked'
  BY <1>1 DEF OBody, WaitingIsMarked
<1> QED
  BY <1>1, <1>5, <1>6, <1>7 DEF OBody

\* A new agreement starts at the oldest frame of the access point, with an
\* empty queue.
LEMMA AgreementOrders ==
  ASSUME Known, Known', suspends = 0, suspends' = 0, OBody,
         qmAddRxBaEntry \/ qmDelRxBaEntry \/ DelForgets
  PROVE  OBody'
<1>1. /\ IInv /\ EndsClean /\ EndsClean' /\ IInv' /\ apLow \in Nat
      /\ UNCHANGED <<lock, apLow, ring, rxPc, rxPkt, fgFirstSnToWinStart>>
  BY DEF Known, IInv, TypeOK, qmAddRxBaEntry, qmDelRxBaEntry, DelForgets, agreement,
     rxVars, air
<1>2. rReOrderQue' = <<>>
  BY <1>1 DEF EndsClean, qmAddRxBaEntry, qmDelRxBaEntry, DelForgets
<1>3. /\ Inc(rReOrderQue') /\ WaitingIsMarked' /\ RingShape'
      /\ \A w \in Nat : LastIsNew(w)'
  BY <1>1, <1>2 DEF OBody, Inc, WaitingIsMarked, RingShape, LastIsNew
<1>4. \A w \in Nat : Phase(w)'
  BY <1>2 DEF Phase, Rests, Leads, Behind, AtRest
<1>5. fgIsValid' => \E w \in Nat : Near(w, apLow') /\ w % MaxSeq = u2WinStart'
  <2>1. CASE qmAddRxBaEntry
    <3>1. Near(apLow, apLow)
      BY <1>1, Quarters DEF Near
    <3>2. u2WinStart' = apLow % MaxSeq /\ apLow' = apLow
      BY <1>1, <2>1 DEF qmAddRxBaEntry
    <3> QED
      BY <1>1, <3>1, <3>2
  <2>2. CASE qmDelRxBaEntry
    <3>1. UNCHANGED <<fgIsValid, u2WinStart, apLow>>
      BY <2>2 DEF qmDelRxBaEntry, agreement, window, air
    <3> QED
      BY <3>1 DEF OBody, Window
  <2>3. CASE DelForgets
    BY <2>3 DEF DelForgets
  <2> QED
    BY <2>1, <2>2, <2>3
<1>6. fgIsValid' => \E w \in Nat : Window(w)'
  BY <1>3, <1>4, <1>5 DEF Window
<1> QED
  BY <1>1, <1>2, <1>3, <1>6 DEF OBody

LEMMA InitOrders == Init => OInv
BY DEF Init, OInv, OBody, RingShape, WaitingIsMarked

LEMMA NextOrders ==
  ASSUME Known, Known', OInv, [Next]_vars, Jumps \subseteq 1 .. Half
  PROVE  OInv'
<1> SUFFICES ASSUME suspends' = 0 PROVE OBody'
  BY DEF OInv
<1>0. TypeOK /\ MaxSuspends \in Nat /\ EndsClean
  BY ConstantsAssumption DEF Known, IInv
<1>1. CASE Suspend
  BY <1>0, <1>1 DEF Suspend, TypeOK
<1>2. CASE ~Suspend
  <2>1. suspends = 0
    BY <1>2 DEF Next, Air, Send, Acked, GiveUp, ApMovesTo, SendBar, SendStray, Rx,
       RxReceive, RxFallsWithin, RxFallsAhead, RxPassesBehind, RxDropsBehind,
       RxFallsBehind, RxLocks, RxBar, RxPopWithin, RxWithinEnds, RxPopAhead,
       RxAheadEnds, RxDeliver, LoopFrame, Main, BubbleTimeout, BubbleFilled,
       BubbleMoved, RestartTimer, BubbleExpired, FlushPop, FlushEnds, FlushDeliver,
       ResetMissTimeout, DelStopsTimer, DelForgets, MissGetsOld, qmDelRxBaEntry,
       qmAddRxBaEntry, vars, agreement
  <2>2. OBody
    BY <2>1 DEF OInv
  <2>3. CASE Air
    BY <2>1, <2>2, <2>3, AirOrders
  <2>4. CASE Rx
    <3>1. CASE RxDeliver
      <4>1. /\ UNCHANGED <<fgIsValid, u2WinStart, rReOrderQue, lock, fgIsAmsduDuplicated,
                 apLow, fgIsWaitingForPktWithSsn, fgFirstSnToWinStart, ring, rxPkt>>
            /\ rxPc = "deliver" /\ rxPc' = "idle" /\ mainPc' = mainPc
            /\ fgHasBubble' = fgHasBubble
        BY <3>1 DEF RxDeliver, agreement, window, amsdu, bubble, mainVars, air
      <4> QED
        BY <2>2, <4>1, QuietOrders
    <3> QED
      BY <2>1, <2>2, <2>4, <3>1, RxReceiveOrders, RxFallsWithinOrders,
         RxFallsAheadOrders, RxFallsBehindOrders, RxBarOrders, RxPopWithinOrders,
         RxWithinEndsOrders, RxPopAheadOrders, RxAheadEndsOrders
      DEF Rx
  <2>5. CASE Main
    <3>1. CASE \/ BubbleTimeout \/ BubbleFilled \/ BubbleMoved \/ RestartTimer
               \/ FlushDeliver \/ ResetMissTimeout \/ DelStopsTimer
      <4>1. /\ UNCHANGED <<fgIsValid, u2WinStart, rReOrderQue, lock, fgIsAmsduDuplicated,
                 apLow, fgIsWaitingForPktWithSsn, fgFirstSnToWinStart, ring, rxPkt, rxPc>>
            /\ mainPc' # "flush"
        BY <3>1 DEF BubbleTimeout, BubbleFilled, BubbleMoved, RestartTimer, FlushDeliver,
           ResetMissTimeout, DelStopsTimer, agreement, window, amsdu, rxVars, air
      <4>2. fgHasBubble' = fgHasBubble \/ rReOrderQue = <<>>
        BY <1>0, <3>1 DEF BubbleTimeout, BubbleFilled, BubbleMoved, RestartTimer,
           FlushDeliver, ResetMissTimeout, DelStopsTimer, bubble, EndsClean
      <4> QED
        BY <2>2, <4>1, <4>2, QuietOrders
    <3> QED
      BY <2>1, <2>2, <2>5, <3>1, BubbleExpiredOrders, FlushPopOrders, FlushEndsOrders,
         AgreementOrders
      DEF Main
  <2>6. CASE MissGetsOld \/ UNCHANGED vars
    <3>1. UNCHANGED <<fgIsValid, u2WinStart, rReOrderQue, lock, fgIsAmsduDuplicated,
            apLow, fgIsWaitingForPktWithSsn, fgFirstSnToWinStart, ring, rxPkt, rxPc,
            mainPc, fgHasBubble>>
      BY <2>6 DEF MissGetsOld, vars, agreement, window, amsdu, bubble, rxVars, mainVars,
         air
    <3> QED
      BY <2>2, <3>1, QuietOrders
  <2>7. CASE qmDelRxBaEntry \/ qmAddRxBaEntry
    BY <2>1, <2>2, <2>7, AgreementOrders
  <2> QED
    BY <1>2, <2>3, <2>4, <2>5, <2>6, <2>7 DEF Next
<1> QED
  BY <1>1, <1>2

-----------------------------------------------------------------------------
(* The theorems.                                                           *)

LEMMA OrderInvariance ==
  ASSUME DelRaces = FALSE, Jumps \subseteq 1 .. Half
  PROVE  Spec /\ []InStep => [](IInv /\ EndsClean /\ OInv)
<1>1. Spec => []IInv
  BY Invariance
<1>2. Spec => [](EndsClean /\ BubbleIsTimed)
  BY CleanInvariance
<1>3. Init => OInv
  BY InitOrders
<1>4. /\ IInv /\ EndsClean /\ InStep /\ IInv' /\ EndsClean' /\ InStep'
      /\ OInv /\ [Next]_vars
      => OInv'
  BY NextOrders DEF Known
<1> QED
  BY <1>1, <1>2, <1>3, <1>4, PTL DEF Spec

\* A frame that waits between critical sections has a marked bubble in front of
\* it, whatever the tasklet, the timeouts, the flush, BARs and new agreements
\* did, however long the traffic goes on, as long as the station never suspends
\* (fgFirstSnToWinStart) and no agreement is deleted under the tasklet.
THEOREM WaitersAreMarked ==
  ASSUME DelRaces = FALSE, MaxSuspends = 0, Jumps \subseteq 1 .. Half
  PROVE  Spec /\ []InStep => []WaitingIsMarked
<1>1. IInv /\ OInv => WaitingIsMarked
  <2> SUFFICES ASSUME IInv, OInv PROVE WaitingIsMarked
    OBVIOUS
  <2>1. suspends = 0
    <3>1. suspends \in 0 .. 0
      BY DEF IInv, TypeOK
    <3> QED
      BY <3>1
  <2> QED
    BY <2>1 DEF OInv, OBody
<1> QED
  BY <1>1, OrderInvariance, PTL

LEMMA OrderIsInWindow ==
  ASSUME IInv, EndsClean, InStep, OInv
  PROVE  QueueInWindow
<1> SUFFICES ASSUME lock = "none", suspends = 0
             PROVE  /\ u2WinEnd = WinEnd(u2WinStart)
                    /\ \A i \in 1 .. Len(rReOrderQue) :
                         \/ Dist(u2WinStart, SN(rReOrderQue[i])) \in 1 .. WinSize - 1
                         \/ TailLeft /\ (i = 1 \/ SN(rReOrderQue[i]) = u2WinStart)
                    /\ Inc(rReOrderQue)
  BY DEF QueueInWindow, Inc
<1>1. u2WinEnd = WinEnd(u2WinStart)
  BY DEF IInv, WindowIsAgreed
<1>2. CASE rReOrderQue = <<>>
  BY <1>1, <1>2 DEF Inc
<1>3. CASE rReOrderQue # <<>>
  <2>1. fgIsValid
    BY <1>3 DEF EndsClean, IInv, TypeOK
  <2>2. PICK w \in Nat : Window(w)
    BY <2>1 DEF OInv, OBody
  <2>3. /\ Near(w, apLow) /\ w % MaxSeq = u2WinStart /\ Inc(rReOrderQue)
        /\ Rests(rReOrderQue, w) /\ rReOrderQue[1].n # w
        /\ rReOrderQue \in Seq(Parts)
    BY <1>3, <2>2 DEF Window, Phase, AtRest, IInv, TypeOK
  <2>4. 1 \in 1 .. Len(rReOrderQue)
    BY <1>3, <2>3
  <2>5. ASSUME NEW i \in 1 .. Len(rReOrderQue)
        PROVE  /\ rReOrderQue[i] \in Parts /\ rReOrderQue[i].n \in Nat
               /\ Pos(rReOrderQue[i]) \in Nat
               /\ 2 * w <= Pos(rReOrderQue[i]) /\ rReOrderQue[i].n < w + WinSize
               /\ SN(rReOrderQue[i]) = rReOrderQue[i].n % MaxSeq
    <3> DEFINE e == rReOrderQue[i]
    <3>1. e \in Parts /\ 2 * w <= Pos(e) /\ e.n < w + WinSize /\ SN(e) = e.n % MaxSeq
      BY <2>3 DEF Rests, SN
    <3> HIDE DEF e
    <3>2. e.n \in Nat /\ Pos(e) \in Nat
      BY <3>1, PosIs
    <3> QED
      BY <3>1, <3>2 DEF e
  \* A part at or before the start of the window is such a tail, or the last
  \* part after it.
  <2>6. ASSUME NEW i \in 1 .. Len(rReOrderQue), rReOrderQue[i].n < w
        PROVE  rReOrderQue[i].fmt = "LAST" /\ rReOrderQue[i].n + 1 = w
    <3> DEFINE e == rReOrderQue[i]
    <3>1. e \in Parts /\ e.n \in Nat /\ 2 * w <= Pos(e) /\ e.n < w
      BY <2>5, <2>6
    <3> HIDE DEF e
    <3>2. Pos(e) = IF e.fmt = "LAST" THEN 2 * e.n + 2 ELSE 2 * e.n + 1
      BY <3>1, PosIs
    <3> DEFINE m == e.n
    <3>3. m \in Nat /\ m < w /\ (2 * w <= 2 * m + 2 \/ 2 * w <= 2 * m + 1)
          /\ (e.fmt # "LAST" => 2 * w <= 2 * m + 1)
      BY <3>1, <3>2
    <3> HIDE DEF m
    <3>4. e.fmt = "LAST" /\ m + 1 = w
      BY <3>3
    <3> QED
      BY <3>4 DEF e, m
  <2>7. rReOrderQue[1].n < w => TailLeft
    <3> SUFFICES ASSUME rReOrderQue[1].n < w PROVE TailLeft
      OBVIOUS
    <3>1. rReOrderQue[1].fmt = "LAST" /\ rReOrderQue[1].n + 1 = w
      BY <2>4, <2>6
    <3>2. Advance(SN(rReOrderQue[1]), 1) = w % MaxSeq
      BY <2>4, <2>5, <3>1, AdvanceIsNext
    <3> QED
      BY <2>3, <3>1, <3>2 DEF TailLeft
  <2>8. ASSUME NEW i \in 1 .. Len(rReOrderQue)
        PROVE  \/ Dist(u2WinStart, SN(rReOrderQue[i])) \in 1 .. WinSize - 1
               \/ TailLeft /\ (i = 1 \/ SN(rReOrderQue[i]) = u2WinStart)
    <3> DEFINE m == rReOrderQue[i].n
               f == rReOrderQue[1].n
    <3>0. /\ m \in Nat /\ f \in Nat /\ m < w + WinSize /\ f # w
          /\ SN(rReOrderQue[i]) = m % MaxSeq
      BY <2>3, <2>4, <2>5
    <3> HIDE DEF m, f
    <3>1. CASE m > w
      <4>1. PICK k \in Nat : k = m - w
        BY <3>0, <3>1
      <4>2. k \in 1 .. WinSize - 1 /\ k < MaxSeq /\ w + k = m
        BY <3>0, <3>1, <4>1, Sizes
      <4>3. Dist(w % MaxSeq, m % MaxSeq) = k
        BY <4>2, DistAhead
      <4> QED
        BY <2>3, <3>0, <4>2, <4>3
    <3>2. CASE m = w
      <4>1. i # 1
        BY <3>0, <3>2 DEF m, f
      <4>2. f <= m
        BY <2>3, <2>4, <1>3, HeadFirst DEF m, f
      <4>3. f < w
        BY <3>0, <3>2, <4>2
      <4>4. TailLeft
        BY <2>7, <4>3 DEF f
      <4> QED
        BY <2>3, <3>0, <3>2, <4>4
    <3>3. CASE m < w
      <4>1. rReOrderQue[i].fmt = "LAST" /\ m + 1 = w
        BY <2>6, <3>3 DEF m
      <4>2. i = 1
        <5> SUFFICES ASSUME i # 1 PROVE FALSE
          OBVIOUS
        <5>1. Pos(rReOrderQue[1]) < Pos(rReOrderQue[i])
          BY <1>3, <2>3, HeadFirst
        <5>2. Pos(rReOrderQue[i]) = 2 * m + 2
          BY <2>5, <4>1, PosIs DEF m
        <5>3. 2 * w <= Pos(rReOrderQue[1]) /\ Pos(rReOrderQue[1]) \in Nat
          BY <2>4, <2>5
        <5> DEFINE c == Pos(rReOrderQue[1])
        <5>4. c \in Nat /\ c < 2 * m + 2 /\ 2 * w <= c
          BY <5>1, <5>2, <5>3
        <5> HIDE DEF c
        <5> QED
          BY <3>0, <4>1, <5>4
      <4>3. TailLeft
        BY <2>7, <3>3, <4>2 DEF m
      <4> QED
        BY <4>2, <4>3
    <3> QED
      BY <3>0, <3>1, <3>2, <3>3
  <2> QED
    BY <1>1, <2>3, <2>8
<1> QED
  BY <1>2, <1>3

\* Between critical sections the window is as wide as agreed and the queue is
\* sorted, without duplicates, inside of it and behind its first number, across
\* any number of wraps of the 12-bit numbers, until the first suspend.
THEOREM QueueStaysInWindow ==
  ASSUME DelRaces = FALSE, Jumps \subseteq 1 .. Half
  PROVE  Spec /\ []InStep => []QueueInWindow
<1>1. [](IInv /\ EndsClean /\ OInv) /\ []InStep => []QueueInWindow
  <2>1. IInv /\ EndsClean /\ OInv /\ InStep => QueueInWindow
    BY OrderIsInWindow
  <2> QED
    BY <2>1, PTL
<1> QED
  BY <1>1, OrderInvariance, PTL

-----------------------------------------------------------------------------
(* What has been released.  The traffic for which the order of release is  *)
(* proved: no suspend, no A-MSDU sent twice (fgIsAmsduDuplicated may       *)
(* outlive the queue, and then drop the last part of a later A-MSDU), and  *)
(* abnormal numbers beyond the window of the access point.                 *)

PlainTraffic ==
  /\ DelRaces = FALSE /\ MaxSuspends = 0 /\ Jumps \subseteq 1 .. Half
  /\ Repeats \cap Amsdu = {}
  /\ StrayBy = 0 \/ ApWindow <= StrayBy

\* The access point is through with n, an A-MSDU: nothing with this number is
\* sent any more.
Sent(n) ==
  /\ n \in Amsdu
  /\ n < apLow \/ n \in apGot
  /\ strayed \/ StrayBy = 0 \/ n < apLow + StrayBy

RingHasLast(n) ==
  \A i \in 1 .. Len(ring) : ring[i].n = n => ring[i].fmt \in {"LAST", "BAR"}

\* No first part of n is to come.
Spent(n) ==
  /\ Sent(n)
  /\ RingHasLast(n)
  /\ rxPc = "insert" /\ rxPkt.n = n => rxPkt.fmt = "LAST"

\* A first part that was received comes once.
Firsts ==
  /\ \A i \in 1 .. Len(ring) : ring[i].fmt = "FIRST" => Sent(ring[i].n)
  /\ rxPc = "insert" /\ rxPkt.fmt = "FIRST" => Sent(rxPkt.n) /\ RingHasLast(rxPkt.n)
  /\ \A i \in 1 .. Len(rReOrderQue) :
       rReOrderQue[i].fmt = "FIRST" => Spent(rReOrderQue[i].n)

\* What was released is before what waits, ...
LastBefore == \A i \in 1 .. Len(rReOrderQue) : lastOut < Pos(rReOrderQue[i])

\* ... and before the window, but for the first part of an A-MSDU whose last part
\* the window waits for.
PassedBy(w) == lastOut <= 2 * w \/ (lastOut = 2 * w + 1 /\ Spent(w))

IsStart(w) == Near(w, apLow) /\ w % MaxSeq = u2WinStart

Passed == fgIsValid => \A w \in Nat : IsStart(w) => PassedBy(w)

\* A new agreement has released nothing.
Unreleased ==
  fgIsWaitingForPktWithSsn \/ ~fgIsValid \/ mainPc \in {"stop", "forget"}
    => lastOut = 0

RInv == Firsts /\ LastBefore /\ Passed /\ Unreleased

\* What is known of a state from the invariants above.
Ordered == Known /\ OBody /\ suspends = 0

LEMMA OrderedIs ==
  ASSUME Ordered
  PROVE  /\ IInv /\ TypeOK /\ EndsClean /\ InStep /\ OBody /\ suspends = 0
         /\ apLow \in Nat /\ lastOut \in Nat /\ hostLast \in Nat
         /\ rReOrderQue \in Seq(Parts) /\ rxOut \in Seq(Parts) /\ mainOut \in Seq(Parts)
BY DEF Ordered, Known, IInv, TypeOK

LEMMA OrderedIsNext ==
  ASSUME Ordered'
  PROVE  /\ IInv' /\ TypeOK' /\ EndsClean' /\ InStep' /\ OBody' /\ suspends' = 0
         /\ apLow' \in Nat /\ lastOut' \in Nat /\ hostLast' \in Nat
         /\ rReOrderQue' \in Seq(Parts) /\ rxOut' \in Seq(Parts) /\ mainOut' \in Seq(Parts)
BY DEF Ordered, Known, IInv, TypeOK

LEMMA OneStart ==
  ASSUME NEW a \in Nat, NEW x \in Nat, NEW y \in Nat, Near(x, a), Near(y, a),
         x % MaxSeq = y % MaxSeq
  PROVE  x = y
<1>1. x - y < MaxSeq /\ y - x < MaxSeq
  BY Quarters DEF Near
<1> QED
  BY <1>1, SameNumber

\* In a state in order the window has a start, with the queue behind it.
LEMMA StartOf ==
  ASSUME Ordered, fgIsValid
  PROVE  \E w \in Nat : IsStart(w) /\ Window(w)
<1>1. PICK w \in Nat : Window(w)
  BY DEF Ordered, OBody
<1> QED
  BY <1>1 DEF Window, IsStart

LEMMA SentStays ==
  ASSUME Ordered, Ordered', NEW n \in Nat, Sent(n), Air \/ UNCHANGED air
  PROVE  Sent(n)'
<1>1. apLow \in Nat /\ apLow' \in Nat /\ StrayBy \in Nat
  BY OrderedIs, OrderedIsNext, ConstantsAssumption
<1>2. CASE UNCHANGED air
  BY <1>2 DEF air, Sent
<1>3. CASE \E m \in apLow .. Last : Send(m)
  BY <1>3 DEF Send, Sent
<1>4. ASSUME NEW m \in Nat, apLow <= m, ApMovesTo(m) PROVE Sent(n)'
  <2>1. apLow' = m /\ apGot' = {k \in apGot : k >= m} /\ strayed' = strayed
    BY <1>4 DEF ApMovesTo
  <2>2. n < m \/ n \in apGot'
    BY <1>1, <1>4, <2>1 DEF Sent
  <2>3. strayed' \/ StrayBy = 0 \/ n < m + StrayBy
    BY <1>1, <1>4, <2>1 DEF Sent
  <2> QED
    BY <2>1, <2>2, <2>3 DEF Sent
<1>5. CASE Acked
  <2>1. apLow + 1 \in Nat /\ apLow <= apLow + 1 /\ ApMovesTo(apLow + 1)
    BY <1>1, <1>5 DEF Acked
  <2> QED
    BY <1>4, <2>1
<1>6. CASE GiveUp
  <2>1. PICK j \in Jumps : ApMovesTo(apLow + j)
    BY <1>6 DEF GiveUp
  <2>2. j \in Nat
    BY ConstantsAssumption
  <2>3. apLow + j \in Nat /\ apLow <= apLow + j
    BY <1>1, <2>2
  <2> QED
    BY <1>4, <2>1, <2>3
<1>7. CASE SendBar \/ SendStray
  BY <1>7 DEF SendBar, SendStray, Sent
<1> QED
  BY <1>2, <1>3, <1>5, <1>6, <1>7 DEF Air

LEMMA SpentStays ==
  ASSUME NEW n \in Nat, Spent(n), UNCHANGED <<air, ring>>,
         rxPc' = "insert" => rxPc = "insert" /\ rxPkt' = rxPkt
  PROVE  Spent(n)'
BY DEF Spent, Sent, RingHasLast, air

\* A step that puts no part into the queue but the one that rx inserts.
LEMMA FirstsStay ==
  ASSUME Ordered, Ordered', Firsts, UNCHANGED <<air, ring>>,
         rxPc' = "insert" => rxPc = "insert" /\ rxPkt' = rxPkt,
         \A i \in 1 .. Len(rReOrderQue') :
           \/ \E j \in 1 .. Len(rReOrderQue) : rReOrderQue'[i] = rReOrderQue[j]
           \/ rReOrderQue'[i] = rxPkt /\ rxPc = "insert" /\ rxPc' # "insert"
  PROVE  Firsts'
<1>1. (\A i \in 1 .. Len(ring) : ring[i].fmt = "FIRST" => Sent(ring[i].n))'
  BY DEF Firsts, Sent, air
<1>2. (rxPc = "insert" /\ rxPkt.fmt = "FIRST" => Sent(rxPkt.n) /\ RingHasLast(rxPkt.n))'
  BY DEF Firsts, Sent, RingHasLast, air
<1>3. ASSUME NEW i \in 1 .. Len(rReOrderQue'), (rReOrderQue[i].fmt = "FIRST")'
      PROVE  Spent(rReOrderQue[i].n)'
  <2>1. rReOrderQue'[i] \in Parts
    BY OrderedIsNext
  <2>2. PICK n \in Nat : n = rReOrderQue'[i].n
    <3> DEFINE e == rReOrderQue'[i]
    <3>1. e \in Parts
      BY <2>1
    <3> HIDE DEF e
    <3>2. e.n \in Nat
      BY <3>1, PosIs
    <3> QED
      BY <3>2 DEF e
  <2>3. CASE \E j \in 1 .. Len(rReOrderQue) : rReOrderQue'[i] = rReOrderQue[j]
    <3>1. Spent(n)
      BY <1>3, <2>2, <2>3 DEF Firsts
    <3>2. Spent(n)'
      BY <3>1, SpentStays
    <3> QED
      BY <2>2, <3>2 DEF Spent, Sent, RingHasLast
  <2>4. CASE rReOrderQue'[i] = rxPkt /\ rxPc = "insert" /\ rxPc' # "insert"
    <3>1. Sent(n) /\ RingHasLast(n)
      BY <1>3, <2>2, <2>4 DEF Firsts
    <3>2. Sent(n)' /\ RingHasLast(n)'
      BY <3>1 DEF Sent, RingHasLast, air
    <3> QED
      BY <2>2, <2>4, <3>2 DEF Spent, Sent, RingHasLast
  <2> QED
    BY <2>3, <2>4
<1> QED
  BY <1>1, <1>2, <1>3 DEF Firsts

\* A step that releases nothing: what it adds to the queue was not passed, and
\* the window moves on.
LEMMA MovesOn ==
  ASSUME Ordered, Ordered', RInv, fgIsValid', UNCHANGED <<lastOut, air, ring>>,
         rxPc' = "insert" => rxPc = "insert" /\ rxPkt' = rxPkt,
         \A i \in 1 .. Len(rReOrderQue') :
           \/ \E j \in 1 .. Len(rReOrderQue) : rReOrderQue'[i] = rReOrderQue[j]
           \/ /\ rReOrderQue'[i] = rxPkt /\ rxPc = "insert" /\ rxPc' # "insert"
              /\ lastOut < Pos(rxPkt),
         fgIsWaitingForPktWithSsn' => fgIsWaitingForPktWithSsn,
         mainPc' \in {"stop", "forget"} => mainPc \in {"stop", "forget"},
         NEW v \in Nat, IsStart(v)',
         lastOut = 0 \/ \E w \in Nat : PassedBy(w) /\ w <= v
  PROVE  RInv'
<1>1. Firsts'
  BY FirstsStay DEF RInv
<1>2. LastBefore'
  BY DEF RInv, LastBefore
<1>3. PassedBy(v)'
  <2>1. lastOut \in Nat /\ lastOut' = lastOut
    BY OrderedIs
  <2>2. CASE lastOut = 0
    BY <2>1, <2>2 DEF PassedBy
  <2>3. CASE \E w \in Nat : PassedBy(w) /\ w <= v
    <3>1. PICK w \in Nat : PassedBy(w) /\ w <= v
      BY <2>3
    <3>2. CASE w = v
      <4>1. Spent(v) => Spent(v)'
        BY SpentStays
      <4> QED
        BY <2>1, <3>1, <3>2, <4>1 DEF PassedBy
    <3>3. CASE w < v
      <4>1. lastOut <= 2 * w + 1
        BY <2>1, <3>1 DEF PassedBy
      <4>2. lastOut <= 2 * v
        BY <2>1, <3>3, <4>1
      <4> QED
        BY <2>1, <4>2 DEF PassedBy
    <3> QED
      BY <3>1, <3>2, <3>3
  <2> QED
    BY <2>2, <2>3
<1>4. Passed'
  <2> SUFFICES ASSUME NEW x \in Nat, IsStart(x)' PROVE PassedBy(x)'
    BY DEF Passed
  <2>1. x = v
    BY OrderedIsNext, OneStart DEF IsStart
  <2> QED
    BY <1>3, <2>1
<1>5. Unreleased'
  BY DEF RInv, Unreleased
<1> QED
  BY <1>1, <1>2, <1>4, <1>5 DEF RInv

\* A step that leaves the queue and the window alone.
LEMMA StaysReleased ==
  ASSUME Ordered, Ordered', RInv,
         UNCHANGED <<lastOut, air, ring, rReOrderQue, u2WinStart, fgIsValid>>,
         rxPc' = "insert" => rxPc = "insert" /\ rxPkt' = rxPkt,
         fgIsWaitingForPktWithSsn' => fgIsWaitingForPktWithSsn,
         mainPc' \in {"stop", "forget"} => mainPc \in {"stop", "forget"}
  PROVE  RInv'
<1>1. CASE fgIsValid
  <2>1. PICK w \in Nat : IsStart(w)
    BY <1>1, StartOf
  <2>2. IsStart(w)'
    BY <2>1 DEF IsStart, air
  <2>3. PassedBy(w) /\ w <= w
    BY <1>1, <2>1 DEF RInv, Passed
  <2>4. \A i \in 1 .. Len(rReOrderQue') :
          \E j \in 1 .. Len(rReOrderQue) : rReOrderQue'[i] = rReOrderQue[j]
    OBVIOUS
  <2> QED
    BY <1>1, <2>2, <2>3, <2>4, MovesOn
<1>2. CASE ~fgIsValid
  <2>1. Firsts'
    BY FirstsStay DEF RInv
  <2> QED
    BY <1>2, <2>1 DEF RInv, LastBefore, Passed, Unreleased
<1> QED
  BY <1>1, <1>2

\* A head that leaves, and the window that moves past it, or up to it when it
\* is a first part.
LEMMA HeadIsReleased ==
  ASSUME Ordered, Ordered', RInv, fgIsValid', rReOrderQue # <<>>,
         UNCHANGED <<air, ring, fgIsWaitingForPktWithSsn, rxPc, rxPkt, mainPc>>,
         rReOrderQue' = Tail(rReOrderQue), lastOut' = Pos(rReOrderQue[1]),
         NEW v \in Nat, IsStart(v)',
         \/ rReOrderQue[1].n < v
         \/ rReOrderQue[1].n = v /\ rReOrderQue[1].fmt = "FIRST"
  PROVE  RInv'
<1>1. /\ IInv /\ EndsClean /\ OBody /\ rReOrderQue \in Seq(Parts)
  BY OrderedIs
<1>2. /\ \A i \in 1 .. Len(rReOrderQue') :
           /\ i + 1 \in 1 .. Len(rReOrderQue) /\ i + 1 # 1
           /\ rReOrderQue'[i] = rReOrderQue[i + 1]
      /\ rReOrderQue[1] \in Parts /\ 1 \in 1 .. Len(rReOrderQue)
  BY <1>1, TailIs
<1>3. Inc(rReOrderQue)
  <2>1. fgIsValid
    BY <1>1 DEF EndsClean
  <2> QED
    BY <2>1, StartOf DEF Window
<1>4. Firsts'
  <2>1. \A i \in 1 .. Len(rReOrderQue') :
          \E j \in 1 .. Len(rReOrderQue) : rReOrderQue'[i] = rReOrderQue[j]
    BY <1>2
  <2> QED
    BY <2>1, FirstsStay DEF RInv
<1>5. LastBefore'
  BY <1>1, <1>2, <1>3, HeadFirst DEF LastBefore
<1>6. PassedBy(v)'
  <2> DEFINE h == rReOrderQue[1]
             n == h.n
  <2>1. /\ n \in Nat /\ Pos(h) \in Nat
        /\ Pos(h) = IF h.fmt = "LAST" THEN 2 * n + 2 ELSE 2 * n + 1
    BY <1>2, PosIs
  <2>2. CASE n < v
    <3> HIDE DEF h, n
    <3>1. Pos(h) <= 2 * v
      BY <2>1, <2>2
    <3> QED
      BY <3>1 DEF PassedBy, h
  <2>3. CASE n = v /\ h.fmt = "FIRST"
    <3>1. Spent(v)
      BY <1>2, <2>3 DEF RInv, Firsts
    <3>2. Spent(v)'
      BY <3>1, SpentStays
    <3>3. Pos(h) = 2 * v + 1
      BY <2>1, <2>3
    <3> QED
      BY <3>2, <3>3 DEF PassedBy
  <2> QED
    BY <2>2, <2>3
<1>7. Passed'
  <2> SUFFICES ASSUME NEW x \in Nat, IsStart(x)' PROVE PassedBy(x)'
    BY DEF Passed
  <2>1. x = v
    BY OrderedIsNext, OneStart DEF IsStart
  <2> QED
    BY <1>6, <2>1
<1>8. Unreleased'
  BY <1>1 DEF Unreleased, OBody, EndsClean
<1> QED
  BY <1>4, <1>5, <1>7, <1>8 DEF RInv

-----------------------------------------------------------------------------
(* The releases, one by one.                                               *)

\* TakeNext puts the window behind the head, or keeps it there for the last part.
LEMMA TakeNextReleases ==
  ASSUME Ordered, NEW w \in Nat, IsStart(w), NEW a, TakeNext(a)
  PROVE  /\ rReOrderQue # <<>> /\ rReOrderQue' = Tail(rReOrderQue)
         /\ lastOut' = Pos(rReOrderQue[1])
         /\ \E v \in Nat :
              /\ u2WinStart' = v % MaxSeq /\ w <= v
              /\ \/ v = rReOrderQue[1].n + 1
                 \/ v = rReOrderQue[1].n /\ rReOrderQue[1].fmt = "FIRST"
<1>0. IInv /\ InStep /\ suspends = 0 /\ Near(w, apLow) /\ w % MaxSeq = u2WinStart
  BY OrderedIs DEF IsStart
<1>1. /\ rReOrderQue # <<>> /\ SN(Head(rReOrderQue)) = Start0
      /\ rReOrderQue' = Tail(rReOrderQue) /\ lastOut' = Pos(Head(rReOrderQue))
      /\ u2WinStart' = IF EndsFrame(Head(rReOrderQue))
                       THEN Advance(SN(Head(rReOrderQue)), 1) ELSE Start0
  BY DEF TakeNext, Release
<1>2. Head(rReOrderQue) = rReOrderQue[1] /\ rReOrderQue[1] \in Parts
  BY <1>0, <1>1 DEF IInv, TypeOK
<1>3. PICK v \in {w, w + 1} :
        v \in Nat /\ Start0 = v % MaxSeq /\ rReOrderQue[1].n = v
  BY <1>0, <1>1, StartIs
<1>4. w <= v /\ w <= v + 1 /\ v + 1 \in Nat
  BY <1>3
<1>5. CASE EndsFrame(Head(rReOrderQue))
  <2>1. u2WinStart' = (v + 1) % MaxSeq
    BY <1>1, <1>2, <1>3, <1>5, AdvanceIsNext
  <2>2. v + 1 = rReOrderQue[1].n + 1
    BY <1>3
  <2> QED
    BY <1>1, <1>2, <1>4, <2>1, <2>2
<1>6. CASE ~EndsFrame(Head(rReOrderQue))
  <2>1. u2WinStart' = v % MaxSeq
    BY <1>1, <1>3, <1>6
  <2>2. rReOrderQue[1].fmt = "FIRST"
    BY <1>2, <1>6 DEF EndsFrame, Parts
  <2> QED
    BY <1>1, <1>2, <1>3, <1>4, <2>1, <2>2
<1> QED
  BY <1>5, <1>6

LEMMA PopAheadReleases ==
  ASSUME Ordered, NEW w \in Nat, IsStart(w), NEW a, PopAhead(a)
  PROVE  /\ rReOrderQue # <<>> /\ rReOrderQue' = Tail(rReOrderQue)
         /\ lastOut' = Pos(rReOrderQue[1])
         /\ \E v \in Nat :
              /\ u2WinStart' = v % MaxSeq
              /\ v <= w \/ v <= rReOrderQue[1].n + 1
              /\ \/ rReOrderQue[1].n < v
                 \/ rReOrderQue[1].n = v /\ rReOrderQue[1].fmt = "FIRST"
<1>0. IInv /\ InStep /\ suspends = 0 /\ Near(w, apLow) /\ w % MaxSeq = u2WinStart
  BY OrderedIs DEF IsStart
<1>1. CASE TakeNext(a)
  <2>1. PICK v \in Nat :
          /\ u2WinStart' = v % MaxSeq
          /\ \/ v = rReOrderQue[1].n + 1
             \/ v = rReOrderQue[1].n /\ rReOrderQue[1].fmt = "FIRST"
    BY <1>1, TakeNextReleases
  <2>2. /\ rReOrderQue # <<>> /\ rReOrderQue' = Tail(rReOrderQue)
        /\ lastOut' = Pos(rReOrderQue[1])
    BY <1>1, TakeNextReleases
  <2>3. rReOrderQue[1].n \in Nat
    <3>1. 1 \in 1 .. Len(rReOrderQue)
      BY <1>0, <2>2 DEF IInv, TypeOK
    <3> QED
      BY <1>0, <3>1, QueueIsClose
  <2> DEFINE m == rReOrderQue[1].n
  <2>4. v <= m + 1 /\ (m < v \/ (m = v /\ rReOrderQue[1].fmt = "FIRST"))
    <3>1. m \in Nat
      BY <2>3
    <3>2. v = m + 1 \/ (v = m /\ rReOrderQue[1].fmt = "FIRST")
      BY <2>1
    <3> HIDE DEF m
    <3> QED
      BY <3>1, <3>2
  <2> QED
    BY <2>1, <2>2, <2>4
<1>2. CASE ~TakeNext(a)
  <2>1. /\ rReOrderQue # <<>> /\ rReOrderQue' = Tail(rReOrderQue) /\ u2WinStart' = Start0
        /\ lastOut' = Pos(Head(rReOrderQue))
        /\ qmCompareSnIsLessThan(SN(Head(rReOrderQue)), Start0)
    BY <1>2 DEF PopAhead, Release
  <2>2. PICK v \in {w, w + 1} :
          /\ v \in Nat /\ Start0 = v % MaxSeq
          /\ v = w + 1 => w < rReOrderQue[1].n
          /\ qmCompareSnIsLessThan(SN(Head(rReOrderQue)), Start0)
               <=> rReOrderQue[1].n < v
    BY <1>0, <2>1, StartIs
  <2>3. v <= w \/ v <= rReOrderQue[1].n + 1
    <3> DEFINE m == rReOrderQue[1].n
    <3>1. m \in Nat
      <4>1. 1 \in 1 .. Len(rReOrderQue)
        BY <1>0, <2>1 DEF IInv, TypeOK
      <4> QED
        BY <1>0, <4>1, QueueIsClose
    <3>2. v = w + 1 => w < m
      BY <2>2
    <3> HIDE DEF m
    <3>3. v <= w \/ v <= m + 1
      BY <2>2, <3>1, <3>2
    <3> QED
      BY <3>3 DEF m
  <2>4. Head(rReOrderQue) = rReOrderQue[1]
    BY <1>0, <2>1 DEF IInv, TypeOK
  <2> QED
    BY <2>1, <2>2, <2>3, <2>4
<1> QED
  BY <1>1, <1>2

\* The timeout of qmPopOutDueToFallWithin lets the head through.
LEMMA PopWithinReleases ==
  ASSUME Ordered, NEW w \in Nat, IsStart(w), RxPopWithin
  PROVE  /\ rReOrderQue # <<>> /\ rReOrderQue' = Tail(rReOrderQue)
         /\ lastOut' = Pos(rReOrderQue[1])
         /\ \E v \in Nat :
              /\ u2WinStart' = v % MaxSeq
              /\ v <= w \/ v <= rReOrderQue[1].n + 1
              /\ \/ rReOrderQue[1].n < v
                 \/ rReOrderQue[1].n = v /\ rReOrderQue[1].fmt = "FIRST"
<1>1. CASE TakeNext("rx")
  BY <1>1, PopAheadReleases DEF PopAhead
<1>2. CASE ~TakeNext("rx")
  <2>1. /\ rReOrderQue # <<>> /\ rReOrderQue' = Tail(rReOrderQue)
        /\ lastOut' = Pos(Head(rReOrderQue))
        /\ u2WinStart' = Advance(SN(Head(rReOrderQue)), 1)
    BY <1>2 DEF RxPopWithin, Release
  <2>2. Head(rReOrderQue) = rReOrderQue[1] /\ rReOrderQue[1] \in Parts
    BY <2>1, OrderedIs
  <2> DEFINE m == rReOrderQue[1].n
  <2>3. m \in Nat
    BY <2>2, PosIs
  <2>4. u2WinStart' = (m + 1) % MaxSeq
    BY <2>1, <2>2, AdvanceIsNext
  <2>5. m + 1 \in Nat /\ m + 1 <= m + 1 /\ m < m + 1
    <3> HIDE DEF m
    <3> QED
      BY <2>3
  <2> QED
    BY <2>1, <2>2, <2>4, <2>5
<1> QED
  BY <1>1, <1>2

LEMMA StartNear ==
  ASSUME Ordered', fgIsValid', NEW v \in Nat, u2WinStart' = v % MaxSeq,
         v - apLow' <= 3 * Quarter, apLow' - v <= 3 * Quarter
  PROVE  IsStart(v)'
BY OrderedIsNext, StaysNear DEF IsStart

\* The three loops.
LEMMA PopsRelease ==
  ASSUME Ordered, Ordered', RInv, RxPopWithin \/ RxPopAhead \/ FlushPop
  PROVE  RInv'
<1>1. /\ UNCHANGED <<fgIsValid, apLow, air, ring, fgIsWaitingForPktWithSsn, rxPc,
           rxPkt, mainPc>>
      /\ rxPc # "idle" \/ mainPc # "idle"
  BY DEF RxPopWithin, RxPopAhead, FlushPop, LoopFrame, agreement, air
<1>2. IInv /\ EndsClean /\ InStep /\ suspends = 0 /\ apLow \in Nat
      /\ rReOrderQue \in Seq(Parts)
  BY OrderedIs
<1>3. fgIsValid /\ fgIsValid'
  BY <1>1, <1>2, LoopIsValid
<1>4. PICK w \in Nat : IsStart(w)
  BY <1>3, StartOf
<1>5. /\ rReOrderQue # <<>> /\ rReOrderQue' = Tail(rReOrderQue)
      /\ lastOut' = Pos(rReOrderQue[1])
      /\ \E v \in Nat :
           /\ u2WinStart' = v % MaxSeq
           /\ v <= w \/ v <= rReOrderQue[1].n + 1
           /\ \/ rReOrderQue[1].n < v
              \/ rReOrderQue[1].n = v /\ rReOrderQue[1].fmt = "FIRST"
  BY <1>4, PopAheadReleases, PopWithinReleases DEF RxPopAhead, FlushPop
<1>6. PICK v \in Nat :
        /\ u2WinStart' = v % MaxSeq
        /\ v <= w \/ v <= rReOrderQue[1].n + 1
        /\ \/ rReOrderQue[1].n < v
           \/ rReOrderQue[1].n = v /\ rReOrderQue[1].fmt = "FIRST"
  BY <1>5
<1>7. IsStart(v)'
  <2> DEFINE m == rReOrderQue[1].n
  <2>1. m \in Nat /\ Near(m, apLow)
    <3>1. 1 \in 1 .. Len(rReOrderQue)
      BY <1>2, <1>5
    <3> QED
      BY <1>2, <1>4, <3>1, QueueIsClose DEF IsStart
  <2>2. (v <= w \/ v <= m + 1) /\ m <= v
    <3>1. m < v \/ m = v
      BY <1>6
    <3>2. v <= w \/ v <= m + 1
      BY <1>6
    <3> HIDE DEF m
    <3> QED
      BY <2>1, <3>1, <3>2
  <2> HIDE DEF m
  <2>3. Near(w, apLow)
    BY <1>4 DEF IsStart
  <2>4. v - apLow <= 3 * Quarter /\ apLow - v <= 3 * Quarter
    BY <1>2, <2>1, <2>2, <2>3, Quarters DEF Near
  <2> QED
    BY <1>1, <1>3, <1>6, <2>4, StartNear
<1> QED
  BY <1>1, <1>3, <1>5, <1>6, <1>7, HeadIsReleased

\* The loops end: the window moves by one number at most.
LEMMA EndsKeepReleased ==
  ASSUME Ordered, Ordered', RInv, RxWithinEnds \/ RxAheadEnds \/ FlushEnds
  PROVE  RInv'
<1>1. /\ UNCHANGED <<fgIsValid, apLow, air, ring, fgIsWaitingForPktWithSsn, rReOrderQue,
           lastOut>>
      /\ rxPc # "idle" \/ mainPc # "idle"
      /\ rxPc' = "insert" => rxPc = "insert" /\ rxPkt' = rxPkt
      /\ mainPc' \in {"stop", "forget"} => mainPc \in {"stop", "forget"}
  BY DEF RxWithinEnds, RxAheadEnds, FlushEnds, LoopFrame, LoopEnds, NothingReleased,
     agreement, air
<1>2. IInv /\ EndsClean /\ InStep /\ suspends = 0 /\ apLow \in Nat
  BY OrderedIs
<1>3. fgIsValid /\ fgIsValid'
  BY <1>1, <1>2, LoopIsValid
<1>4. PICK w \in Nat : IsStart(w)
  BY <1>3, StartOf
<1>5. Near(w, apLow) /\ w % MaxSeq = u2WinStart /\ PassedBy(w)
  BY <1>3, <1>4 DEF IsStart, RInv, Passed
<1>6. PICK v \in Nat : u2WinStart' = v % MaxSeq /\ w <= v /\ v <= w + 1
  BY <1>2, <1>5, LoopEndMoves DEF RxWithinEnds, RxAheadEnds, FlushEnds
<1>7. IsStart(v)'
  <2>1. v - apLow <= 3 * Quarter /\ apLow - v <= 3 * Quarter
    BY <1>2, <1>5, <1>6, Quarters DEF Near
  <2> QED
    BY <1>1, <1>3, <1>6, <2>1, StartNear
<1>8. \A i \in 1 .. Len(rReOrderQue') :
        \E j \in 1 .. Len(rReOrderQue) : rReOrderQue'[i] = rReOrderQue[j]
  BY <1>1
<1> QED
  BY <1>1, <1>3, <1>5, <1>6, <1>7, <1>8, MovesOn

-----------------------------------------------------------------------------
(* What is put into the queue.                                             *)

\* r holds what q holds, and p.
Adds(q, r, p) ==
  /\ \A i \in 1 .. Len(r) : r[i] = p \/ \E j \in 1 .. Len(q) : r[i] = q[j]
  /\ \E i \in 1 .. Len(r) : r[i] = p
  /\ \A j \in 1 .. Len(q) : \E i \in 1 .. Len(r) : r[i] = q[j]

LEMMA InsertAdds ==
  ASSUME NEW q \in Seq(Parts), NEW p \in Parts, NEW k \in 1 .. Len(q) + 1
  PROVE  Adds(q, InsertAt(q, k, p), p)
<1> DEFINE r == InsertAt(q, k, p)
           L == Len(q)
<1>1. Len(r) = L + 1
  BY InsertIs
<1>2. \A i \in 1 .. L + 1 :
        r[i] = IF i < k THEN q[i] ELSE IF i = k THEN p ELSE q[i - 1]
  BY InsertIs
<1>3. L \in Nat /\ k \in 1 .. L + 1
  OBVIOUS
<1> HIDE DEF r, L
<1>4. ASSUME NEW i \in 1 .. Len(r)
      PROVE  r[i] = p \/ \E j \in 1 .. L : r[i] = q[j]
  <2>1. CASE i < k
    <3>1. i \in 1 .. L
      BY <1>1, <1>3, <2>1
    <3>2. i \in 1 .. L + 1
      BY <1>1
    <3>3. r[i] = q[i]
      BY <1>2, <2>1, <3>2
    <3> QED
      BY <3>1, <3>3
  <2>2. CASE i = k
    BY <1>2, <1>3, <2>2
  <2>3. CASE i > k
    <3>1. i - 1 \in 1 .. L /\ i \in 1 .. L + 1 /\ ~(i < k) /\ i # k
      BY <1>1, <1>3, <2>3
    <3>2. r[i] = q[i - 1]
      BY <1>2, <3>1
    <3> QED
      BY <3>1, <3>2
  <2> QED
    BY <1>1, <1>3, <2>1, <2>2, <2>3
<1>5. \E i \in 1 .. Len(r) : r[i] = p
  BY <1>1, <1>2, <1>3
<1>6. ASSUME NEW j \in 1 .. L
      PROVE  \E i \in 1 .. Len(r) : r[i] = q[j]
  <2>1. CASE j < k
    <3>1. j \in 1 .. L + 1
      BY <1>3
    <3>2. r[j] = q[j]
      BY <1>2, <2>1, <3>1
    <3> QED
      BY <1>1, <3>1, <3>2
  <2>2. CASE j >= k
    <3> DEFINE i == j + 1
    <3>1. i \in 1 .. L + 1 /\ ~(i < k) /\ i # k /\ i - 1 = j
      BY <1>3, <2>2
    <3> HIDE DEF i
    <3>2. r[i] = q[i - 1]
      BY <1>2, <3>1
    <3> QED
      BY <1>1, <3>1, <3>2
  <2> QED
    BY <1>3, <2>1, <2>2
<1> QED
  BY <1>4, <1>5, <1>6 DEF Adds, r, L

LEMMA AppendAdds ==
  ASSUME NEW q \in Seq(Parts), NEW p \in Parts
  PROVE  Adds(q, Append(q, p), p)
<1> DEFINE r == Append(q, p)
           L == Len(q)
<1>1. /\ Len(r) = L + 1 /\ L \in Nat
      /\ \A i \in 1 .. L : r[i] = q[i]
      /\ r[L + 1] = p
  BY AppendProperties
<1> HIDE DEF r, L
<1>2. \A i \in 1 .. Len(r) : i \in 1 .. L \/ i = L + 1
  BY <1>1
<1>3. \A j \in 1 .. L : j \in 1 .. Len(r)
  BY <1>1
<1>4. L + 1 \in 1 .. Len(r)
  BY <1>1
<1> QED
  BY <1>1, <1>2, <1>3, <1>4 DEF Adds, r, L

LEMMA WithinAdds ==
  ASSUME TypeOK, rxPkt \in Parts, Inc(rReOrderQue),
         \A i \in 1 .. Len(rReOrderQue) : Close(rReOrderQue[i].n, rxPkt.n),
         qmInsertFallWithinReorderPkt
  PROVE  rReOrderQue' = rReOrderQue \/ Adds(rReOrderQue, rReOrderQue', rxPkt)
<1>1. rReOrderQue \in Seq(Parts)
  BY DEF TypeOK
<1>2. CASE Duplicate
  BY <1>2 DEF qmInsertFallWithinReorderPkt
<1>3. CASE ~Duplicate
  <2>1. Place \in 1 .. Len(rReOrderQue) + 1
    <3>1. CASE FindsSame
      BY <3>1, PlaceIs
    <3>2. CASE ~FindsSame
      BY <3>2, StopIs DEF Place
    <3> QED
      BY <3>1, <3>2
  <2>2. rReOrderQue' = InsertAt(rReOrderQue, Place, rxPkt)
    BY <1>3 DEF qmInsertFallWithinReorderPkt
  <2> DEFINE k == Place
  <2> HIDE DEF k
  <2>3. k \in 1 .. Len(rReOrderQue) + 1 /\ rReOrderQue' = InsertAt(rReOrderQue, k, rxPkt)
    BY <2>1, <2>2 DEF k
  <2> QED
    BY <1>1, <2>3, InsertAdds
<1> QED
  BY <1>2, <1>3

\* A part that is not before the window has not been passed.
LEMMA NotPassed ==
  ASSUME Ordered, RInv, fgIsValid, NEW w \in Nat, IsStart(w), rxPc = "insert",
         rxPkt \in Parts, w <= rxPkt.n
  PROVE  lastOut < Pos(rxPkt) /\ PassedBy(w)
<1> DEFINE n == rxPkt.n
<1>1. /\ n \in Nat /\ lastOut \in Nat
      /\ Pos(rxPkt) = IF rxPkt.fmt = "LAST" THEN 2 * n + 2 ELSE 2 * n + 1
  BY OrderedIs, PosIs
<1>2. PassedBy(w)
  BY DEF RInv, Passed
<1>3. w <= n
  OBVIOUS
<1>4. CASE lastOut <= 2 * w
  <2> HIDE DEF n
  <2> QED
    BY <1>1, <1>2, <1>3, <1>4
<1>5. CASE lastOut = 2 * w + 1 /\ Spent(w)
  <2>1. n = w => rxPkt.fmt = "LAST"
    BY <1>5 DEF Spent
  <2> HIDE DEF n
  <2> QED
    BY <1>1, <1>2, <1>3, <1>5, <2>1
<1> QED
  BY <1>2, <1>4, <1>5 DEF PassedBy

\* What a part put into the queue by rx has to do with the release: it is the
\* reordering buffer's Accept.
LEMMA RxFallsWithinReleased ==
  ASSUME Ordered, Ordered', RInv, RxFallsWithin
  PROVE  /\ RInv' /\ lastOut' = lastOut /\ lastOut < Pos(rxPkt)
         /\ rReOrderQue' = rReOrderQue \/ Adds(rReOrderQue, rReOrderQue', rxPkt)
<1>0. Known /\ suspends = 0 /\ OBody /\ IInv /\ TypeOK /\ EndsClean
  BY OrderedIs DEF Ordered
<1>1. /\ RxLocks /\ rxPc = "insert" /\ rxPc' = "within"
      /\ fgIsWaitingForPktWithSsn' = FALSE
      /\ FallsWithin(SN(rxPkt), SeenStart, SeenEnd) /\ qmInsertFallWithinReorderPkt
      /\ u2WinStart' = IF fgIsWaitingForPktWithSsn THEN SN(rxPkt) ELSE SeenStart
  BY DEF RxFallsWithin, RxLocks
<1>2. fgIsValid
  BY <1>0, <1>1, LoopIsValid
<1>3. PICK w \in Nat : IsStart(w) /\ Window(w)
  BY <1>2, StartOf
<1>4. /\ rxPkt \in Parts /\ rxPkt.n \in Nat /\ Near(rxPkt.n, apLow)
      /\ Near(w, apLow) /\ Close(rxPkt.n, w)
      /\ SN(rxPkt) = rxPkt.n % MaxSeq
      /\ Inc(rReOrderQue)
      /\ \A i \in 1 .. Len(rReOrderQue) : Close(rReOrderQue[i].n, rxPkt.n)
      /\ SeenStart = w % MaxSeq /\ SeenEnd = WinEnd(w % MaxSeq)
      /\ UNCHANGED <<fgIsValid, apLow, ring, mainPc>>
  BY <1>0, <1>1, <1>3, LockedContext
<1>5. /\ lastOut' = lastOut /\ UNCHANGED air
  BY <1>0, <1>1 DEF RxLocks, OBody
<1> DEFINE n == rxPkt.n
<1>6. w <= n
  BY <1>1, <1>4, WindowIs
<1>7. lastOut < Pos(rxPkt) /\ PassedBy(w)
  BY <1>1, <1>2, <1>3, <1>4, <1>6, NotPassed
<1>8. rReOrderQue' = rReOrderQue \/ Adds(rReOrderQue, rReOrderQue', rxPkt)
  BY <1>0, <1>1, <1>4, WithinAdds
<1>9. \A i \in 1 .. Len(rReOrderQue') :
        \/ rReOrderQue'[i] = rxPkt
        \/ \E j \in 1 .. Len(rReOrderQue) : rReOrderQue'[i] = rReOrderQue[j]
  BY <1>8 DEF Adds
<1>10. \E v \in Nat : IsStart(v)' /\ (lastOut = 0 \/ w <= v)
  <2>1. CASE fgIsWaitingForPktWithSsn
    <3>1. lastOut = 0
      BY <2>1 DEF RInv, Unreleased
    <3>2. PICK v \in Nat : v = n
      BY <1>4
    <3>3. IsStart(v)'
      BY <1>1, <1>4, <2>1, <3>2 DEF IsStart
    <3> QED
      BY <3>1, <3>3
  <2>2. CASE ~fgIsWaitingForPktWithSsn
    <3>1. IsStart(w)'
      BY <1>1, <1>4, <2>2 DEF IsStart
    <3>2. w <= w
      OBVIOUS
    <3> QED
      BY <3>1, <3>2
  <2> QED
    BY <2>1, <2>2
<1>11. PICK v \in Nat : IsStart(v)' /\ (lastOut = 0 \/ w <= v)
  BY <1>10
<1>12. RInv'
  BY <1>1, <1>2, <1>4, <1>5, <1>7, <1>9, <1>11, MovesOn
<1> QED
  BY <1>5, <1>7, <1>8, <1>12

LEMMA RxFallsAheadReleased ==
  ASSUME Ordered, Ordered', RInv, RxFallsAhead
  PROVE  /\ RInv' /\ lastOut' = lastOut /\ lastOut < Pos(rxPkt)
         /\ Adds(rReOrderQue, rReOrderQue', rxPkt)
<1>0. Known /\ suspends = 0 /\ OBody /\ IInv /\ TypeOK /\ EndsClean
  BY OrderedIs DEF Ordered
<1>1. /\ RxLocks /\ rxPc = "insert" /\ rxPc' = "ahead"
      /\ fgIsWaitingForPktWithSsn' = FALSE
      /\ FallsAhead(SN(rxPkt), SeenStart, SeenEnd)
      /\ rReOrderQue' = Append(rReOrderQue, rxPkt)
      /\ u2WinStart' = Advance(SN(rxPkt), MaxSeq - WinSize + 1)
  BY DEF RxFallsAhead, RxLocks
<1>2. fgIsValid
  BY <1>0, <1>1, LoopIsValid
<1>3. PICK w \in Nat : IsStart(w) /\ Window(w)
  BY <1>2, StartOf
<1>4. /\ rxPkt \in Parts /\ rxPkt.n \in Nat /\ Near(rxPkt.n, apLow)
      /\ apLow \in Nat /\ rReOrderQue \in Seq(Parts)
      /\ Near(w, apLow) /\ Close(rxPkt.n, w)
      /\ SN(rxPkt) = rxPkt.n % MaxSeq
      /\ SeenStart = w % MaxSeq /\ SeenEnd = WinEnd(w % MaxSeq)
      /\ UNCHANGED <<fgIsValid, apLow, ring, mainPc>>
  BY <1>0, <1>1, <1>3, LockedContext
<1>5. /\ lastOut' = lastOut /\ UNCHANGED air
  BY <1>0, <1>1 DEF RxLocks, OBody
<1> DEFINE n == rxPkt.n
<1>6. w + WinSize <= n
  BY <1>1, <1>4, WindowIs
<1>7. n \in Nat /\ Near(n, apLow)
  BY <1>4
<1>8. w <= n
  <2> HIDE DEF n
  <2> QED
    BY <1>6, <1>7, Sizes
<1>9. lastOut < Pos(rxPkt) /\ PassedBy(w)
  BY <1>1, <1>2, <1>3, <1>4, <1>8, NotPassed
<1>10. Adds(rReOrderQue, rReOrderQue', rxPkt)
  BY <1>1, <1>4, AppendAdds
<1>11. \A i \in 1 .. Len(rReOrderQue') :
        \/ rReOrderQue'[i] = rxPkt
        \/ \E j \in 1 .. Len(rReOrderQue) : rReOrderQue'[i] = rReOrderQue[j]
  BY <1>10 DEF Adds
<1>12. PICK v \in Nat : v = n - WinSize + 1 /\ v % MaxSeq = u2WinStart'
  <2>1. n >= WinSize
    BY <1>6, <1>7, Sizes
  <2> QED
    BY <1>1, <1>4, <2>1, AdvanceBack
<1>13. v - apLow <= 3 * Quarter /\ apLow - v <= 3 * Quarter /\ w <= v
  <2> HIDE DEF n
  <2> QED
    BY <1>4, <1>6, <1>7, <1>12, Quarters DEF Near
<1>14. IsStart(v)'
  BY <1>2, <1>4, <1>12, <1>13, StartNear
<1>15. RInv'
  BY <1>1, <1>2, <1>4, <1>5, <1>9, <1>11, <1>13, <1>14, MovesOn
<1> QED
  BY <1>5, <1>9, <1>10, <1>15

LEMMA RxFallsBehindReleased ==
  ASSUME Ordered, Ordered', RInv, RxPassesBehind \/ RxDropsBehind
  PROVE  RInv' /\ UNCHANGED <<lastOut, rReOrderQue>>
<1>0. OBody
  BY OrderedIs
<1>1. /\ UNCHANGED <<lastOut, air, ring, rReOrderQue, u2WinStart, fgIsValid,
           fgIsWaitingForPktWithSsn, mainPc>>
      /\ rxPc' \in {"idle", "deliver"}
  BY <1>0 DEF RxPassesBehind, RxDropsBehind, RxFallsBehind, RxLocks, OBody, SeenStart,
     mainVars
<1> QED
  BY <1>1, StaysReleased

LEMMA RxBarReleased ==
  ASSUME Ordered, Ordered', RInv, RxBar
  PROVE  RInv' /\ UNCHANGED <<lastOut, rReOrderQue>>
<1>0. Known /\ suspends = 0 /\ OBody /\ IInv /\ TypeOK /\ EndsClean /\ InStep
  BY OrderedIs DEF Ordered
<1>1. /\ rxPc = "bar" /\ rxPc' # "insert"
      /\ UNCHANGED <<lastOut, air, apLow, ring, rReOrderQue, fgIsValid,
           fgIsWaitingForPktWithSsn, mainPc>>
  BY DEF RxBar, agreement, mainVars, air
<1>2. CASE ~qmCompareSnIsLessThan(u2WinStart, SN(rxPkt))
  <2>1. UNCHANGED u2WinStart
    BY <1>2 DEF RxBar
  <2> QED
    BY <1>1, <2>1, StaysReleased
<1>3. CASE qmCompareSnIsLessThan(u2WinStart, SN(rxPkt))
  <2> DEFINE n == rxPkt.n
  <2>1. u2WinStart' = SN(rxPkt)
    BY <1>3 DEF RxBar
  <2>2. fgIsValid
    BY <1>0, <1>1, LoopIsValid
  <2>3. PICK w \in Nat : IsStart(w)
    BY <2>2, StartOf
  <2>4. Near(w, apLow) /\ w % MaxSeq = u2WinStart /\ PassedBy(w) /\ apLow \in Nat
    BY <2>2, <2>3, OrderedIs DEF IsStart, RInv, Passed
  <2>5. n \in Nat /\ Near(n, apLow)
    <3>1. rxPkt.n \in Nat
      BY <1>0 DEF TypeOK, Parts
    <3> QED
      BY <1>0, <1>1, <3>1 DEF InStep
  <2>6. w < n
    <3>1. SN(rxPkt) = n % MaxSeq
      BY DEF SN
    <3> HIDE DEF n
    <3>2. Close(w, n)
      BY <2>4, <2>5, Quarters DEF Near, Close
    <3> QED
      BY <1>3, <2>4, <2>5, <3>1, <3>2, Compare
  <2>7. PICK v \in Nat : v = n
    BY <2>5
  <2>8. IsStart(v)'
    BY <1>1, <2>1, <2>5, <2>7 DEF IsStart, SN
  <2>9. w <= v
    <3> HIDE DEF n
    <3> QED
      BY <2>5, <2>6, <2>7
  <2>10. \A i \in 1 .. Len(rReOrderQue') :
           \E j \in 1 .. Len(rReOrderQue) : rReOrderQue'[i] = rReOrderQue[j]
    BY <1>1
  <2> QED
    BY <1>1, <2>2, <2>4, <2>8, <2>9, <2>10, MovesOn
<1> QED
  BY <1>1, <1>2, <1>3

LEMMA BubbleExpiredReleased ==
  ASSUME Ordered, Ordered', RInv, BubbleExpired
  PROVE  RInv' /\ UNCHANGED <<lastOut, rReOrderQue>>
<1>0. IInv /\ EndsClean /\ InStep /\ suspends = 0 /\ apLow \in Nat
      /\ rReOrderQue \in Seq(Parts)
  BY OrderedIs
<1>1. /\ mainPc = "check" /\ lock = "none" /\ rReOrderQue # <<>>
      /\ u2WinStart' = Advance(SN(rReOrderQue[Len(rReOrderQue)]), 1)
      /\ mainPc' = "flush"
      /\ UNCHANGED <<lastOut, air, apLow, ring, rReOrderQue, fgIsValid,
           fgIsWaitingForPktWithSsn, rxPc, rxPkt>>
  BY DEF BubbleExpired, agreement, rxVars, air
<1>2. fgIsValid
  BY <1>0, <1>1, LoopIsValid
<1>3. PICK w \in Nat : IsStart(w) /\ Window(w)
  BY <1>2, StartOf
<1>4. Near(w, apLow) /\ PassedBy(w) /\ Rests(rReOrderQue, w)
  BY <1>1, <1>2, <1>3 DEF IsStart, RInv, Passed, Window, Phase, AtRest
<1> DEFINE L == Len(rReOrderQue)
           e == rReOrderQue[L]
           m == e.n
<1>5. L \in 1 .. L
  BY <1>0, <1>1
<1>6. e \in Parts /\ 2 * w <= Pos(e)
  BY <1>0, <1>4, <1>5 DEF Rests
<1>7. m \in Nat /\ Near(m, apLow)
  BY <1>0, <1>4, <1>5, QueueIsClose
<1>8. PICK v \in Nat : v = m + 1 /\ u2WinStart' = v % MaxSeq
  <2>1. m + 1 \in Nat /\ u2WinStart' = (m + 1) % MaxSeq
    BY <1>1, <1>6, AdvanceIsNext
  <2> QED
    BY <2>1
<1>9. w <= v
  <2> HIDE DEF e
  <2>1. Pos(e) \in Nat /\ Pos(e) <= 2 * e.n + 2
    BY <1>6, PosIs
  <2> DEFINE c == Pos(e)
  <2>2. c \in Nat /\ c <= 2 * m + 2 /\ 2 * w <= c
    BY <1>6, <2>1
  <2> HIDE DEF c, m
  <2> QED
    BY <1>7, <1>8, <2>2
<1>10. v - apLow <= 3 * Quarter /\ apLow - v <= 3 * Quarter
  <2> HIDE DEF m
  <2> QED
    BY <1>0, <1>7, <1>8, Quarters DEF Near
<1>11. IsStart(v)'
  BY <1>1, <1>2, <1>8, <1>10, StartNear
<1>12. \A i \in 1 .. Len(rReOrderQue') :
         \E j \in 1 .. Len(rReOrderQue) : rReOrderQue'[i] = rReOrderQue[j]
  BY <1>1
<1> QED
  BY <1>1, <1>2, <1>4, <1>9, <1>11, <1>12, MovesOn

-----------------------------------------------------------------------------
(* The other steps.                                                        *)

LEMMA RxReceiveReleased ==
  ASSUME Ordered, Ordered', RInv, RxReceive
  PROVE  RInv' /\ UNCHANGED <<lastOut, rReOrderQue>>
<1>0. OBody /\ RingShape /\ TypeOK
  BY OrderedIs DEF OBody
<1>1. /\ rxPc = "idle" /\ ring # <<>> /\ ring' = Tail(ring)
      /\ UNCHANGED <<lastOut, rReOrderQue, fgIsValid, u2WinStart, air,
           fgIsWaitingForPktWithSsn, mainPc>>
      /\ ring \in Seq(Parts \cup [n : Nat, fmt : {"BAR"}])
  BY <1>0 DEF RxReceive, agreement, window, mainVars, TypeOK
<1> DEFINE p == Head(ring)
<1>2. /\ p = ring[1] /\ 1 \in 1 .. Len(ring)
      /\ \A i \in 1 .. Len(ring') : i + 1 \in 1 .. Len(ring) /\ ring'[i] = ring[i + 1]
  <2>1. /\ Len(ring) \in Nat /\ Len(ring) >= 1 /\ Len(ring') = Len(ring) - 1
        /\ \A i \in 1 .. Len(ring) - 1 : ring'[i] = ring[i + 1]
    BY <1>1
  <2> QED
    BY <1>1, <2>1
<1>3. rxPc' = "insert" => rxPkt' = p /\ p.fmt # "BAR"
  BY <1>1 DEF RxReceive
<1>4. ASSUME NEW n \in Nat, Sent(n) PROVE Sent(n)'
  BY <1>1, <1>4 DEF Sent, air
<1>5. ASSUME NEW n \in Nat, Spent(n) PROVE Spent(n)'
  <2>1. Sent(n)' /\ RingHasLast(n)
    BY <1>4, <1>5 DEF Spent
  <2>2. RingHasLast(n)'
    BY <1>2, <2>1 DEF RingHasLast
  <2>3. (rxPc = "insert" /\ rxPkt.n = n => rxPkt.fmt = "LAST")'
    BY <1>2, <1>3, <2>1 DEF RingHasLast
  <2> QED
    BY <2>1, <2>2, <2>3 DEF Spent
<1>6. Firsts'
  <2>1. ASSUME NEW i \in 1 .. Len(ring'), (ring[i].fmt = "FIRST")'
        PROVE  Sent(ring[i].n)'
    <3>1. i + 1 \in 1 .. Len(ring) /\ ring'[i] = ring[i + 1]
      BY <1>2
    <3>2. Sent(ring[i + 1].n)
      BY <2>1, <3>1 DEF RInv, Firsts
    <3> QED
      BY <1>1, <3>1, <3>2 DEF Sent, air
  <2>2. ASSUME rxPc' = "insert", (rxPkt.fmt = "FIRST")'
        PROVE  Sent(rxPkt.n)' /\ RingHasLast(rxPkt.n)'
    <3>1. rxPkt' = ring[1]
      BY <1>2, <1>3, <2>2
    <3>2. Sent(ring[1].n)
      BY <1>2, <2>2, <3>1 DEF RInv, Firsts
    <3>3. \A i \in 1 .. Len(ring') : ring'[i].fmt = "LAST"
      <4> SUFFICES ASSUME NEW i \in 1 .. Len(ring') PROVE ring'[i].fmt = "LAST"
        OBVIOUS
      <4>1. i + 1 \in 1 .. Len(ring) /\ ring'[i] = ring[i + 1]
        BY <1>2
      <4>2. Len(ring) > 1 /\ Len(ring) \in Nat
        BY <1>1, <4>1
      <4>3. Len(ring) = 2 /\ ring[2].fmt = "LAST"
        BY <1>0, <4>2 DEF RingShape
      <4>4. i + 1 = 2
        BY <4>1, <4>3
      <4> QED
        BY <4>1, <4>3, <4>4
    <3> QED
      BY <1>1, <3>1, <3>2, <3>3 DEF Sent, RingHasLast, air
  <2>3. ASSUME NEW i \in 1 .. Len(rReOrderQue'), (rReOrderQue[i].fmt = "FIRST")'
        PROVE  Spent(rReOrderQue[i].n)'
    <3>1. rReOrderQue'[i] = rReOrderQue[i] /\ rReOrderQue[i] \in Parts
      BY <1>1, OrderedIs
    <3>2. PICK n \in Nat : n = rReOrderQue[i].n
      BY <3>1, PosIs
    <3>3. Spent(n)'
      BY <1>1, <1>5, <2>3, <3>1, <3>2 DEF RInv, Firsts
    <3> QED
      BY <3>1, <3>2, <3>3 DEF Spent, Sent, RingHasLast
  <2> QED
    BY <2>1, <2>2, <2>3 DEF Firsts
<1>7. Passed'
  <2> SUFFICES ASSUME fgIsValid', NEW x \in Nat, IsStart(x)' PROVE PassedBy(x)'
    BY DEF Passed
  <2>1. IsStart(x)
    BY <1>1 DEF IsStart, air
  <2>2. PassedBy(x)
    BY <1>1, <2>1 DEF RInv, Passed
  <2> QED
    BY <1>1, <1>5, <2>2 DEF PassedBy
<1>8. LastBefore' /\ Unreleased'
  BY <1>1 DEF RInv, LastBefore, Unreleased
<1> QED
  BY <1>1, <1>6, <1>7, <1>8 DEF RInv

\* What the AP puts into the ring: nothing of an A-MSDU it is through with.
LEMMA AirSends ==
  ASSUME Ordered, PlainTraffic, Air
  PROVE  \/ ring' = ring
         \/ /\ \A i \in 1 .. Len(ring') :
                 ring'[i].fmt = "FIRST" => ring'[i].n \in Nat /\ Sent(ring[i].n)'
            /\ \A n \in Nat : Sent(n) => RingHasLast(n)'
<1>1. apLow \in Nat /\ StrayBy \in Nat /\ Last \in Nat /\ ApWindow \in Nat
  BY OrderedIs, ConstantsAssumption
<1>2. ASSUME NEW m \in apLow .. Last, Send(m)
      PROVE  /\ \A i \in 1 .. Len(ring') :
                  ring'[i].fmt = "FIRST" => ring'[i].n \in Nat /\ Sent(ring[i].n)'
             /\ \A n \in Nat : Sent(n) => RingHasLast(n)'
  <2>1. /\ ring' = Frame(m) /\ apGot' = apGot \cup {m} /\ m < apLow + ApWindow
        /\ m \in apGot => m \in Repeats
        /\ apLow' = apLow /\ strayed' = strayed /\ m \in Nat
    BY <1>1, <1>2 DEF Send
  <2>2. /\ \A i \in 1 .. Len(ring') : ring'[i].n = m
        /\ \A i \in 1 .. Len(ring') : ring'[i].fmt = "FIRST" => m \in Amsdu
    BY <2>1, ConstantsAssumption DEF Frame
  <2>3. m \in Amsdu => Sent(m)'
    <3>1. strayed' \/ StrayBy = 0 \/ m < apLow' + StrayBy
      BY <1>1, <2>1 DEF PlainTraffic
    <3> QED
      BY <2>1, <3>1 DEF Sent
  <2>4. ASSUME NEW n \in Nat, Sent(n) PROVE RingHasLast(n)'
    <3>1. n # m
      BY <1>1, <1>2, <2>1, <2>4 DEF Sent, PlainTraffic
    <3> QED
      BY <2>2, <3>1 DEF RingHasLast
  <2>5. ASSUME NEW i \in 1 .. Len(ring'), ring'[i].fmt = "FIRST"
        PROVE  ring'[i].n \in Nat /\ Sent(ring[i].n)'
    BY <2>1, <2>2, <2>3, <2>5 DEF Sent
  <2> QED
    BY <2>4, <2>5
<1>3. CASE Acked \/ GiveUp
  BY <1>3 DEF Acked, GiveUp, ApMovesTo
<1>4. CASE SendBar
  BY <1>4 DEF SendBar, RingHasLast
<1>5. CASE SendStray
  <2>1. /\ ring' = <<[n |-> apLow + StrayBy, fmt |-> "MSDU"]>>
        /\ StrayBy > 0 /\ ~strayed
    BY <1>5 DEF SendStray
  <2>2. Len(ring') = 1 /\ ring'[1].fmt = "MSDU" /\ ring'[1].n = apLow + StrayBy
    BY <2>1
  <2>3. \A i \in 1 .. Len(ring') : ring'[i].fmt # "FIRST"
    BY <2>2
  <2>4. ASSUME NEW n \in Nat, Sent(n) PROVE RingHasLast(n)'
    <3>1. n < apLow + StrayBy
      BY <1>1, <2>1, <2>4 DEF Sent
    <3> QED
      BY <1>1, <2>2, <3>1 DEF RingHasLast
  <2> QED
    BY <2>3, <2>4
<1> QED
  BY <1>2, <1>3, <1>4, <1>5 DEF Air

LEMMA AirReleased ==
  ASSUME Ordered, Ordered', RInv, PlainTraffic, Air
  PROVE  RInv' /\ UNCHANGED <<lastOut, rReOrderQue>>
<1>1. /\ UNCHANGED <<lastOut, rReOrderQue, fgIsValid, u2WinStart, rxPc, rxPkt,
           fgIsWaitingForPktWithSsn, mainPc>>
  BY DEF Air, Send, Acked, GiveUp, SendBar, SendStray, ApMovesTo, agreement, window,
     rxVars, mainVars
<1>2. ASSUME NEW n \in Nat, Sent(n) PROVE Sent(n)'
  BY <1>2, SentStays
<1>3. ASSUME NEW n \in Nat, Sent(n), RingHasLast(n) PROVE RingHasLast(n)'
  <2>1. CASE ring' = ring
    BY <1>3, <2>1 DEF RingHasLast
  <2>2. CASE ring' # ring
    BY <1>3, <2>2, AirSends
  <2> QED
    BY <2>1, <2>2
<1>4. ASSUME NEW n \in Nat, Spent(n) PROVE Spent(n)'
  <2>1. Sent(n)' /\ RingHasLast(n)'
    BY <1>2, <1>3, <1>4 DEF Spent
  <2> QED
    BY <1>1, <1>4, <2>1 DEF Spent
<1>5. Firsts'
  <2>1. ASSUME NEW i \in 1 .. Len(ring'), (ring[i].fmt = "FIRST")'
        PROVE  Sent(ring[i].n)'
    <3>1. CASE ring' = ring
      <4>1. Sent(ring[i].n) /\ ring[i] \in Parts \cup [n : Nat, fmt : {"BAR"}]
        BY <2>1, <3>1, OrderedIs DEF RInv, Firsts, TypeOK
      <4>2. PICK n \in Nat : n = ring[i].n
        BY <4>1 DEF Parts
      <4>3. Sent(n)'
        BY <1>2, <4>1, <4>2
      <4> QED
        BY <3>1, <4>2, <4>3 DEF Sent
    <3>2. CASE ring' # ring
      BY <2>1, <3>2, AirSends
    <3> QED
      BY <3>1, <3>2
  <2>2. ASSUME rxPc' = "insert", (rxPkt.fmt = "FIRST")'
        PROVE  Sent(rxPkt.n)' /\ RingHasLast(rxPkt.n)'
    <3>1. Sent(rxPkt.n) /\ RingHasLast(rxPkt.n)
      BY <1>1, <2>2 DEF RInv, Firsts
    <3>2. PICK n \in Nat : n = rxPkt.n
      BY OrderedIs DEF TypeOK, Parts
    <3>3. Sent(n)' /\ RingHasLast(n)'
      BY <1>2, <1>3, <3>1, <3>2
    <3> QED
      BY <1>1, <3>2, <3>3 DEF Sent, RingHasLast
  <2>3. ASSUME NEW i \in 1 .. Len(rReOrderQue'), (rReOrderQue[i].fmt = "FIRST")'
        PROVE  Spent(rReOrderQue[i].n)'
    <3>1. rReOrderQue'[i] = rReOrderQue[i] /\ rReOrderQue[i] \in Parts
      BY <1>1, OrderedIs
    <3>2. PICK n \in Nat : n = rReOrderQue[i].n
      BY <3>1, PosIs
    <3>3. Spent(n)'
      BY <1>1, <1>4, <2>3, <3>1, <3>2 DEF RInv, Firsts
    <3> QED
      BY <3>1, <3>2, <3>3 DEF Spent, Sent, RingHasLast
  <2> QED
    BY <2>1, <2>2, <2>3 DEF Firsts
<1>6. Passed'
  <2> SUFFICES ASSUME fgIsValid', NEW x \in Nat, IsStart(x)' PROVE PassedBy(x)'
    BY DEF Passed
  <2>1. PICK w \in Nat : IsStart(w)
    BY <1>1, StartOf
  <2>2. Near(w, apLow) /\ w % MaxSeq = u2WinStart /\ PassedBy(w)
    BY <1>1, <2>1 DEF IsStart, RInv, Passed
  <2>3. IsStart(w)'
    <3> DEFINE a == apLow'
    <3>1. apLow \in Nat /\ a \in Nat /\ apLow <= a /\ a <= apLow + Half
      BY OrderedIs, AirAdvances DEF PlainTraffic
    <3> HIDE DEF a
    <3>2. w - a <= 3 * Quarter /\ a - w <= 3 * Quarter
      BY <2>2, <3>1, Quarters DEF Near
    <3> QED
      BY <1>1, <2>2, <3>2, StartNear DEF a
  <2>4. x = w
    BY <2>3, OrderedIsNext, OneStart DEF IsStart
  <2> QED
    BY <1>1, <1>4, <2>2, <2>4 DEF PassedBy
<1>7. LastBefore' /\ Unreleased'
  BY <1>1 DEF RInv, LastBefore, Unreleased
<1> QED
  BY <1>1, <1>5, <1>6, <1>7 DEF RInv

LEMMA AgreementsReleased ==
  ASSUME Ordered, Ordered', RInv, qmDelRxBaEntry \/ DelForgets \/ qmAddRxBaEntry
  PROVE  RInv' /\ lastOut' = 0 /\ rReOrderQue' = <<>>
<1>1. /\ UNCHANGED <<air, ring, rxPc, rxPkt>>
  BY DEF qmDelRxBaEntry, DelForgets, qmAddRxBaEntry, rxVars
<1>2. rReOrderQue' = <<>> /\ lastOut' = 0
  BY OrderedIs DEF qmDelRxBaEntry, DelForgets, qmAddRxBaEntry, EndsClean, RInv,
     Unreleased
<1>3. Firsts'
  <2>1. \A i \in 1 .. Len(rReOrderQue') : FALSE
    BY <1>2
  <2> QED
    BY <1>1, <2>1, FirstsStay DEF RInv
<1>4. LastBefore' /\ Passed' /\ Unreleased'
  BY <1>2 DEF LastBefore, Passed, PassedBy, Unreleased
<1> QED
  BY <1>2, <1>3, <1>4 DEF RInv

LEMMA QuietReleased ==
  ASSUME Ordered, Ordered', RInv,
         \/ RxDeliver \/ BubbleTimeout \/ BubbleFilled \/ BubbleMoved \/ RestartTimer
         \/ FlushDeliver \/ ResetMissTimeout \/ DelStopsTimer \/ MissGetsOld
         \/ UNCHANGED vars
  PROVE  RInv' /\ UNCHANGED <<lastOut, rReOrderQue>>
<1>1. /\ UNCHANGED <<lastOut, air, ring, rReOrderQue, u2WinStart, fgIsValid,
           fgIsWaitingForPktWithSsn>>
      /\ rxPc' = "insert" => rxPc = "insert" /\ rxPkt' = rxPkt
      /\ mainPc' \in {"stop", "forget"} => mainPc \in {"stop", "forget"}
  BY DEF RxDeliver, BubbleTimeout, BubbleFilled, BubbleMoved, RestartTimer,
     FlushDeliver, ResetMissTimeout, DelStopsTimer, MissGetsOld, vars, agreement,
     window, rxVars, mainVars
<1> QED
  BY <1>1, StaysReleased

LEMMA InitReleased == Init => RInv
BY DEF Init, RInv, Firsts, LastBefore, Passed, PassedBy, Unreleased

LEMMA NextReleased ==
  ASSUME Ordered, Ordered', RInv, [Next]_vars, PlainTraffic
  PROVE  RInv'
<1>1. CASE Suspend
  <2>1. FALSE
    BY <1>1, OrderedIs, ConstantsAssumption DEF PlainTraffic, Suspend
  <2> QED
    BY <2>1
<1>3. CASE Rx
  BY <1>3, RxReceiveReleased, RxFallsWithinReleased, RxFallsAheadReleased,
     RxFallsBehindReleased, RxBarReleased, PopsRelease, EndsKeepReleased, QuietReleased
  DEF Rx
<1>4. CASE Main
  BY <1>4, QuietReleased, BubbleExpiredReleased, PopsRelease, EndsKeepReleased,
     AgreementsReleased
  DEF Main
<1>5. CASE Air \/ MissGetsOld \/ qmDelRxBaEntry \/ qmAddRxBaEntry \/ UNCHANGED vars
  BY <1>5, AirReleased, QuietReleased, AgreementsReleased
<1> QED
  BY <1>1, <1>3, <1>4, <1>5 DEF Next

LEMMA ReleaseInvariance ==
  ASSUME PlainTraffic
  PROVE  Spec /\ []InStep => [](Ordered /\ RInv)
<1>1. Spec /\ []InStep => [](IInv /\ EndsClean /\ OInv)
  BY OrderInvariance DEF PlainTraffic
<1>2. IInv /\ EndsClean /\ OInv /\ InStep => Ordered
  <2> SUFFICES ASSUME IInv, EndsClean, OInv, InStep PROVE Ordered
    OBVIOUS
  <2>1. suspends = 0
    <3>1. suspends \in 0 .. 0
      BY DEF IInv, TypeOK, PlainTraffic
    <3> QED
      BY <3>1
  <2> QED
    BY <2>1 DEF Ordered, Known, OInv
<1>3. Init => RInv
  BY InitReleased
<1>4. Ordered /\ Ordered' /\ RInv /\ [Next]_vars => RInv'
  BY NextReleased
<1> QED
  BY <1>1, <1>2, <1>3, <1>4, PTL DEF Spec

-----------------------------------------------------------------------------
(* The reordering buffer.                                                  *)

Places(q) == {Pos(q[i]) : i \in 1 .. Len(q)}

LEMMA AddsPlaces ==
  ASSUME NEW q, NEW r, NEW p, Adds(q, r, p)
  PROVE  Places(r) = Places(q) \cup {Pos(p)}
<1>1. ASSUME NEW x \in Places(r) PROVE x \in Places(q) \cup {Pos(p)}
  <2>1. PICK i \in 1 .. Len(r) : x = Pos(r[i])
    BY DEF Places
  <2>2. r[i] = p \/ \E j \in 1 .. Len(q) : r[i] = q[j]
    BY DEF Adds
  <2> QED
    BY <2>1, <2>2 DEF Places
<1>2. ASSUME NEW x \in Places(q) PROVE x \in Places(r)
  <2>1. PICK j \in 1 .. Len(q) : x = Pos(q[j])
    BY DEF Places
  <2>2. PICK i \in 1 .. Len(r) : r[i] = q[j]
    BY DEF Adds
  <2> QED
    BY <2>1, <2>2 DEF Places
<1>3. Pos(p) \in Places(r)
  <2>1. PICK i \in 1 .. Len(r) : r[i] = p
    BY DEF Adds
  <2> QED
    BY <2>1 DEF Places
<1> QED
  BY <1>1, <1>2, <1>3

LEMMA HeadPlaces ==
  ASSUME NEW q \in Seq(Parts), q # <<>>, Inc(q)
  PROVE  /\ Pos(q[1]) \in Places(q)
         /\ \A x \in Places(q) : Pos(q[1]) <= x
         /\ Places(Tail(q)) = Places(q) \ {Pos(q[1])}
<1>1. 1 \in 1 .. Len(q) /\ q[1] \in Parts /\ Pos(q[1]) \in Nat
  BY PosIs
<1>2. Pos(q[1]) \in Places(q)
  BY <1>1 DEF Places
<1>3. \A x \in Places(q) : Pos(q[1]) <= x
  BY HeadFirst DEF Places
<1>4. ASSUME NEW x \in Places(Tail(q)) PROVE x \in Places(q) /\ x # Pos(q[1])
  <2>1. PICK i \in 1 .. Len(Tail(q)) : x = Pos(Tail(q)[i])
    BY DEF Places
  <2>2. i + 1 \in 1 .. Len(q) /\ i + 1 # 1 /\ Tail(q)[i] = q[i + 1]
    BY TailIs
  <2>3. Pos(q[1]) < Pos(q[i + 1])
    BY <2>2, HeadFirst
  <2> QED
    BY <1>1, <2>1, <2>2, <2>3 DEF Places
<1>5. ASSUME NEW x \in Places(q), x # Pos(q[1]) PROVE x \in Places(Tail(q))
  <2>1. PICK i \in 1 .. Len(q) : x = Pos(q[i])
    BY DEF Places
  <2>2. i # 1
    BY <1>5, <2>1
  <2>3. i - 1 \in 1 .. Len(Tail(q)) /\ Tail(q)[i - 1] = q[i]
    <3>1. i - 1 \in 1 .. Len(Tail(q)) /\ (i - 1) + 1 = i
      BY <2>2, TailIs
    <3> QED
      BY <3>1, TailIs
  <2> QED
    BY <2>1, <2>3 DEF Places
<1> QED
  BY <1>2, <1>3, <1>4, <1>5

LEMMA PopsReorder ==
  ASSUME Ordered, RxPopWithin \/ RxPopAhead \/ FlushPop
  PROVE  Reorder!Release
<1>1. rxPc # "idle" \/ mainPc # "idle"
  BY DEF RxPopWithin, RxPopAhead, FlushPop
<1>2. fgIsValid
  BY <1>1, OrderedIs, LoopIsValid
<1>3. PICK w \in Nat : IsStart(w) /\ Window(w)
  BY <1>2, StartOf
<1>4. /\ rReOrderQue # <<>> /\ rReOrderQue' = Tail(rReOrderQue)
      /\ lastOut' = Pos(rReOrderQue[1])
  BY <1>3, PopAheadReleases, PopWithinReleases DEF RxPopAhead, FlushPop
<1>5. rReOrderQue \in Seq(Parts) /\ Inc(rReOrderQue)
  BY <1>3, OrderedIs DEF Window
<1>6. /\ Pos(rReOrderQue[1]) \in Places(rReOrderQue)
      /\ \A x \in Places(rReOrderQue) : Pos(rReOrderQue[1]) <= x
      /\ Places(rReOrderQue') = Places(rReOrderQue) \ {Pos(rReOrderQue[1])}
  BY <1>4, <1>5, HeadPlaces
<1> QED
  BY <1>4, <1>6 DEF Reorder!Release, Places

LEMMA InsertsReorder ==
  ASSUME lastOut' = lastOut, lastOut < Pos(rxPkt), Pos(rxPkt) \in Nat, lastOut \in Nat,
         rReOrderQue' = rReOrderQue \/ Adds(rReOrderQue, rReOrderQue', rxPkt)
  PROVE  Reorder!Accept \/ UNCHANGED Reorder!vars
<1>1. \/ Places(rReOrderQue') = Places(rReOrderQue)
      \/ /\ Places(rReOrderQue') = Places(rReOrderQue) \cup {Pos(rxPkt)}
         /\ Pos(rxPkt) \in Places(rReOrderQue') \ Places(rReOrderQue)
  BY AddsPlaces
<1>2. Pos(rxPkt) > lastOut
  OBVIOUS
<1> QED
  BY <1>1, <1>2 DEF Reorder!Accept, Reorder!vars, Places

LEMMA StepReorders ==
  ASSUME Ordered, Ordered', RInv, [Next]_vars, PlainTraffic
  PROVE  [Reorder!Next]_(Reorder!vars)
<1>1. lastOut \in Nat /\ (rxPkt \in Parts => Pos(rxPkt) \in Nat)
  BY OrderedIs, PosIs
<1>2. CASE RxFallsWithin \/ RxFallsAhead
  <2>1. /\ lastOut' = lastOut /\ lastOut < Pos(rxPkt)
        /\ rReOrderQue' = rReOrderQue \/ Adds(rReOrderQue, rReOrderQue', rxPkt)
    BY <1>2, RxFallsWithinReleased, RxFallsAheadReleased
  <2>2. rxPkt \in Parts
    BY <1>2, OrderedIs DEF RxFallsWithin, RxFallsAhead, RxLocks, IInv, InsertsParts
  <2> QED
    BY <1>1, <2>1, <2>2, InsertsReorder DEF Reorder!Next
<1>3. CASE RxPopWithin \/ RxPopAhead \/ FlushPop
  BY <1>3, PopsReorder DEF Reorder!Next
<1>4. CASE RxWithinEnds \/ RxAheadEnds \/ FlushEnds
  <2>1. UNCHANGED <<rReOrderQue, lastOut>>
    BY <1>4 DEF RxWithinEnds, RxAheadEnds, FlushEnds, LoopEnds, NothingReleased
  <2> QED
    BY <2>1 DEF Reorder!vars
<1>5. CASE qmDelRxBaEntry \/ DelForgets \/ qmAddRxBaEntry
  <2>1. rReOrderQue' = <<>> /\ lastOut' = 0
    BY <1>5, AgreementsReleased
  <2> QED
    BY <2>1 DEF Reorder!Next, Reorder!Flush
<1>6. CASE \/ Air \/ RxReceive \/ RxPassesBehind \/ RxDropsBehind \/ RxBar \/ RxDeliver
           \/ BubbleTimeout \/ BubbleFilled \/ BubbleMoved \/ RestartTimer \/ BubbleExpired
           \/ FlushDeliver \/ ResetMissTimeout \/ DelStopsTimer \/ MissGetsOld
           \/ UNCHANGED vars
  <2>1. UNCHANGED <<rReOrderQue, lastOut>>
    BY <1>6, AirReleased, RxReceiveReleased, RxFallsBehindReleased, RxBarReleased,
       BubbleExpiredReleased, QuietReleased
  <2> QED
    BY <2>1 DEF Reorder!vars
<1>7. CASE Suspend
  BY <1>7, OrderedIs, ConstantsAssumption DEF PlainTraffic, Suspend
<1> QED
  BY <1>2, <1>3, <1>4, <1>5, <1>6, <1>7
  DEF Next, Rx, Main, RxPassesBehind, RxDropsBehind

LEMMA InitReorders == Init => Reorder!Init
BY DEF Init, Reorder!Init

\* What leaves the queue leaves it in the order of the numbers as they were sent,
\* one run after another, whatever the 12-bit comparisons make of them: the
\* reordering of que_mgt.c implements a buffer whose numbers never wrap.
THEOREM ReorderBufferImplemented ==
  ASSUME PlainTraffic
  PROVE  Spec /\ []InStep => ImplementsReorderBuffer
<1>1. Spec /\ []InStep => [](Ordered /\ RInv)
  BY ReleaseInvariance
<1>2. Ordered /\ Ordered' /\ RInv /\ [Next]_vars => [Reorder!Next]_(Reorder!vars)
  BY StepReorders
<1> QED
  BY <1>1, <1>2, InitReorders, PTL DEF Spec, ImplementsReorderBuffer, Reorder!Spec

-----------------------------------------------------------------------------
(* What the host is given.                                                 *)

\* What a thread has released and not yet handed over is in order, behind what
\* the host has, and not behind what was released last.
Follows(out) == Inc(out) /\ \A i \in 1 .. Len(out) : hostLast < Pos(out[i])
UpToLast(out) == \A i \in 1 .. Len(out) : Pos(out[i]) <= lastOut

Deleting == mainPc \in {"stop", "forget"}

HandsOver ==
  /\ rxOut = <<>> \/ mainOut = <<>>
  /\ Follows(rxOut) /\ Follows(mainOut)
  /\ ~late
  /\ ~Deleting => hostLast <= lastOut /\ UpToLast(rxOut) /\ UpToLast(mainOut)

RxHolds == rxPc \in {"within", "ahead", "barAhead", "deliver"}
MainHolds == mainPc \in {"flush", "deliver", "stop"}

HInv ==
  /\ rxOut # <<>> => RxHolds
  /\ mainOut # <<>> => MainHolds
  /\ ~raced /\ ~passed => HandsOver

LEMMA NothingFollows == Follows(<<>>) /\ UpToLast(<<>>) /\ Inc(<<>>)
BY DEF Follows, UpToLast, Inc

\* A list in order is handed over in order.
LEMMA HandsInOrder ==
  ASSUME NEW out \in Seq(Parts), Follows(out), ~late, HandToHost(out), hostLast \in Nat
  PROVE  /\ ~late'
         /\ out = <<>> => hostLast' = hostLast
         /\ out # <<>> => \E i \in 1 .. Len(out) : hostLast' = Pos(out[i])
<1>1. \A i \in 1 .. Len(out) : out[i] \in Parts /\ Pos(out[i]) \in Nat
  BY PosIs
<1>2. ASSUME NEW i \in 1 .. Len(out)
      PROVE  ~(Pos(out[i]) <= IF i = 1 THEN hostLast ELSE Pos(out[i - 1]))
  <2>1. CASE i = 1
    BY <1>1, <2>1 DEF Follows
  <2>2. CASE i # 1
    <3>1. i - 1 \in 1 .. Len(out) /\ i - 1 < i
      BY <2>2
    <3>2. Pos(out[i - 1]) < Pos(out[i])
      BY <3>1 DEF Follows, Inc
    <3> QED
      BY <1>1, <2>2, <3>1, <3>2
  <2> QED
    BY <2>1, <2>2
<1>3. ~late'
  BY <1>2 DEF HandToHost
<1>4. out # <<>> => Len(out) \in 1 .. Len(out)
  OBVIOUS
<1> QED
  BY <1>3, <1>4 DEF HandToHost

\* A head that is released is behind everything that was released before.
LEMMA ReleaseFollows ==
  ASSUME NEW out \in Seq(Parts), NEW h \in Parts, Follows(out), UpToLast(out),
         lastOut \in Nat, hostLast \in Nat, hostLast <= lastOut, lastOut < Pos(h),
         lastOut' = Pos(h), hostLast' = hostLast,
         NEW r, r = Append(out, h)
  PROVE  /\ Inc(r)
         /\ \A i \in 1 .. Len(r) : hostLast < Pos(r[i]) /\ Pos(r[i]) <= Pos(h)
<1>1. \A i \in 1 .. Len(out) : out[i] \in Parts /\ Pos(out[i]) \in Nat
  BY PosIs
<1>2. Pos(h) \in Nat
  BY PosIs
<1>3. \A i \in 1 .. Len(out) : Pos(out[i]) < Pos(h)
  BY <1>1, <1>2 DEF UpToLast
<1>4. /\ Inc(r)
      /\ \A i \in 1 .. Len(r) : r[i] = h \/ \E j \in 1 .. Len(out) : r[i] = out[j]
  BY <1>3, AppendInc DEF Follows
<1>5. hostLast < Pos(h) /\ Pos(h) <= Pos(h)
  BY <1>2
<1>6. \A j \in 1 .. Len(out) : hostLast < Pos(out[j]) /\ Pos(out[j]) <= Pos(h)
  BY <1>1, <1>2, <1>3 DEF Follows
<1> QED
  BY <1>4, <1>5, <1>6

\* Steps that release nothing and hand nothing over.
LEMMA KeepsHands ==
  ASSUME HInv, UNCHANGED <<rxOut, mainOut, lastOut, hostLast, late, passed, raced>>,
         RxHolds => RxHolds', MainHolds => MainHolds', Deleting => Deleting'
  PROVE  HInv'
BY DEF HInv, HandsOver, Follows, UpToLast

LEMMA PopsHand ==
  ASSUME Ordered, RInv, HInv, RxPopWithin \/ RxPopAhead \/ FlushPop
  PROVE  HInv'
<1> DEFINE h == rReOrderQue[1]
<1>1. /\ IInv /\ EndsClean /\ rReOrderQue \in Seq(Parts) /\ lastOut \in Nat
      /\ hostLast \in Nat /\ rxOut \in Seq(Parts) /\ mainOut \in Seq(Parts)
  BY OrderedIs
<1>2. /\ UNCHANGED <<hostLast, late, passed, rxPc, mainPc>>
      /\ rxPc # "idle" \/ mainPc = "flush"
  BY DEF RxPopWithin, RxPopAhead, FlushPop, LoopFrame, host
<1>3. /\ rReOrderQue # <<>> /\ lastOut' = Pos(Head(rReOrderQue))
      /\ \/ /\ rxOut' = Append(rxOut, Head(rReOrderQue)) /\ mainOut' = mainOut
            /\ raced' = (raced \/ mainOut # <<>>)
            /\ RxHolds
         \/ /\ mainOut' = Append(mainOut, Head(rReOrderQue)) /\ rxOut' = rxOut
            /\ raced' = (raced \/ rxOut # <<>>)
            /\ MainHolds
  BY DEF RxPopWithin, RxPopAhead, FlushPop, PopAhead, TakeNext, Release, RxHolds, MainHolds
<1>4. h = Head(rReOrderQue) /\ h \in Parts /\ 1 \in 1 .. Len(rReOrderQue)
  BY <1>1, <1>3
<1>5. lastOut < Pos(h)
  BY <1>4 DEF RInv, LastBefore
<1>6. ~Deleting
  BY <1>1, <1>2 DEF EndsClean, Deleting
<1> HIDE DEF h
<1>7. /\ rxOut' # <<>> => RxHolds'
      /\ mainOut' # <<>> => MainHolds'
  BY <1>2, <1>3 DEF HInv, RxHolds, MainHolds
<1>8. ASSUME ~raced', ~passed' PROVE HandsOver'
  <2>0. ~raced /\ ~passed /\ HandsOver /\ hostLast <= lastOut
    BY <1>2, <1>3, <1>6, <1>8 DEF HInv, HandsOver
  <2>1. hostLast' <= lastOut' /\ ~late'
    <3>1. Pos(h) \in Nat
      BY <1>4, PosIs
    <3>2. lastOut' = Pos(h) /\ hostLast' = hostLast
      BY <1>2, <1>3, <1>4
    <3>3. hostLast' <= lastOut'
      BY <1>1, <1>5, <2>0, <3>1, <3>2
    <3> QED
      BY <1>2, <2>0, <3>3 DEF HandsOver
  <2>2. CASE rxOut' = Append(rxOut, h) /\ mainOut' = mainOut /\ mainOut = <<>>
    <3>1. /\ Inc(rxOut')
          /\ \A i \in 1 .. Len(rxOut') : hostLast < Pos(rxOut'[i]) /\ Pos(rxOut'[i]) <= Pos(h)
      BY <1>1, <1>2, <1>3, <1>4, <1>5, <1>6, <2>0, <2>2, ReleaseFollows DEF HandsOver
    <3>2. Follows(rxOut)' /\ UpToLast(rxOut)'
      BY <1>2, <1>3, <1>4, <3>1 DEF Follows, UpToLast
    <3>3. Follows(mainOut)' /\ UpToLast(mainOut)'
      BY <2>2 DEF Follows, UpToLast, Inc
    <3> QED
      BY <2>1, <2>2, <3>2, <3>3 DEF HandsOver
  <2>3. CASE mainOut' = Append(mainOut, h) /\ rxOut' = rxOut /\ rxOut = <<>>
    <3>1. /\ Inc(mainOut')
          /\ \A i \in 1 .. Len(mainOut') :
               hostLast < Pos(mainOut'[i]) /\ Pos(mainOut'[i]) <= Pos(h)
      BY <1>1, <1>2, <1>3, <1>4, <1>5, <1>6, <2>0, <2>3, ReleaseFollows DEF HandsOver
    <3>2. Follows(mainOut)' /\ UpToLast(mainOut)'
      BY <1>2, <1>3, <1>4, <3>1 DEF Follows, UpToLast
    <3>3. Follows(rxOut)' /\ UpToLast(rxOut)'
      BY <2>3 DEF Follows, UpToLast, Inc
    <3> QED
      BY <2>1, <2>3, <3>2, <3>3 DEF HandsOver
  <2> QED
    BY <1>3, <1>4, <1>8, <2>2, <2>3
<1> QED
  BY <1>7, <1>8 DEF HInv

LEMMA RxDeliverHands ==
  ASSUME Ordered, HInv, RxDeliver
  PROVE  HInv'
<1>1. /\ rxPc = "deliver" /\ HandToHost(rxOut) /\ rxOut' = <<>>
      /\ UNCHANGED <<lastOut, passed, raced, mainPc, mainOut>>
  BY DEF RxDeliver, HandToHost, mainVars
<1>2. EndsClean /\ rxOut \in Seq(Parts) /\ hostLast \in Nat
  BY OrderedIs
<1>3. ~Deleting
  BY <1>1, <1>2 DEF EndsClean, Deleting
<1>4. ASSUME ~raced', ~passed' PROVE HandsOver'
  <2>1. HandsOver /\ Follows(rxOut) /\ ~late
    BY <1>1, <1>4 DEF HInv, HandsOver
  <2>2. /\ ~late'
        /\ rxOut = <<>> => hostLast' = hostLast
        /\ rxOut # <<>> => \E i \in 1 .. Len(rxOut) : hostLast' = Pos(rxOut[i])
    BY <1>1, <1>2, <2>1, HandsInOrder
  <2>3. hostLast' <= lastOut'
    BY <1>1, <1>3, <2>1, <2>2 DEF HandsOver, UpToLast
  <2>4. Follows(mainOut)'
    <3>1. rxOut = <<>> \/ mainOut = <<>>
      BY <2>1 DEF HandsOver
    <3> QED
      BY <1>1, <2>1, <2>2, <3>1 DEF HandsOver, Follows, Inc
  <2>5. Follows(rxOut)' /\ UpToLast(rxOut)'
    BY <1>1 DEF Follows, UpToLast, Inc
  <2>6. UpToLast(mainOut)'
    BY <1>1, <1>3, <2>1 DEF HandsOver, UpToLast
  <2> QED
    BY <1>1, <2>2, <2>3, <2>4, <2>5, <2>6 DEF HandsOver
<1> QED
  BY <1>1, <1>4 DEF HInv, MainHolds

LEMMA MainDeliverHands ==
  ASSUME Ordered, HInv, FlushDeliver \/ DelStopsTimer
  PROVE  HInv'
<1>1. /\ HandToHost(mainOut) /\ mainOut' = <<>>
      /\ mainPc = "deliver" \/ (mainPc = "stop" /\ mainPc' = "forget")
      /\ UNCHANGED <<lastOut, passed, raced, rxPc, rxOut>>
  BY DEF FlushDeliver, DelStopsTimer, HandToHost, rxVars
<1>2. EndsClean /\ mainOut \in Seq(Parts) /\ hostLast \in Nat
  BY OrderedIs
<1>4. ASSUME ~raced', ~passed' PROVE HandsOver'
  <2>1. HandsOver /\ Follows(mainOut) /\ ~late
    BY <1>1, <1>4 DEF HInv, HandsOver
  <2>2. /\ ~late'
        /\ mainOut = <<>> => hostLast' = hostLast
        /\ mainOut # <<>> => \E i \in 1 .. Len(mainOut) : hostLast' = Pos(mainOut[i])
    BY <1>1, <1>2, <2>1, HandsInOrder
  <2>3. ~Deleting' => ~Deleting
    BY <1>1 DEF Deleting
  <2>4. Follows(rxOut)'
    <3>1. rxOut = <<>> \/ mainOut = <<>>
      BY <2>1 DEF HandsOver
    <3> QED
      BY <1>1, <2>1, <2>2, <3>1 DEF HandsOver, Follows, Inc
  <2>5. Follows(mainOut)' /\ UpToLast(mainOut)'
    BY <1>1 DEF Follows, UpToLast, Inc
  <2>6. ~Deleting' => hostLast' <= lastOut' /\ UpToLast(rxOut)'
    BY <1>1, <2>1, <2>2, <2>3 DEF HandsOver, UpToLast
  <2> QED
    BY <1>1, <2>2, <2>4, <2>5, <2>6 DEF HandsOver
<1> QED
  BY <1>1, <1>4 DEF HInv, RxHolds

LEMMA DeletesHand ==
  ASSUME Ordered, RInv, HInv, DelRaces = FALSE, qmDelRxBaEntry
  PROVE  HInv'
<1>1. /\ mainPc = "idle" /\ refTbl /\ rxPc = "idle" /\ mainPc' = "stop"
      /\ mainOut' = rReOrderQue \/ mainOut' = <<>>
      /\ raced' = (raced \/ (mainOut' # <<>> /\ rxOut # <<>>))
      /\ UNCHANGED <<rxPc, rxOut, hostLast, late, passed>>
  BY DEF qmDelRxBaEntry, rxVars, host
<1>2. /\ EndsClean /\ rReOrderQue \in Seq(Parts) /\ lastOut \in Nat /\ hostLast \in Nat
  BY OrderedIs
<1>3. PICK w \in Nat : Window(w)
  BY <1>1, <1>2, StartOf DEF EndsClean
<1>4. rxOut = <<>> /\ mainOut = <<>>
  BY <1>1 DEF HInv, RxHolds, MainHolds
<1>5. ASSUME ~raced', ~passed' PROVE HandsOver'
  <2>1. HandsOver /\ ~late /\ hostLast <= lastOut
    BY <1>1, <1>5 DEF HInv, HandsOver, Deleting
  <2>2. \A i \in 1 .. Len(rReOrderQue) : hostLast < Pos(rReOrderQue[i])
    <3> SUFFICES ASSUME NEW i \in 1 .. Len(rReOrderQue) PROVE hostLast < Pos(rReOrderQue[i])
      OBVIOUS
    <3>1. Pos(rReOrderQue[i]) \in Nat /\ lastOut < Pos(rReOrderQue[i])
      BY <1>2, PosIs DEF RInv, LastBefore
    <3> QED
      BY <1>2, <2>1, <3>1
  <2>3. Follows(mainOut)'
    BY <1>1, <1>3, <2>2 DEF Follows, Window, Inc
  <2>4. Follows(rxOut)'
    BY <1>1, <1>4 DEF Follows, Inc
  <2> QED
    BY <1>1, <1>4, <2>1, <2>3, <2>4 DEF HandsOver, Deleting
<1> QED
  BY <1>1, <1>4, <1>5 DEF HInv, RxHolds, MainHolds

LEMMA ForgetsHand ==
  ASSUME Ordered, RInv, HInv, DelForgets
  PROVE  HInv'
<1>1. /\ mainPc = "forget" /\ mainPc' = "idle" /\ hostLast' = 0
      /\ UNCHANGED <<rxPc, rxOut, mainOut, lastOut, late, passed, raced>>
  BY DEF DelForgets, rxVars
<1>2. lastOut = 0 /\ rxPc = "idle"
  BY <1>1, OrderedIs DEF RInv, Unreleased, EndsClean
<1>3. rxOut = <<>> /\ mainOut = <<>>
  BY <1>1, <1>2 DEF HInv, RxHolds, MainHolds
<1> QED
  BY <1>1, <1>2, <1>3 DEF HInv, HandsOver, Follows, UpToLast, Inc

LEMMA InitHands == Init => HInv
BY DEF Init, HInv, HandsOver, Follows, UpToLast, Inc

LEMMA NextHands ==
  ASSUME Ordered, RInv, HInv, [Next]_vars, PlainTraffic
  PROVE  HInv'
<1>0. IInv /\ EndsClean /\ OBody /\ fgFirstSnToWinStart = FALSE /\ DelRaces = FALSE
  BY OrderedIs DEF OBody, PlainTraffic
<1>1. CASE RxPopWithin \/ RxPopAhead \/ FlushPop
  BY <1>1, PopsHand
<1>2. CASE RxDeliver
  BY <1>2, RxDeliverHands
<1>3. CASE FlushDeliver \/ DelStopsTimer
  BY <1>3, MainDeliverHands
<1>4. CASE qmDelRxBaEntry
  BY <1>0, <1>4, DeletesHand
<1>5. CASE DelForgets
  BY <1>5, ForgetsHand
<1>6. CASE Suspend
  BY <1>6, OrderedIs, ConstantsAssumption DEF PlainTraffic, Suspend
<1>7. CASE RxFallsWithin \/ RxFallsAhead \/ RxDropsBehind
  <2>1. /\ UNCHANGED <<rxOut, mainOut, lastOut, hostLast, late, passed, raced, mainPc>>
        /\ rxPc = "insert"
    <3>1. RxLocks /\ raced \in BOOLEAN
      BY <1>7, OrderedIs
      DEF RxFallsWithin, RxFallsAhead, RxDropsBehind, RxFallsBehind, TypeOK
    <3>2. raced' = raced
      BY <1>0, <3>1 DEF RxLocks
    <3> QED
      BY <1>0, <1>7, <3>1, <3>2
      DEF RxLocks, RxFallsWithin, RxFallsAhead, RxDropsBehind, mainVars
  <2> QED
    BY <2>1, KeepsHands DEF RxHolds, MainHolds, Deleting
<1>8. CASE RxReceive \/ RxBar
  <2>1. /\ UNCHANGED <<rxOut, mainOut, lastOut, hostLast, late, passed, raced, mainPc>>
        /\ rxPc \in {"idle", "bar"}
    BY <1>8 DEF RxReceive, RxBar, mainVars, host
  <2> QED
    BY <2>1, KeepsHands DEF RxHolds, MainHolds, Deleting
<1>9. CASE RxWithinEnds \/ RxAheadEnds \/ FlushEnds
  <2>1. /\ UNCHANGED <<rxOut, mainOut, lastOut, hostLast, late, passed, raced>>
        /\ \/ rxPc' = "deliver" /\ mainPc' = mainPc
           \/ rxPc' = rxPc /\ mainPc = "flush" /\ mainPc' = "deliver"
    BY <1>9 DEF RxWithinEnds, RxAheadEnds, FlushEnds, LoopEnds, NothingReleased,
       LoopFrame, host
  <2> QED
    BY <2>1, KeepsHands DEF RxHolds, MainHolds, Deleting
<1>10. CASE \/ BubbleTimeout \/ BubbleFilled \/ BubbleMoved \/ RestartTimer
            \/ BubbleExpired \/ ResetMissTimeout
  <2>1. /\ UNCHANGED <<rxOut, mainOut, lastOut, hostLast, late, passed, raced, rxPc>>
        /\ mainPc \in {"idle", "check", "restart", "miss"}
    BY <1>10 DEF BubbleTimeout, BubbleFilled, BubbleMoved, RestartTimer, BubbleExpired,
       ResetMissTimeout, rxVars, host
  <2> QED
    BY <2>1, KeepsHands DEF RxHolds, MainHolds, Deleting
<1>11. CASE Air \/ MissGetsOld \/ qmAddRxBaEntry \/ UNCHANGED vars
  <2>1. UNCHANGED <<rxOut, mainOut, lastOut, hostLast, late, passed, raced, rxPc, mainPc>>
    BY <1>11 DEF Air, Send, Acked, GiveUp, SendBar, SendStray, ApMovesTo, MissGetsOld,
       qmAddRxBaEntry, vars, rxVars, mainVars, host
  <2> QED
    BY <2>1, KeepsHands DEF RxHolds, MainHolds, Deleting
<1>12. CASE RxPassesBehind
  <2>1. passed' /\ rxPc' = "deliver" /\ UNCHANGED <<mainPc, mainOut>>
    BY <1>12 DEF RxPassesBehind, RxFallsBehind, RxLocks, mainVars
  <2> QED
    BY <2>1 DEF HInv, RxHolds, MainHolds
<1> QED
  BY <1>1, <1>2, <1>3, <1>4, <1>5, <1>6, <1>7, <1>8, <1>9, <1>10, <1>11, <1>12
  DEF Next, Rx, Main

\* The host gets the frames in order, although both threads deliver what they
\* have released after they have released the lock, unless the deliveries of the
\* two overlapped or a frame behind the window was let through.
THEOREM LateOnlyWhenRaced ==
  ASSUME PlainTraffic
  PROVE  Spec /\ []InStep => []LateOnlyIfRaced
<1>1. Spec /\ []InStep => [](Ordered /\ RInv)
  BY ReleaseInvariance
<1>2. Ordered /\ RInv /\ HInv /\ [Next]_vars => HInv'
  BY NextHands
<1>3. HInv => LateOnlyIfRaced
  BY DEF HInv, HandsOver, LateOnlyIfRaced
<1> QED
  BY <1>1, <1>2, <1>3, InitHands, PTL DEF Spec

-----------------------------------------------------------------------------
(* What is dropped.  Nothing is sent twice, and there are no abnormal      *)
(* numbers.                                                                *)

SingleTraffic == PlainTraffic /\ Repeats = {} /\ StrayBy = 0

\* The parts that rx has not yet put into the queue, or dropped.
Coming ==
  {c \in Parts : \/ \E i \in 1 .. Len(ring) : ring[i] = c
                 \/ rxPc = "insert" /\ rxPkt = c}

\* The access point is through with n or has sent it.
Got(n) == n < apLow \/ n \in apGot

InQueue(n) == \E i \in 1 .. Len(rReOrderQue) : rReOrderQue[i].n = n

\* Of the frame of p, at most the last part comes after p.
After(p, c) == c.n = p.n => c.fmt = "LAST" /\ p.fmt = "FIRST"

\* Of n, nothing is to come that NoEarlyLoss wants.
Done(n) ==
  \/ n < apLow
  \/ \E m \in apGot : m > n
  \/ /\ n \in apGot
     /\ \A c \in Coming :
          c.n = n => c.fmt = "LAST" /\ (lastOut = 2 * n + 1 \/ InQueue(n))

Came ==
  /\ \A c \in Coming : Got(c.n)
  /\ \A i \in 1 .. Len(rReOrderQue) : Got(rReOrderQue[i].n)

Bars ==
  /\ \A i \in 1 .. Len(ring) : ring[i].fmt = "BAR" => ring[i].n <= apLow
  /\ rxPc = "bar" => rxPkt.n <= apLow

Once ==
  /\ \A i \in 1 .. Len(rReOrderQue) : \A c \in Coming : After(rReOrderQue[i], c)
  /\ rxPc = "insert" =>
       \A i \in 1 .. Len(ring) : ring[i].fmt # "BAR" => After(rxPkt, ring[i])

\* The window has passed only what is done.
WindowPasses ==
  fgIsValid /\ ~Deleting =>
    \A w \in Nat : IsStart(w) => \A n \in Nat : n < w => Done(n)

LInv == Came /\ Bars /\ Once /\ WindowPasses

LEMMA GotBefore ==
  ASSUME apLow \in Nat, NEW m \in Nat, Got(m), NEW n \in Nat, n < m
  PROVE  Done(n)
BY DEF Got, Done

\* rx takes no other part, and puts at most its own into the queue.
LEMMA OthersStay ==
  ASSUME Ordered, LInv, UNCHANGED <<air, ring>>,
         rxPc' \in {"insert", "bar"} => rxPc' = rxPc /\ rxPkt' = rxPkt,
         \A i \in 1 .. Len(rReOrderQue') :
           \/ \E j \in 1 .. Len(rReOrderQue) : rReOrderQue'[i] = rReOrderQue[j]
           \/ rReOrderQue'[i] = rxPkt /\ rxPc = "insert" /\ rxPc' # "insert"
  PROVE  Came' /\ Bars' /\ Once' /\ Coming' \subseteq Coming
<1>1. Coming' \subseteq Coming
  BY DEF Coming
<1>2. rxPc = "insert" => rxPkt \in Coming
  BY OrderedIs DEF Coming, IInv, InsertsParts
<1>3. Came'
  <2>1. (\A c \in Coming : Got(c.n))'
    BY <1>1 DEF LInv, Came, Got, air
  <2>2. (\A i \in 1 .. Len(rReOrderQue) : Got(rReOrderQue[i].n))'
    BY <1>2 DEF LInv, Came, Got, air
  <2> QED
    BY <2>1, <2>2 DEF Came
<1>4. Bars'
  BY DEF LInv, Bars, air
<1>5. Once'
  <2>1. ASSUME NEW i \in 1 .. Len(rReOrderQue'), NEW c \in Coming'
        PROVE  After(rReOrderQue'[i], c)
    <3>1. CASE \E j \in 1 .. Len(rReOrderQue) : rReOrderQue'[i] = rReOrderQue[j]
      BY <1>1, <3>1 DEF LInv, Once
    <3>2. CASE rReOrderQue'[i] = rxPkt /\ rxPc = "insert" /\ rxPc' # "insert"
      <4>1. PICK k \in 1 .. Len(ring) : ring[k] = c
        BY <3>2 DEF Coming
      <4>2. ring[k].fmt # "BAR"
        BY <4>1 DEF Coming, Parts
      <4> QED
        BY <3>2, <4>1, <4>2 DEF LInv, Once
    <3> QED
      BY <3>1, <3>2
  <2>2. (rxPc = "insert" =>
          \A i \in 1 .. Len(ring) : ring[i].fmt # "BAR" => After(rxPkt, ring[i]))'
    BY DEF LInv, Once, After
  <2> QED
    BY <2>1, <2>2 DEF Once, After
<1> QED
  BY <1>1, <1>3, <1>4, <1>5

\* A number that is done stays so while the queue keeps its numbers, ...
LEMMA DoneStays ==
  ASSUME NEW n \in Nat, Done(n), UNCHANGED <<air, lastOut>>, Coming' \subseteq Coming,
         \A i \in 1 .. Len(rReOrderQue) :
           \E j \in 1 .. Len(rReOrderQue') : rReOrderQue'[j] = rReOrderQue[i]
  PROVE  Done(n)'
<1>1. InQueue(n) => InQueue(n)'
  BY DEF InQueue
<1> QED
  BY <1>1 DEF Done, air

\* ... and when the head of the queue leaves, which is done then.
LEMMA HeadDone ==
  ASSUME Ordered, RInv, LInv, UNCHANGED air, Coming' \subseteq Coming,
         rReOrderQue # <<>>, rReOrderQue' = Tail(rReOrderQue),
         lastOut' = Pos(rReOrderQue[1]),
         NEW n \in Nat, Done(n) \/ n = rReOrderQue[1].n
  PROVE  Done(n)'
<1> DEFINE h == rReOrderQue[1]
           k == h.n
<1>1. 1 \in 1 .. Len(rReOrderQue) /\ h \in Parts /\ rReOrderQue \in Seq(Parts)
      /\ apLow \in Nat /\ lastOut \in Nat
  BY OrderedIs
<1>2. /\ k \in Nat /\ Got(k) /\ lastOut < Pos(h)
      /\ Pos(h) = IF h.fmt = "LAST" THEN 2 * k + 2 ELSE 2 * k + 1
  BY <1>1, PosIs DEF RInv, LastBefore, LInv, Came
<1>3. \A c \in Coming : c.n = k => c.fmt = "LAST" /\ h.fmt = "FIRST"
  BY <1>1 DEF LInv, Once, After
<1>4. lastOut' = Pos(h)
  OBVIOUS
<1>5. n = k => Done(n)'
  <2> SUFFICES ASSUME n = k PROVE Done(n)'
    OBVIOUS
  <2>1. CASE k < apLow
    BY <2>1 DEF Done, air
  <2>2. CASE k \in apGot
    <3>1. \A c \in Coming' : c.n = n => c.fmt = "LAST" /\ lastOut' = 2 * n + 1
      <4>1. h.fmt = "FIRST" => lastOut' = 2 * k + 1
        BY <1>2, <1>4
      <4> HIDE DEF h, k
      <4> QED
        BY <1>3, <4>1
    <3> QED
      BY <2>2, <3>1 DEF Done, air
  <2> QED
    BY <1>2, <2>1, <2>2 DEF Got
<1> HIDE DEF h
<1>6. CASE Done(n) /\ n < k
  <2>1. n < apLow \/ \E m \in apGot : m > n
    <3> HIDE DEF k
    <3>1. k < apLow \/ k \in apGot
      BY <1>2 DEF Got
    <3> QED
      BY <1>1, <1>2, <1>6, <3>1
  <2> QED
    BY <2>1 DEF Done, air
<1>7. CASE Done(n) /\ n > k
  <2>1. lastOut # 2 * n + 1
    <3> DEFINE p == Pos(h)
    <3>1. p = 2 * k + 2 \/ p = 2 * k + 1
      BY <1>2
    <3>2. lastOut < p
      BY <1>2
    <3> HIDE DEF p, k
    <3> QED
      BY <1>1, <1>2, <1>7, <3>1, <3>2
  <2>2. InQueue(n) => InQueue(n)'
    <3> SUFFICES ASSUME NEW i \in 1 .. Len(rReOrderQue), rReOrderQue[i].n = n
                 PROVE  InQueue(n)'
      BY DEF InQueue
    <3>1. i # 1
      BY <1>2, <1>7 DEF h
    <3>2. i - 1 \in 1 .. Len(rReOrderQue') /\ rReOrderQue'[i - 1] = rReOrderQue[i]
      <4>1. i - 1 \in 1 .. Len(Tail(rReOrderQue)) /\ (i - 1) + 1 = i
        BY <1>1, <3>1, TailIs
      <4> QED
        BY <1>1, <4>1, TailIs
    <3> QED
      BY <3>2 DEF InQueue
  <2> QED
    BY <1>7, <2>1, <2>2 DEF Done, air
<1>8. n = k \/ n < k \/ n > k
  <2> HIDE DEF k
  <2> QED
    BY <1>2
<1>9. Done(n) \/ n = k
  BY DEF h
<1> QED
  BY <1>5, <1>6, <1>7, <1>8, <1>9

\* It is enough to look at one start of the window.
LEMMA PassesOn ==
  ASSUME Ordered', NEW v \in Nat, IsStart(v)', \A n \in Nat : n < v => Done(n)'
  PROVE  WindowPasses'
<1> SUFFICES ASSUME NEW x \in Nat, IsStart(x)', NEW n \in Nat, n < x PROVE Done(n)'
  BY DEF WindowPasses
<1>1. x = v
  BY OrderedIsNext, OneStart DEF IsStart
<1> QED
  BY <1>1

\* Steps that leave the queue and the window alone.
LEMMA StaysDone ==
  ASSUME Ordered, Ordered', LInv,
         UNCHANGED <<lastOut, air, ring, rReOrderQue, u2WinStart, fgIsValid>>,
         rxPc' \in {"insert", "bar"} => rxPc' = rxPc /\ rxPkt' = rxPkt,
         Deleting => Deleting'
  PROVE  LInv'
<1>1. Came' /\ Bars' /\ Once' /\ Coming' \subseteq Coming
  BY OthersStay
<1>2. ASSUME NEW n \in Nat, Done(n) PROVE Done(n)'
  BY <1>1, <1>2, DoneStays
<1>3. WindowPasses'
  <2> SUFFICES ASSUME fgIsValid', ~Deleting', NEW x \in Nat, IsStart(x)',
                      NEW n \in Nat, n < x
               PROVE  Done(n)'
    BY DEF WindowPasses
  <2>1. IsStart(x) /\ fgIsValid /\ ~Deleting
    BY DEF IsStart, air
  <2> QED
    BY <1>2, <2>1 DEF LInv, WindowPasses
<1> QED
  BY <1>1, <1>3 DEF LInv

\* Steps that release nothing: the window moves over what is done, or not
\* further than to a number that came.
LEMMA MovesDone ==
  ASSUME Ordered, Ordered', LInv, UNCHANGED <<air, ring, lastOut, fgIsValid>>,
         fgIsValid, ~Deleting,
         rxPc' \in {"insert", "bar"} => rxPc' = rxPc /\ rxPkt' = rxPkt,
         \A i \in 1 .. Len(rReOrderQue') :
           \/ \E j \in 1 .. Len(rReOrderQue) : rReOrderQue'[i] = rReOrderQue[j]
           \/ rReOrderQue'[i] = rxPkt /\ rxPc = "insert" /\ rxPc' # "insert",
         \A i \in 1 .. Len(rReOrderQue) :
           \E j \in 1 .. Len(rReOrderQue') : rReOrderQue'[j] = rReOrderQue[i],
         NEW w \in Nat, IsStart(w), NEW v \in Nat, IsStart(v)',
         \/ v <= w
         \/ \E m \in Nat : v <= m /\ Got(m)
         \/ v <= apLow
  PROVE  LInv'
<1>0. apLow \in Nat
  BY OrderedIs
<1>1. Came' /\ Bars' /\ Once' /\ Coming' \subseteq Coming
  BY OthersStay
<1>2. ASSUME NEW n \in Nat, n < v PROVE Done(n)
  <2>1. CASE v <= w
    <3>1. n < w
      BY <1>2, <2>1
    <3> QED
      BY <3>1 DEF LInv, WindowPasses
  <2>2. CASE \E m \in Nat : v <= m /\ Got(m)
    <3>1. PICK m \in Nat : v <= m /\ Got(m)
      BY <2>2
    <3>2. n < m
      BY <1>2, <3>1
    <3> QED
      BY <1>0, <3>1, <3>2, GotBefore
  <2>3. CASE v <= apLow
    <3>1. n < apLow
      BY <1>0, <1>2, <2>3
    <3> QED
      BY <3>1 DEF Done
  <2> QED
    BY <2>1, <2>2, <2>3
<1>3. ASSUME NEW n \in Nat, n < v PROVE Done(n)'
  <2>1. Done(n)
    BY <1>2, <1>3
  <2> QED
    BY <1>1, <2>1, DoneStays
<1>4. WindowPasses'
  BY <1>3, PassesOn
<1> QED
  BY <1>1, <1>4 DEF LInv

LEMMA RxFallsWithinDone ==
  ASSUME Ordered, Ordered', RInv, LInv, RxFallsWithin
  PROVE  LInv'
<1>0. Known /\ suspends = 0 /\ OBody /\ IInv /\ EndsClean
  BY OrderedIs DEF Ordered
<1>1. /\ RxLocks /\ rxPc = "insert" /\ rxPc' = "within"
      /\ u2WinStart' = IF fgIsWaitingForPktWithSsn THEN SN(rxPkt) ELSE SeenStart
  BY DEF RxFallsWithin, RxLocks
<1>2. fgIsValid /\ ~Deleting
  BY <1>0, <1>1, LoopIsValid DEF EndsClean, Deleting
<1>3. PICK w \in Nat : IsStart(w) /\ Window(w)
  BY <1>2, StartOf
<1>4. /\ rxPkt \in Parts /\ rxPkt.n \in Nat /\ Near(rxPkt.n, apLow)
      /\ Near(w, apLow) /\ SN(rxPkt) = rxPkt.n % MaxSeq
      /\ SeenStart = w % MaxSeq
      /\ UNCHANGED <<fgIsValid, apLow, ring, mainPc>>
  BY <1>0, <1>1, <1>3, LockedContext
<1>5. UNCHANGED <<air, lastOut>>
  BY <1>0, <1>1 DEF RxLocks, OBody
<1>6. rReOrderQue' = rReOrderQue \/ Adds(rReOrderQue, rReOrderQue', rxPkt)
  BY RxFallsWithinReleased
<1>7. /\ \A i \in 1 .. Len(rReOrderQue') :
           \/ rReOrderQue'[i] = rxPkt
           \/ \E j \in 1 .. Len(rReOrderQue) : rReOrderQue'[i] = rReOrderQue[j]
      /\ \A i \in 1 .. Len(rReOrderQue) :
           \E j \in 1 .. Len(rReOrderQue') : rReOrderQue'[j] = rReOrderQue[i]
  BY <1>6 DEF Adds
<1>8. Got(rxPkt.n)
  BY <1>1, <1>4 DEF LInv, Came, Coming
<1>9. \E v \in Nat : /\ IsStart(v)'
                     /\ v <= w \/ \E m \in Nat : v <= m /\ Got(m)
  <2>1. CASE fgIsWaitingForPktWithSsn
    <3>1. PICK v \in Nat : v = rxPkt.n
      BY <1>4
    <3>2. IsStart(v)'
      BY <1>1, <1>4, <2>1, <3>1 DEF IsStart
    <3>3. v <= v /\ Got(v)
      BY <1>8, <3>1
    <3> QED
      BY <3>2, <3>3
  <2>2. CASE ~fgIsWaitingForPktWithSsn
    <3>1. IsStart(w)' /\ w <= w
      BY <1>1, <1>4, <2>2 DEF IsStart
    <3> QED
      BY <3>1
  <2> QED
    BY <2>1, <2>2
<1>10. PICK v \in Nat : /\ IsStart(v)'
                        /\ v <= w \/ \E m \in Nat : v <= m /\ Got(m)
  BY <1>9
<1> QED
  BY <1>1, <1>2, <1>3, <1>4, <1>5, <1>7, <1>10, MovesDone

LEMMA RxFallsAheadDone ==
  ASSUME Ordered, Ordered', RInv, LInv, RxFallsAhead
  PROVE  LInv'
<1>0. Known /\ suspends = 0 /\ OBody /\ IInv /\ EndsClean
  BY OrderedIs DEF Ordered
<1>1. /\ RxLocks /\ rxPc = "insert" /\ rxPc' = "ahead"
      /\ FallsAhead(SN(rxPkt), SeenStart, SeenEnd)
      /\ u2WinStart' = Advance(SN(rxPkt), MaxSeq - WinSize + 1)
  BY DEF RxFallsAhead, RxLocks
<1>2. fgIsValid /\ ~Deleting
  BY <1>0, <1>1, LoopIsValid DEF EndsClean, Deleting
<1>3. PICK w \in Nat : IsStart(w) /\ Window(w)
  BY <1>2, StartOf
<1>4. /\ rxPkt \in Parts /\ rxPkt.n \in Nat /\ Near(rxPkt.n, apLow)
      /\ apLow \in Nat /\ Close(rxPkt.n, w)
      /\ Near(w, apLow) /\ SN(rxPkt) = rxPkt.n % MaxSeq
      /\ SeenStart = w % MaxSeq /\ SeenEnd = WinEnd(w % MaxSeq)
      /\ UNCHANGED <<fgIsValid, apLow, ring, mainPc>>
  BY <1>0, <1>1, <1>3, LockedContext
<1>5. UNCHANGED <<air, lastOut>>
  BY <1>0, <1>1 DEF RxLocks, OBody
<1>6. Adds(rReOrderQue, rReOrderQue', rxPkt)
  BY RxFallsAheadReleased
<1>7. /\ \A i \in 1 .. Len(rReOrderQue') :
           \/ rReOrderQue'[i] = rxPkt
           \/ \E j \in 1 .. Len(rReOrderQue) : rReOrderQue'[i] = rReOrderQue[j]
      /\ \A i \in 1 .. Len(rReOrderQue) :
           \E j \in 1 .. Len(rReOrderQue') : rReOrderQue'[j] = rReOrderQue[i]
  BY <1>6 DEF Adds
<1>8. Got(rxPkt.n)
  BY <1>1, <1>4 DEF LInv, Came, Coming
<1> DEFINE n == rxPkt.n
<1>9. n \in Nat /\ Near(n, apLow) /\ w + WinSize <= n
  BY <1>1, <1>4, WindowIs
<1>10. PICK v \in Nat : v = n - WinSize + 1 /\ v % MaxSeq = u2WinStart'
  <2>1. n >= WinSize
    BY <1>9, Sizes
  <2> QED
    BY <1>1, <1>4, <2>1, AdvanceBack
<1>11. v - apLow <= 3 * Quarter /\ apLow - v <= 3 * Quarter /\ v <= n
  <2> HIDE DEF n
  <2> QED
    BY <1>4, <1>9, <1>10, Quarters DEF Near
<1>12. IsStart(v)'
  BY <1>2, <1>4, <1>10, <1>11, StartNear
<1>13. \E m \in Nat : v <= m /\ Got(m)
  BY <1>8, <1>9, <1>11
<1> QED
  BY <1>1, <1>2, <1>3, <1>4, <1>5, <1>7, <1>12, <1>13, MovesDone

LEMMA RxFallsBehindDone ==
  ASSUME Ordered, Ordered', LInv, RxPassesBehind \/ RxDropsBehind
  PROVE  LInv'
<1>0. OBody
  BY OrderedIs
<1>1. /\ UNCHANGED <<lastOut, air, ring, rReOrderQue, u2WinStart, fgIsValid, mainPc>>
      /\ rxPc' \in {"idle", "deliver"}
  BY <1>0 DEF RxPassesBehind, RxDropsBehind, RxFallsBehind, RxLocks, OBody, SeenStart,
     mainVars
<1> QED
  BY <1>1, StaysDone DEF Deleting

LEMMA RxBarDone ==
  ASSUME Ordered, Ordered', LInv, RxBar
  PROVE  LInv'
<1>0. /\ TypeOK /\ EndsClean /\ IInv /\ InStep /\ suspends = 0 /\ apLow \in Nat
  BY OrderedIs
<1>1. /\ rxPc = "bar" /\ rxPc' # "insert" /\ rxPc' # "bar"
      /\ UNCHANGED <<lastOut, air, apLow, ring, rReOrderQue, fgIsValid, mainPc>>
  BY DEF RxBar, agreement, mainVars, air
<1>2. CASE ~qmCompareSnIsLessThan(u2WinStart, SN(rxPkt))
  <2>1. UNCHANGED u2WinStart
    BY <1>2 DEF RxBar
  <2> QED
    BY <1>1, <2>1, StaysDone DEF Deleting
<1>3. CASE qmCompareSnIsLessThan(u2WinStart, SN(rxPkt))
  <2>1. u2WinStart' = SN(rxPkt)
    BY <1>3 DEF RxBar
  <2>2. fgIsValid /\ ~Deleting
    BY <1>0, <1>1, LoopIsValid DEF EndsClean, Deleting
  <2>3. PICK w \in Nat : IsStart(w)
    BY <2>2, StartOf
  <2>4. PICK v \in Nat : v = rxPkt.n
    BY <1>0 DEF TypeOK, Parts
  <2>5. Near(v, apLow) /\ v <= apLow
    BY <1>0, <1>1, <2>4 DEF InStep, LInv, Bars
  <2>6. IsStart(v)'
    BY <1>1, <2>1, <2>4, <2>5 DEF IsStart, SN
  <2>7. /\ \A i \in 1 .. Len(rReOrderQue') :
             \E j \in 1 .. Len(rReOrderQue) : rReOrderQue'[i] = rReOrderQue[j]
        /\ \A i \in 1 .. Len(rReOrderQue) :
             \E j \in 1 .. Len(rReOrderQue') : rReOrderQue'[j] = rReOrderQue[i]
    BY <1>1
  <2> QED
    BY <1>1, <2>2, <2>3, <2>5, <2>6, <2>7, MovesDone
<1> QED
  BY <1>2, <1>3

LEMMA BubbleExpiredDone ==
  ASSUME Ordered, Ordered', LInv, BubbleExpired
  PROVE  LInv'
<1>0. IInv /\ EndsClean /\ InStep /\ suspends = 0 /\ apLow \in Nat
      /\ rReOrderQue \in Seq(Parts)
  BY OrderedIs
<1>1. /\ mainPc = "check" /\ rReOrderQue # <<>>
      /\ u2WinStart' = Advance(SN(rReOrderQue[Len(rReOrderQue)]), 1)
      /\ UNCHANGED <<lastOut, air, apLow, ring, rReOrderQue, fgIsValid, rxPc, rxPkt>>
  BY DEF BubbleExpired, agreement, rxVars, air
<1>2. fgIsValid /\ ~Deleting
  BY <1>0, <1>1, LoopIsValid DEF Deleting
<1>3. PICK w \in Nat : IsStart(w)
  BY <1>2, StartOf
<1> DEFINE e == rReOrderQue[Len(rReOrderQue)]
           m == e.n
<1>4. Len(rReOrderQue) \in 1 .. Len(rReOrderQue) /\ e \in Parts
  BY <1>0, <1>1
<1>5. m \in Nat /\ Near(m, apLow)
  BY <1>0, <1>3, <1>4, QueueIsClose DEF IsStart
<1>6. PICK v \in Nat : v = m + 1 /\ u2WinStart' = v % MaxSeq
  <2>1. m + 1 \in Nat /\ u2WinStart' = (m + 1) % MaxSeq
    BY <1>1, <1>4, AdvanceIsNext
  <2> QED
    BY <2>1
<1>7. v - apLow <= 3 * Quarter /\ apLow - v <= 3 * Quarter
  <2> HIDE DEF m
  <2> QED
    BY <1>0, <1>5, <1>6, Quarters DEF Near
<1>8. IsStart(v)'
  BY <1>1, <1>2, <1>6, <1>7, StartNear
<1>9. Came' /\ Bars' /\ Once' /\ Coming' \subseteq Coming
  <2>1. \A i \in 1 .. Len(rReOrderQue') :
          \E j \in 1 .. Len(rReOrderQue) : rReOrderQue'[i] = rReOrderQue[j]
    BY <1>1
  <2> QED
    BY <1>1, <2>1, OthersStay
<1>10. Got(m)
  BY <1>4 DEF LInv, Came
<1>11. Done(m)
  <2>1. \A c \in Coming : c.n = m => c.fmt = "LAST"
    BY <1>4 DEF LInv, Once, After
  <2>2. InQueue(m)
    BY <1>4 DEF InQueue
  <2> QED
    BY <1>10, <2>1, <2>2 DEF Got, Done
<1>12. ASSUME NEW n \in Nat, n < v PROVE Done(n)'
  <2>1. Done(n)
    <3>1. n = m \/ n < m
      <4> HIDE DEF m
      <4> QED
        BY <1>5, <1>6, <1>12
    <3> QED
      BY <1>0, <1>5, <1>10, <1>11, <3>1, GotBefore
  <2>2. \A i \in 1 .. Len(rReOrderQue) :
          \E j \in 1 .. Len(rReOrderQue') : rReOrderQue'[j] = rReOrderQue[i]
    BY <1>1
  <2> QED
    BY <1>1, <1>9, <2>1, <2>2, DoneStays
<1>13. WindowPasses'
  BY <1>8, <1>12, PassesOn
<1> QED
  BY <1>9, <1>13 DEF LInv

LEMMA PopsDone ==
  ASSUME Ordered, Ordered', RInv, LInv, RxPopWithin \/ RxPopAhead \/ FlushPop
  PROVE  LInv'
<1>0. /\ IInv /\ EndsClean /\ InStep /\ suspends = 0 /\ apLow \in Nat
      /\ rReOrderQue \in Seq(Parts)
  BY OrderedIs
<1>1. /\ UNCHANGED <<fgIsValid, air, apLow, ring, rxPc, rxPkt, mainPc>>
      /\ rxPc # "idle" \/ mainPc = "flush"
  BY DEF RxPopWithin, RxPopAhead, FlushPop, LoopFrame, agreement, air
<1>2. fgIsValid /\ ~Deleting
  BY <1>0, <1>1, LoopIsValid DEF EndsClean, Deleting
<1>3. PICK w \in Nat : IsStart(w)
  BY <1>2, StartOf
<1>4. /\ rReOrderQue # <<>> /\ rReOrderQue' = Tail(rReOrderQue)
      /\ lastOut' = Pos(rReOrderQue[1])
      /\ \E v \in Nat :
           /\ u2WinStart' = v % MaxSeq
           /\ v <= w \/ v <= rReOrderQue[1].n + 1
           /\ \/ rReOrderQue[1].n < v
              \/ rReOrderQue[1].n = v /\ rReOrderQue[1].fmt = "FIRST"
  BY <1>3, PopAheadReleases, PopWithinReleases DEF RxPopAhead, FlushPop
<1>5. PICK v \in Nat :
        /\ u2WinStart' = v % MaxSeq
        /\ v <= w \/ v <= rReOrderQue[1].n + 1
        /\ \/ rReOrderQue[1].n < v
           \/ rReOrderQue[1].n = v /\ rReOrderQue[1].fmt = "FIRST"
  BY <1>4
<1> DEFINE k == rReOrderQue[1].n
<1>6. 1 \in 1 .. Len(rReOrderQue) /\ k \in Nat /\ Near(k, apLow)
  <2>1. 1 \in 1 .. Len(rReOrderQue)
    BY <1>0, <1>4
  <2> QED
    BY <1>0, <1>3, <2>1, QueueIsClose DEF IsStart
<1>7. (v <= w \/ v <= k + 1) /\ k <= v
  <2>1. k < v \/ k = v
    BY <1>5
  <2>2. v <= w \/ v <= k + 1
    BY <1>5
  <2> HIDE DEF k
  <2> QED
    BY <1>6, <2>1, <2>2
<1>8. IsStart(v)'
  <2>1. Near(w, apLow)
    BY <1>3 DEF IsStart
  <2> HIDE DEF k
  <2>2. v - apLow <= 3 * Quarter /\ apLow - v <= 3 * Quarter
    BY <1>0, <1>6, <1>7, <2>1, Quarters DEF Near
  <2> QED
    BY <1>1, <1>2, <1>5, <2>2, StartNear
<1>9. Came' /\ Bars' /\ Once' /\ Coming' \subseteq Coming
  <2>1. \A i \in 1 .. Len(rReOrderQue') :
          \E j \in 1 .. Len(rReOrderQue) : rReOrderQue'[i] = rReOrderQue[j]
    <3> SUFFICES ASSUME NEW i \in 1 .. Len(Tail(rReOrderQue))
                 PROVE  \E j \in 1 .. Len(rReOrderQue) : Tail(rReOrderQue)[i] = rReOrderQue[j]
      BY <1>4
    <3>1. i + 1 \in 1 .. Len(rReOrderQue) /\ Tail(rReOrderQue)[i] = rReOrderQue[i + 1]
      BY <1>0, <1>4, TailIs
    <3> QED
      BY <3>1
  <2> QED
    BY <1>1, <2>1, OthersStay
<1>10. Got(k)
  BY <1>6 DEF LInv, Came
<1>11. ASSUME NEW n \in Nat, n < v PROVE Done(n)'
  <2>1. Done(n) \/ n = k
    <3>1. n < w \/ n < k \/ n = k
      <4> HIDE DEF k
      <4> QED
        BY <1>6, <1>7, <1>11
    <3>2. n < w => Done(n)
      BY <1>2, <1>3 DEF LInv, WindowPasses
    <3> QED
      BY <1>0, <1>6, <1>10, <3>1, <3>2, GotBefore
  <2> QED
    BY <1>1, <1>4, <1>9, <2>1, HeadDone
<1>12. WindowPasses'
  BY <1>8, <1>11, PassesOn
<1> QED
  BY <1>9, <1>12 DEF LInv

LEMMA EndsDone ==
  ASSUME Ordered, Ordered', LInv, RxWithinEnds \/ RxAheadEnds \/ FlushEnds
  PROVE  LInv'
<1>1. /\ UNCHANGED <<fgIsValid, air, apLow, ring, rReOrderQue, lastOut>>
      /\ rxPc # "idle" \/ mainPc = "flush"
      /\ rxPc' \in {"insert", "bar"} => rxPc' = rxPc /\ rxPkt' = rxPkt
  BY DEF RxWithinEnds, RxAheadEnds, FlushEnds, LoopFrame, LoopEnds, NothingReleased,
     agreement, air
<1>2. /\ IInv /\ EndsClean /\ InStep /\ suspends = 0 /\ apLow \in Nat
      /\ rReOrderQue \in Seq(Parts)
  BY OrderedIs
<1>3. fgIsValid /\ ~Deleting
  BY <1>1, <1>2, LoopIsValid DEF EndsClean, Deleting
<1>4. PICK w \in Nat : IsStart(w)
  BY <1>3, StartOf
<1>5. Near(w, apLow) /\ w % MaxSeq = u2WinStart
  BY <1>4 DEF IsStart
<1>6. PICK v \in Nat :
        /\ u2WinStart' = v % MaxSeq /\ w <= v /\ v <= w + 1
        /\ v # w => rReOrderQue # <<>> /\ v <= rReOrderQue[1].n
  BY <1>2, <1>5, LoopEndMoves DEF RxWithinEnds, RxAheadEnds, FlushEnds
<1>7. IsStart(v)'
  <2>1. v - apLow <= 3 * Quarter /\ apLow - v <= 3 * Quarter
    BY <1>2, <1>5, <1>6, Quarters DEF Near
  <2> QED
    BY <1>1, <1>3, <1>6, <2>1, StartNear
<1>8. v <= w \/ \E m \in Nat : v <= m /\ Got(m)
  <2>1. CASE v = w
    BY <2>1
  <2>2. CASE v # w
    <3>1. 1 \in 1 .. Len(rReOrderQue) /\ v <= rReOrderQue[1].n
      BY <1>2, <1>6, <2>2
    <3>2. rReOrderQue[1].n \in Nat /\ Got(rReOrderQue[1].n)
      BY <1>2, <1>5, <3>1, QueueIsClose DEF LInv, Came
    <3> QED
      BY <3>1, <3>2
  <2> QED
    BY <2>1, <2>2
<1>9. /\ \A i \in 1 .. Len(rReOrderQue') :
           \E j \in 1 .. Len(rReOrderQue) : rReOrderQue'[i] = rReOrderQue[j]
      /\ \A i \in 1 .. Len(rReOrderQue) :
           \E j \in 1 .. Len(rReOrderQue') : rReOrderQue'[j] = rReOrderQue[i]
  BY <1>1
<1> QED
  BY <1>1, <1>3, <1>4, <1>7, <1>8, <1>9, MovesDone

LEMMA RxReceiveDone ==
  ASSUME Ordered, Ordered', LInv, RxReceive
  PROVE  LInv'
<1>0. OBody /\ RingShape /\ TypeOK
  BY OrderedIs DEF OBody
<1>1. /\ rxPc = "idle" /\ ring # <<>> /\ ring' = Tail(ring)
      /\ UNCHANGED <<lastOut, rReOrderQue, fgIsValid, u2WinStart, air, mainPc>>
      /\ ring \in Seq(Parts \cup [n : Nat, fmt : {"BAR"}])
  BY <1>0 DEF RxReceive, agreement, window, mainVars, TypeOK
<1> DEFINE p == Head(ring)
<1>2. /\ p = ring[1] /\ 1 \in 1 .. Len(ring) /\ Len(ring) \in Nat
      /\ \A i \in 1 .. Len(ring') : i + 1 \in 1 .. Len(ring) /\ ring'[i] = ring[i + 1]
  <2>1. /\ Len(ring) \in Nat /\ Len(ring) >= 1 /\ Len(ring') = Len(ring) - 1
        /\ \A i \in 1 .. Len(ring) - 1 : ring'[i] = ring[i + 1]
    BY <1>1
  <2> QED
    BY <1>1, <2>1
<1>3. /\ rxPc' \in {"idle", "insert", "bar"}
      /\ rxPc' = "insert" => rxPkt' = ring[1] /\ ring[1].fmt # "BAR"
      /\ rxPc' = "bar" => rxPkt' = ring[1] /\ ring[1].fmt = "BAR"
  BY <1>1, <1>2 DEF RxReceive
<1>4. Coming' \subseteq Coming
  <2> SUFFICES ASSUME NEW c \in Coming' PROVE c \in Coming
    OBVIOUS
  <2>1. c \in Parts
    BY DEF Coming
  <2>2. CASE \E i \in 1 .. Len(ring') : ring'[i] = c
    BY <1>2, <2>1, <2>2 DEF Coming
  <2>3. CASE rxPc' = "insert" /\ rxPkt' = c
    BY <1>2, <1>3, <2>1, <2>3 DEF Coming
  <2> QED
    BY <2>2, <2>3 DEF Coming
<1>5. Came'
  BY <1>1, <1>4 DEF LInv, Came, Got, air
<1>6. Bars'
  BY <1>1, <1>2, <1>3 DEF LInv, Bars, air
<1>7. Once'
  <2>1. ASSUME NEW i \in 1 .. Len(rReOrderQue'), NEW c \in Coming'
        PROVE  After(rReOrderQue'[i], c)
    BY <1>1, <1>4 DEF LInv, Once
  <2>2. ASSUME rxPc' = "insert", NEW i \in 1 .. Len(ring') PROVE After(rxPkt', ring'[i])
    <3>1. i + 1 \in 1 .. Len(ring) /\ ring'[i] = ring[i + 1]
      BY <1>2
    <3>2. Len(ring) > 1
      BY <1>2, <3>1
    <3>3. Len(ring) = 2 /\ ring[1].fmt = "FIRST" /\ ring[2].fmt = "LAST"
      BY <1>0, <3>2 DEF RingShape
    <3>4. i + 1 = 2
      BY <3>1, <3>3
    <3> QED
      BY <1>3, <2>2, <3>1, <3>3, <3>4 DEF After
  <2> QED
    BY <2>1, <2>2 DEF Once, After
<1>8. WindowPasses'
  <2> SUFFICES ASSUME fgIsValid', ~Deleting', NEW x \in Nat, IsStart(x)',
                      NEW n \in Nat, n < x
               PROVE  Done(n)'
    BY DEF WindowPasses
  <2>1. IsStart(x) /\ fgIsValid /\ ~Deleting
    BY <1>1 DEF IsStart, air, Deleting
  <2>2. Done(n)
    BY <2>1 DEF LInv, WindowPasses
  <2>3. \A i \in 1 .. Len(rReOrderQue) :
          \E j \in 1 .. Len(rReOrderQue') : rReOrderQue'[j] = rReOrderQue[i]
    BY <1>1
  <2> QED
    BY <1>1, <1>4, <2>2, <2>3, DoneStays
<1> QED
  BY <1>5, <1>6, <1>7, <1>8 DEF LInv

\* A step of the AP: what it sends, it has not sent before.
LEMMA AirIsNew ==
  ASSUME Ordered, LInv, SingleTraffic, Air
  PROVE  /\ \A n \in Nat : Got(n) => Got(n)'
         /\ \A n \in Nat : n < apLow \/ (\E m \in apGot : m > n)
                             => (n < apLow \/ \E m \in apGot : m > n)'
         /\ \A n \in apGot : n < apLow' \/ n \in apGot'
         /\ Bars'
         /\ \/ ring' = ring
            \/ \A i \in 1 .. Len(ring') : ring'[i].fmt # "BAR" =>
                 ring'[i].n \in Nat /\ ~Got(ring'[i].n) /\ Got(ring[i].n)'
<1>1. apLow \in Nat /\ Last \in Nat /\ rxPkt.n \in Nat /\ apGot \subseteq Nat
  BY OrderedIs, ConstantsAssumption DEF TypeOK, Parts
<1>2. /\ UNCHANGED <<rxPc, rxPkt>> /\ apLow' \in Nat /\ apLow <= apLow'
  BY <1>1, AirAdvances
  DEF SingleTraffic, PlainTraffic, Air, Send, Acked, GiveUp, SendBar, SendStray,
      ApMovesTo, rxVars
<1>3. \A n \in apGot : n \in apGot' \/ n < apLow'
  <2>1. CASE Acked \/ GiveUp
    <3>1. PICK a : ApMovesTo(a)
      BY <2>1 DEF Acked, GiveUp
    <3>2. apGot' = {k \in apGot : k >= a} /\ apLow' = a
      BY <3>1 DEF ApMovesTo
    <3>3. a \in Nat
      BY <1>2, <3>2
    <3> QED
      BY <1>1, <3>2, <3>3
  <2>2. CASE ~(Acked \/ GiveUp)
    <3>1. apGot \subseteq apGot'
      BY <2>2 DEF Air, Send, SendBar, SendStray
    <3> QED
      BY <3>1
  <2> QED
    BY <2>1, <2>2
<1>4. \A n \in Nat : Got(n) => Got(n)'
  BY <1>1, <1>2, <1>3 DEF Got
<1>5. ASSUME NEW n \in Nat, n < apLow \/ (\E m \in apGot : m > n)
      PROVE  n < apLow' \/ \E m \in apGot' : m > n
  BY <1>1, <1>2, <1>3, <1>5
<1>6. ASSUME NEW m \in apLow .. Last, Send(m)
      PROVE  /\ Bars'
             /\ \A i \in 1 .. Len(ring') : ring'[i].fmt # "BAR" =>
                  ring'[i].n \in Nat /\ ~Got(ring'[i].n) /\ Got(ring[i].n)'
  <2>1. /\ ring' = Frame(m) /\ m \notin apGot /\ m \in apGot' /\ m \in Nat /\ m >= apLow
        /\ apLow' = apLow
    BY <1>1, <1>6 DEF Send, SingleTraffic
  <2>2. \A i \in 1 .. Len(ring') : ring'[i].n = m /\ ring'[i].fmt # "BAR"
    BY <2>1 DEF Frame
  <2>3. ~Got(m) /\ Got(m)'
    BY <1>1, <2>1 DEF Got
  <2>4. Bars'
    BY <1>2, <2>1, <2>2 DEF LInv, Bars
  <2> QED
    BY <2>1, <2>2, <2>3, <2>4 DEF Got
<1>7. CASE Acked \/ GiveUp
  <2>1. ring' = ring
    BY <1>7 DEF Acked, GiveUp, ApMovesTo
  <2>2. Bars'
    <3>1. ASSUME NEW i \in 1 .. Len(ring), ring[i].fmt = "BAR" PROVE ring[i].n <= apLow'
      <4>1. ring[i].n <= apLow /\ ring[i] \in Parts \cup [n : Nat, fmt : {"BAR"}]
        BY <3>1, OrderedIs DEF LInv, Bars, TypeOK
      <4>2. PICK n \in Nat : n = ring[i].n
        BY <4>1 DEF Parts
      <4>3. n <= apLow'
        BY <1>1, <1>2, <4>1, <4>2
      <4> QED
        BY <4>2, <4>3
    <3>2. rxPc = "bar" => rxPkt.n <= apLow'
      BY <1>1, <1>2 DEF LInv, Bars
    <3> QED
      BY <1>2, <2>1, <3>1, <3>2 DEF Bars
  <2> QED
    BY <1>3, <1>4, <1>5, <2>1, <2>2
<1>8. CASE SendBar
  <2>1. ring' = <<[n |-> apLow, fmt |-> "BAR"]>> /\ apLow' = apLow
    BY <1>8 DEF SendBar
  <2>2. Len(ring') = 1 /\ ring'[1].fmt = "BAR" /\ ring'[1].n = apLow
    BY <2>1
  <2>3. Bars'
    BY <1>1, <1>2, <2>1, <2>2 DEF LInv, Bars
  <2> QED
    BY <1>3, <1>4, <1>5, <2>2, <2>3
<1>9. CASE SendStray
  BY <1>9 DEF SendStray, SingleTraffic
<1> QED
  BY <1>3, <1>4, <1>5, <1>6, <1>7, <1>8, <1>9 DEF Air

LEMMA AirDone ==
  ASSUME Ordered, Ordered', LInv, SingleTraffic, Air
  PROVE  LInv'
<1>0. /\ UNCHANGED <<lastOut, rReOrderQue, fgIsValid, u2WinStart, rxPc, rxPkt, mainPc>>
  BY DEF Air, Send, Acked, GiveUp, SendBar, SendStray, ApMovesTo, agreement, window,
     rxVars, mainVars
<1>1. /\ \A n \in Nat : Got(n) => Got(n)'
      /\ \A n \in Nat : n < apLow \/ (\E m \in apGot : m > n)
                          => (n < apLow \/ \E m \in apGot : m > n)'
      /\ \A n \in apGot : n < apLow' \/ n \in apGot'
      /\ Bars'
      /\ \/ ring' = ring
         \/ \A i \in 1 .. Len(ring') : ring'[i].fmt # "BAR" =>
              ring'[i].n \in Nat /\ ~Got(ring'[i].n) /\ Got(ring[i].n)'
  BY AirIsNew
<1>2. ASSUME NEW c \in Coming' PROVE c.n \in Nat /\ (c \in Coming \/ (~Got(c.n) /\ Got(c.n)'))
  <2>1. c \in Parts /\ c.n \in Nat /\ c.fmt # "BAR"
    BY DEF Coming, Parts
  <2>2. CASE \E i \in 1 .. Len(ring') : ring'[i] = c
    <3>1. CASE ring' = ring
      BY <2>1, <2>2, <3>1 DEF Coming
    <3>2. CASE ring' # ring
      <4>1. PICK i \in 1 .. Len(ring') : ring'[i] = c
        BY <2>2
      <4>2. ~Got(ring'[i].n) /\ Got(ring[i].n)'
        BY <1>1, <2>1, <3>2, <4>1
      <4> QED
        BY <2>1, <4>1, <4>2 DEF Got
    <3> QED
      BY <3>1, <3>2
  <2>3. CASE rxPc' = "insert" /\ rxPkt' = c
    BY <1>0, <2>1, <2>3 DEF Coming
  <2> QED
    BY <2>2, <2>3 DEF Coming
<1>3. ASSUME NEW i \in 1 .. Len(rReOrderQue)
      PROVE  rReOrderQue[i].n \in Nat /\ Got(rReOrderQue[i].n)
  <2>1. rReOrderQue[i] \in Parts
    BY OrderedIs
  <2> QED
    BY <2>1, PosIs DEF LInv, Came
<1>4. Came'
  <2>1. ASSUME NEW c \in Coming' PROVE Got(c.n)'
    <3>1. c \in Coming => Got(c.n)
      BY DEF LInv, Came
    <3>2. PICK n \in Nat : n = c.n
      BY <1>2
    <3> QED
      BY <1>1, <1>2, <3>1, <3>2
  <2>2. ASSUME NEW i \in 1 .. Len(rReOrderQue') PROVE Got(rReOrderQue[i].n)'
    <3>1. PICK n \in Nat : n = rReOrderQue[i].n /\ Got(n)
      BY <1>0, <1>3
    <3>2. Got(n)'
      BY <1>1, <3>1
    <3> QED
      BY <1>0, <3>1, <3>2 DEF Got
  <2> QED
    BY <2>1, <2>2 DEF Came, Got
<1>5. Once'
  <2>1. ASSUME NEW i \in 1 .. Len(rReOrderQue'), NEW c \in Coming'
        PROVE  After(rReOrderQue'[i], c)
    <3>1. CASE c \in Coming
      BY <1>0, <3>1 DEF LInv, Once
    <3>2. CASE ~Got(c.n)
      <4>1. c.n # rReOrderQue[i].n
        BY <1>0, <1>3, <3>2
      <4> QED
        BY <1>0, <4>1 DEF After
    <3> QED
      BY <1>2, <3>1, <3>2
  <2>2. ASSUME rxPc' = "insert", NEW i \in 1 .. Len(ring'), (ring[i].fmt # "BAR")'
        PROVE  After(rxPkt', ring'[i])
    <3>1. CASE ring' = ring
      BY <1>0, <2>2, <3>1 DEF LInv, Once
    <3>2. CASE ring' # ring
      <4>1. ~Got(ring'[i].n)
        BY <1>1, <2>2, <3>2
      <4>2. rxPkt \in Coming
        BY <1>0, <2>2, OrderedIs DEF Coming, IInv, InsertsParts
      <4>3. Got(rxPkt.n)
        BY <4>2 DEF LInv, Came
      <4>4. ring'[i].n # rxPkt.n
        BY <4>1, <4>3
      <4> QED
        BY <1>0, <4>4 DEF After
    <3> QED
      BY <3>1, <3>2
  <2> QED
    BY <2>1, <2>2 DEF Once, After
<1>6. ASSUME NEW n \in Nat, Done(n) PROVE Done(n)'
  <2>1. CASE n < apLow \/ \E m \in apGot : m > n
    BY <1>1, <2>1 DEF Done
  <2>2. CASE /\ n \in apGot
             /\ \A c \in Coming :
                  c.n = n => c.fmt = "LAST" /\ (lastOut = 2 * n + 1 \/ InQueue(n))
    <3>1. n < apLow' \/ n \in apGot'
      BY <1>1, <2>2
    <3>2. \A c \in Coming' : c.n = n => c \in Coming
      BY <1>2, <2>2 DEF Got
    <3>3. InQueue(n) => InQueue(n)'
      BY <1>0 DEF InQueue
    <3> QED
      BY <1>0, <2>2, <3>1, <3>2, <3>3 DEF Done
  <2> QED
    BY <1>6, <2>1, <2>2 DEF Done
<1>7. WindowPasses'
  <2> SUFFICES ASSUME fgIsValid', ~Deleting', NEW x \in Nat, IsStart(x)',
                      NEW n \in Nat, n < x
               PROVE  Done(n)'
    BY DEF WindowPasses
  <2>1. PICK w \in Nat : IsStart(w)
    BY <1>0, StartOf
  <2>2. Near(w, apLow) /\ w % MaxSeq = u2WinStart
    BY <2>1 DEF IsStart
  <2>3. IsStart(w)'
    <3> DEFINE a == apLow'
    <3>1. apLow \in Nat /\ a \in Nat /\ apLow <= a /\ a <= apLow + Half
      BY OrderedIs, AirAdvances DEF SingleTraffic, PlainTraffic
    <3> HIDE DEF a
    <3>2. w - a <= 3 * Quarter /\ a - w <= 3 * Quarter
      BY <2>2, <3>1, Quarters DEF Near
    <3> QED
      BY <1>0, <2>2, <3>2, StartNear DEF a
  <2>4. x = w
    BY <2>3, OrderedIsNext, OneStart DEF IsStart
  <2>5. Done(n)
    BY <1>0, <2>1, <2>4 DEF LInv, WindowPasses, Deleting
  <2> QED
    BY <1>6, <2>5
<1> QED
  BY <1>1, <1>4, <1>5, <1>7 DEF LInv

LEMMA AgreementsDone ==
  ASSUME Ordered, Ordered', RInv, LInv, qmDelRxBaEntry \/ DelForgets \/ qmAddRxBaEntry
  PROVE  LInv'
<1>1. UNCHANGED <<air, apLow, ring, rxPc, rxPkt>> /\ apLow \in Nat
  BY OrderedIs DEF qmDelRxBaEntry, DelForgets, qmAddRxBaEntry, rxVars, air
<1>2. rReOrderQue' = <<>>
  BY AgreementsReleased
<1>3. \A i \in 1 .. Len(rReOrderQue') : FALSE
  BY <1>2
<1>4. Came' /\ Bars' /\ Once'
  BY <1>1, <1>3, OthersStay
<1>5. WindowPasses'
  <2>1. CASE qmDelRxBaEntry
    BY <2>1 DEF qmDelRxBaEntry, Deleting, WindowPasses
  <2>2. CASE DelForgets
    BY <2>2 DEF DelForgets, WindowPasses
  <2>3. CASE qmAddRxBaEntry
    <3> SUFFICES ASSUME NEW x \in Nat, IsStart(x)', NEW n \in Nat, n < x
                 PROVE  Done(n)'
      BY DEF WindowPasses
    <3>1. Near(x, apLow) /\ x % MaxSeq = apLow % MaxSeq
      BY <1>1, <2>3 DEF IsStart, qmAddRxBaEntry
    <3>2. Near(apLow, apLow)
      BY <1>1, Quarters DEF Near
    <3>3. x = apLow
      BY <1>1, <3>1, <3>2, OneStart
    <3> QED
      BY <1>1, <3>3 DEF Done
  <2> QED
    BY <2>1, <2>2, <2>3
<1> QED
  BY <1>4, <1>5 DEF LInv

LEMMA QuietDone ==
  ASSUME Ordered, Ordered', RInv, LInv,
         \/ RxDeliver \/ BubbleTimeout \/ BubbleFilled \/ BubbleMoved \/ RestartTimer
         \/ FlushDeliver \/ ResetMissTimeout \/ DelStopsTimer \/ MissGetsOld
         \/ UNCHANGED vars
  PROVE  LInv'
<1>1. /\ UNCHANGED <<lastOut, air, ring, rReOrderQue, u2WinStart, fgIsValid>>
      /\ rxPc' \in {"insert", "bar"} => rxPc' = rxPc /\ rxPkt' = rxPkt
      /\ Deleting => Deleting'
  BY DEF RxDeliver, BubbleTimeout, BubbleFilled, BubbleMoved, RestartTimer,
     FlushDeliver, ResetMissTimeout, DelStopsTimer, MissGetsOld, vars, agreement,
     window, rxVars, mainVars, Deleting
<1> QED
  BY <1>1, StaysDone

LEMMA InitDone == Init => LInv
BY DEF Init, LInv, Came, Bars, Once, WindowPasses, Coming

LEMMA NextDone ==
  ASSUME Ordered, Ordered', RInv, LInv, [Next]_vars, SingleTraffic
  PROVE  LInv'
<1>1. CASE Suspend
  <2>1. FALSE
    BY <1>1, OrderedIs, ConstantsAssumption DEF SingleTraffic, PlainTraffic, Suspend
  <2> QED
    BY <2>1
<1>3. CASE Rx
  BY <1>3, RxReceiveDone, RxFallsWithinDone, RxFallsAheadDone, RxFallsBehindDone,
     RxBarDone, PopsDone, EndsDone, QuietDone
  DEF Rx
<1>4. CASE Main
  BY <1>4, QuietDone, BubbleExpiredDone, PopsDone, EndsDone, AgreementsDone DEF Main
<1>5. CASE Air \/ MissGetsOld \/ qmDelRxBaEntry \/ qmAddRxBaEntry \/ UNCHANGED vars
  BY <1>5, AirDone, QuietDone, AgreementsDone
<1> QED
  BY <1>1, <1>3, <1>4, <1>5 DEF Next

LEMMA DropsAreDone ==
  ASSUME Ordered, LInv, RxDropsBehind
  PROVE  \/ rxPkt.n < apLow \/ \E m \in apGot : m > rxPkt.n
         \/ rxPkt.fmt = "LAST" /\ lastOut = Pos([rxPkt EXCEPT !.fmt = "FIRST"])
         \/ \E i \in 1 .. Len(rReOrderQue) : rReOrderQue[i].n = rxPkt.n
<1>0. IInv /\ EndsClean /\ OBody /\ Known /\ suspends = 0
  BY OrderedIs DEF Ordered
<1>1. /\ RxLocks /\ rxPc = "insert"
      /\ ~FallsWithin(SN(rxPkt), SeenStart, SeenEnd)
      /\ ~FallsAhead(SN(rxPkt), SeenStart, SeenEnd)
  BY DEF RxDropsBehind, RxFallsBehind, RxLocks
<1>2. fgIsValid /\ ~Deleting
  BY <1>0, <1>1, LoopIsValid DEF EndsClean, Deleting
<1>3. PICK w \in Nat : IsStart(w) /\ Window(w)
  BY <1>2, StartOf
<1>4. /\ rxPkt \in Parts /\ rxPkt.n \in Nat /\ Close(rxPkt.n, w)
      /\ SN(rxPkt) = rxPkt.n % MaxSeq
      /\ SeenStart = w % MaxSeq /\ SeenEnd = WinEnd(w % MaxSeq)
  BY <1>0, <1>1, <1>3, LockedContext
<1> DEFINE n == rxPkt.n
<1>5. n < w
  <2>1. ~(w <= n /\ n < w + WinSize) /\ ~(w + WinSize <= n)
    BY <1>1, <1>4, WindowIs
  <2> HIDE DEF n
  <2>2. n \in Nat
    BY <1>4 DEF n
  <2> QED
    BY <2>1, <2>2, Sizes
<1>6. Done(n)
  BY <1>2, <1>3, <1>4, <1>5 DEF LInv, WindowPasses
<1>7. rxPkt \in Coming
  BY <1>1, <1>4 DEF Coming
<1>8. [rxPkt EXCEPT !.fmt = "FIRST"] = [n |-> n, fmt |-> "FIRST"]
  BY <1>4 DEF Parts
<1>9. Pos([rxPkt EXCEPT !.fmt = "FIRST"]) = 2 * n + 1
  BY <1>8 DEF Pos
<1> QED
  BY <1>6, <1>7, <1>9 DEF Done, InQueue

\* No frame is dropped as too old before its time: the window passes a number only
\* when the access point is through with it or has sent a later one, or when what
\* came of the number has been released or waits.
THEOREM NothingLostEarly ==
  ASSUME SingleTraffic
  PROVE  Spec /\ []InStep => NoEarlyLoss
<1>1. Spec /\ []InStep => [](Ordered /\ RInv)
  BY ReleaseInvariance DEF SingleTraffic
<1>2. Ordered /\ Ordered' /\ RInv /\ LInv /\ [Next]_vars => LInv'
  BY NextDone
<1>3. Ordered /\ LInv =>
        [RxDropsBehind /\ suspends = 0 /\ rxPkt.n <= Last =>
          \/ rxPkt.n < apLow \/ \E m \in apGot : m > rxPkt.n
          \/ rxPkt.fmt = "LAST" /\ lastOut = Pos([rxPkt EXCEPT !.fmt = "FIRST"])
          \/ \E i \in 1 .. Len(rReOrderQue) : rReOrderQue[i].n = rxPkt.n]_vars
  BY DropsAreDone
<1> QED
  BY <1>1, <1>2, <1>3, InitDone, PTL DEF Spec, NoEarlyLoss
=============================================================================
