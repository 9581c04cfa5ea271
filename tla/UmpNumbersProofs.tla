-------------------------- MODULE UmpNumbersProofs --------------------------
(***************************************************************************)
(* What holds of UmpNumbers for a number space of any size, any first      *)
(* number, and messages and windows that together stay below half the      *)
(* space: the numbers stand for positions in the stream.  First what the   *)
(* 16-bit arithmetic of ump_sock.c computes: an integer stands for a       *)
(* position in a stream, its remainder for the number of the packet there. *)
(***************************************************************************)
EXTENDS UmpNumbers, SequenceTheorems, TLAPS

-----------------------------------------------------------------------------
(* Remainders *)

LEMMA QuotientAndRest ==
  ASSUME NEW n \in Nat \ {0}, NEW x \in Int
  PROVE  \E q \in Int, r \in 0..(n - 1) : x = n * q + r
<1>1. /\ x % n \in 0..(n - 1) /\ x \div n \in Int
      /\ x = n * (x \div n) + (x % n)
  OBVIOUS
<1> QED BY <1>1

LEMMA RestIsUnique ==
  ASSUME NEW n \in Nat \ {0}, NEW q \in Int, NEW r \in 0..(n - 1)
  PROVE  (n * q + r) % n = r
OBVIOUS

LEMMA RestIgnoresMultiples ==
  ASSUME NEW n \in Nat \ {0}, NEW x \in Int, NEW k \in Int
  PROVE  (x + n * k) % n = x % n
<1>1. PICK q \in Int, r \in 0..(n - 1) : x = n * q + r  BY QuotientAndRest
<1>2. x % n = r  BY <1>1, RestIsUnique
<1>3. q + k \in Int /\ x + n * k = n * (q + k) + r  BY <1>1
<1>4. (n * (q + k) + r) % n = r  BY <1>3, RestIsUnique
<1> QED BY <1>2, <1>3, <1>4

LEMMA RestOfSum ==
  ASSUME NEW n \in Nat \ {0}, NEW x \in Int, NEW k \in Int
  PROVE  ((x % n) + k) % n = (x + k) % n
<1>1. PICK q \in Int, r \in 0..(n - 1) : x = n * q + r  BY QuotientAndRest
<1>2. x % n = r  BY <1>1, RestIsUnique
<1>3. r + k \in Int /\ x + k = (r + k) + n * q  BY <1>1
<1>4. ((r + k) + n * q) % n = (r + k) % n  BY <1>3, RestIgnoresMultiples
<1> QED BY <1>2, <1>3, <1>4

-----------------------------------------------------------------------------
(* Numbers *)

LEMMA NumModIsPositive == NumMod \in Nat \ {0} /\ NumMod = Half + Half
BY HalfAssumption DEF NumMod

LEMMA WrapsIntoNums == ASSUME NEW x \in Int PROVE x % NumMod \in Nums
<1> DEFINE n == NumMod
<1>1. n \in Nat \ {0}  BY NumModIsPositive
<1> HIDE DEF n
<1>2. x % n \in 0..(n - 1)  BY <1>1
<1> QED BY <1>2 DEF n, Nums

LEMMA SmallIsItself == ASSUME NEW x \in Nums PROVE x % NumMod = x
<1>1. x \in 0..(NumMod - 1) /\ NumMod * 0 + x = x /\ x \in Int
  BY NumModIsPositive DEF Nums
<1>2. (NumMod * 0 + x) % NumMod = x  BY <1>1, NumModIsPositive, RestIsUnique
<1> QED BY <1>1, <1>2

\* One turn around the circle, up or down
LEMMA WrapsOnce ==
  ASSUME NEW x \in -NumMod..(2 * NumMod - 1)
  PROVE  x % NumMod = IF x < 0 THEN x + NumMod
                      ELSE IF x >= NumMod THEN x - NumMod ELSE x
<1> DEFINE n == NumMod
<1>1. n \in Nat \ {0} /\ x \in Int  BY NumModIsPositive
<1>2. CASE x < 0
  <2>1. x + n \in 0..(n - 1) /\ x = n * (-1) + (x + n)  BY <1>1, <1>2
  <2> QED BY <1>1, <1>2, <2>1, RestIsUnique
<1>3. CASE x >= NumMod
  <2>1. x - n \in 0..(n - 1) /\ x = n * 1 + (x - n)  BY <1>1, <1>3
  <2> QED BY <1>1, <1>3, <2>1, RestIsUnique
<1>4. CASE x >= 0 /\ x < NumMod
  <2>1. x \in Nums  BY <1>1, <1>4 DEF Nums
  <2> QED BY <1>1, <1>4, <2>1, SmallIsItself
<1> QED BY <1>1, <1>2, <1>3, <1>4

\* ump_relative_to_seq_via_sndstartseq goes as far in the numbers as in the stream.
LEMMA PlusWraps ==
  ASSUME NEW x \in Int, NEW k \in Int
  PROVE  Plus(x % NumMod, k) = (x + k) % NumMod
BY NumModIsPositive, RestOfSum DEF Plus

\* Two positions with one number are a number space apart.
LEMMA WrapIsInjective ==
  ASSUME NEW x \in Int, NEW y \in Int, x - y < NumMod, y - x < NumMod,
         x % NumMod = y % NumMod
  PROVE  x = y
<1> DEFINE n == NumMod
<1>1. n \in Nat \ {0}  BY NumModIsPositive
<1> HIDE DEF n
<1>2. PICK q1 \in Int, r1 \in 0..(n - 1) : x = n * q1 + r1  BY <1>1, QuotientAndRest
<1>3. PICK q2 \in Int, r2 \in 0..(n - 1) : y = n * q2 + r2  BY <1>1, QuotientAndRest
<1>4. r1 = r2  BY <1>1, <1>2, <1>3, RestIsUnique DEF n
<1> DEFINE d == q1 - q2
<1>5. d \in Int /\ x - y = n * d  BY <1>1, <1>2, <1>3, <1>4
<1>6. n * d < n /\ n * d > -n  BY <1>1, <1>5 DEF n
<1> HIDE DEF d
<1>7. d = 0  BY <1>1, <1>5, <1>6
<1> QED BY <1>1, <1>5, <1>7

\* Half the space behind a position and half ahead of it: where numbers can be
\* told apart around it.
Near(b, x) == -Half <= x - b /\ x - b < Half

\* Lifting turns the circle into a line that is cut opposite to the base.
LEMMA LiftIsDistance ==
  ASSUME NEW b \in Int, NEW x \in Int, Near(b, x)
  PROVE  Lift(b % NumMod, x % NumMod) =
           x - b + (b % NumMod) + (IF b % NumMod <= Half THEN NumMod ELSE 0)
<1> DEFINE r == b % NumMod
           d == x - b
<1>1. r \in 0..(NumMod - 1)  BY WrapsIntoNums DEF Nums
<1>2. d \in Int /\ -Half <= d /\ d < Half  BY DEF Near
<1>3. x % NumMod = (r + d) % NumMod
  <2>1. x = b + d  OBVIOUS
  <2> QED BY <1>2, <2>1, NumModIsPositive, RestOfSum, ZenonT(30)
<1> HIDE DEF r, d
<1>4. Half \in Nat \ {0}  BY HalfAssumption
<1>5. r + d \in -NumMod..(2 * NumMod - 1) /\ r + (Half - 1) \in -NumMod..(2 * NumMod - 1)
  BY <1>1, <1>2, <1>4, NumModIsPositive
<1>6. x % NumMod = IF r + d < 0 THEN r + d + NumMod
                   ELSE IF r + d >= NumMod THEN r + d - NumMod ELSE r + d
  <2> DEFINE e == r + d
  <2>1. x % NumMod = e % NumMod /\ e \in -NumMod..(2 * NumMod - 1)  BY <1>3, <1>5
  <2> HIDE DEF e
  <2>2. x % NumMod = IF e < 0 THEN e + NumMod ELSE IF e >= NumMod THEN e - NumMod ELSE e
    BY <2>1, WrapsOnce
  <2> QED BY <1>1, <1>2, <2>2, NumModIsPositive DEF e
<1>7. CirclePoint(r) = IF r + (Half - 1) >= NumMod THEN r + (Half - 1) - NumMod
                       ELSE r + (Half - 1)
  <2> DEFINE e == r + (Half - 1)
  <2>1. CirclePoint(r) = e % NumMod  BY DEF CirclePoint, Plus
  <2>2. ~(e < 0) /\ e \in -NumMod..(2 * NumMod - 1)
    BY <1>1, <1>4, <1>5, NumModIsPositive
  <2> HIDE DEF e
  <2>3. e % NumMod = IF e >= NumMod THEN e - NumMod ELSE e  BY <2>2, WrapsOnce
  <2> QED BY <1>1, <1>4, <2>1, <2>3, NumModIsPositive DEF e
<1>8. Lift(r, x % NumMod) = d + r + (IF r <= Half THEN NumMod ELSE 0)
  BY <1>1, <1>2, <1>4, <1>6, <1>7, NumModIsPositive DEF Lift
<1> QED BY <1>8 DEF r, d

\* ump_cmp_in_sndbase and ump_cmp_in_rcvbase return the distance of two positions,
\* wherever the numbers wrap, as long as both are within half the space of the base.
THEOREM CompareIsDistance ==
  ASSUME NEW b \in Int, NEW x \in Int, NEW y \in Int, Near(b, x), Near(b, y)
  PROVE  Cmp(b % NumMod, x % NumMod, y % NumMod) = x - y
<1> DEFINE c == (b % NumMod) + (IF b % NumMod <= Half THEN NumMod ELSE 0)
<1>1. c \in Int  BY WrapsIntoNums, NumModIsPositive DEF Nums
<1>2. /\ Lift(b % NumMod, x % NumMod) = x - b + c
      /\ Lift(b % NumMod, y % NumMod) = y - b + c
  <2>1. b % NumMod \in Int  BY WrapsIntoNums, NumModIsPositive DEF Nums
  <2> QED BY <2>1, LiftIsDistance, NumModIsPositive
<1> HIDE DEF c
<1> QED BY <1>1, <1>2 DEF Cmp

\* Every number is carried by a position near the base.
LEMMA NumbersAreNear ==
  ASSUME NEW b \in Int, NEW z \in Nums
  PROVE  \E x \in Int : Near(b, x) /\ z = x % NumMod
<1> DEFINE r == b % NumMod
           d == IF z - r < -Half THEN z - r + NumMod
                ELSE IF z - r >= Half THEN z - r - NumMod ELSE z - r
<1>1. r \in 0..(NumMod - 1) /\ z \in 0..(NumMod - 1)  BY WrapsIntoNums DEF Nums
<1>3. d \in Int /\ -Half <= d /\ d < Half
  <2> HIDE DEF r
  <2> QED BY <1>1, NumModIsPositive, HalfAssumption
<1>4. r + d \in {z, z + NumMod, z - NumMod}
  <2> HIDE DEF r
  <2> QED BY <1>1, NumModIsPositive
<1> HIDE DEF d
<1>5. (b + d) % NumMod = (r + d) % NumMod  BY <1>3, NumModIsPositive, RestOfSum DEF r
<1> DEFINE e == r + d
<1>6. e \in {z, z + NumMod, z - NumMod} /\ e \in -NumMod..(2 * NumMod - 1)
  BY <1>1, <1>4, NumModIsPositive
<1> HIDE DEF e
<1>7. e % NumMod = z  BY <1>1, <1>6, WrapsOnce, NumModIsPositive
<1>8. b + d \in Int /\ Near(b, b + d)  BY <1>3, HalfAssumption DEF Near
<1> QED BY <1>5, <1>7, <1>8 DEF e

-----------------------------------------------------------------------------
(* Numbers and positions *)

LEMMA Bounds ==
  /\ Half \in Nat \ {0} /\ NumMod = Half + Half
  /\ MaxMessage \in Nat /\ MaxWindow \in Nat /\ MaxMessage + MaxWindow < Half
  /\ Nums = 0..(NumMod - 1) /\ Nums \subseteq Nat
BY HalfAssumption, NumModIsPositive, MessageAssumption DEF Nums

LEMMA NumIsNumber ==
  ASSUME iss \in Nums, NEW n \in Int PROVE Num(n) \in Nums
<1>1. iss + n \in Int  BY Bounds
<1> QED BY <1>1, WrapsIntoNums DEF Num

LEMMA PlusMovesOn ==
  ASSUME iss \in Nums, NEW n \in Int, NEW k \in Int
  PROVE  Plus(Num(n), k) = Num(n + k)
<1>1. iss + n \in Int /\ (iss + n) + k = iss + (n + k)  BY Bounds
<1> QED BY <1>1, PlusWraps DEF Num

LEMMA CmpMeasures ==
  ASSUME iss \in Nums, NEW b \in Int, NEW x \in Int, NEW y \in Int, Near(b, x), Near(b, y)
  PROVE  Cmp(Num(b), Num(x), Num(y)) = x - y
<1>1. iss + b \in Int /\ iss + x \in Int /\ iss + y \in Int  BY Bounds
<1>2. Near(iss + b, iss + x) /\ Near(iss + b, iss + y)  BY Bounds DEF Near
<1>3. Cmp(Num(b), Num(x), Num(y)) = (iss + x) - (iss + y)
  BY <1>1, <1>2, CompareIsDistance DEF Num
<1> QED BY <1>3, Bounds

LEMMA NumTellsApart ==
  ASSUME iss \in Nums, NEW x \in Int, NEW y \in Int, x - y < NumMod, y - x < NumMod,
         Num(x) = Num(y)
  PROVE  x = y
<1>1. iss + x \in Int /\ iss + y \in Int /\ (iss + x) - (iss + y) < NumMod
      /\ (iss + y) - (iss + x) < NumMod
  BY Bounds
<1>2. iss + x = iss + y  BY <1>1, WrapIsInjective DEF Num
<1> QED BY <1>2, Bounds

LEMMA SomePosition ==
  ASSUME iss \in Nums, NEW b \in Int, NEW z \in Nums
  PROVE  \E x \in Int : Near(b, x) /\ z = Num(x)
<1>0. iss + b \in Int  BY Bounds
<1>1. PICK x \in Int : Near(iss + b, x) /\ z = x % NumMod
  BY <1>0, NumbersAreNear
<1>2. x - iss \in Int /\ Near(b, x - iss) /\ z = Num(x - iss)
  <2>1. x - iss \in Int /\ iss + (x - iss) = x /\ (x - iss) - b = x - (iss + b)
    BY Bounds
  <2> QED BY <1>1, <2>1 DEF Near, Num
<1> QED BY <1>2

\* ump_seq_to_relative_via_sndstartseq and ump_relative_to_seq_via_sndstartseq, around
\* the first packet of the call
LEMMA RelativeMeasures ==
  ASSUME iss \in Nums, NEW f \in Int, NEW x \in Int, Near(f, x)
  PROVE  Relative(Num(f), Num(x)) = x - f
<1>1. Near(f, f)  BY Bounds DEF Near
<1> QED BY <1>1, CmpMeasures DEF Relative

-----------------------------------------------------------------------------
(* A sender whose call begins at position f, where a is the first position   *)
(* not acknowledged and e is behind the last one sent                        *)

\* our_data_sent may start ahead of everything that was sent, and is caught up with.
SentIsAhead(t, a, e) ==
  \E d \in Int : t.dataSent = Num(d) /\ Near(a, d) /\ (e > 0 => e <= d + 1)

Sound(t, f, a, e) ==
  /\ t \in Numbers
  /\ t.start = Num(f) /\ t.base = Num(a)
  /\ f <= a /\ a <= e /\ e <= f + t.count
  /\ 0 <= t.pos /\ t.pos <= MaxMessage
  /\ t.count > 0 => /\ a <= f + t.pos /\ f + t.pos <= e
                    /\ t.pos <= t.count
                    /\ t.last = Num(f + t.count - 1)
  /\ SentIsAhead(t, a, e)

Inside(t) == t.count > 0 => t.wndPos <= t.count

\* Timers of the packets from position q - Len(list) up to q, none before position a
Timed(list, q, a) ==
  /\ list \in Seq(Nums)
  /\ Len(list) <= q - a
  /\ \A i \in 1..Len(list) : list[i] = Num(q - Len(list) + i - 1)

TimersOf(list, t, f, a) ==
  /\ t.count = 0 => list = <<>>
  /\ Timed(list, f + t.pos, a)

NumbersInv ==
  /\ TypeOK
  /\ Sound(s, first, Acked, top)
  /\ Inside(s)
  /\ TimersOf(tm, s, first, Acked)

LEMMA AppendTimer ==
  ASSUME iss \in Nums, NEW list, NEW p \in Int, NEW a \in Int, Timed(list, p, a)
  PROVE  Timed(Append(list, Num(p)), p + 1, a)
<1> DEFINE k == Num(p)
           new == Append(list, k)
           lo == p - Len(list)
<1>1. list \in Seq(Nums) /\ k \in Nums /\ Len(list) \in Nat
  BY NumIsNumber, LenProperties DEF Timed
<1>2. Len(list) <= p - a /\ \A i \in 1..Len(list) : list[i] = Num(lo + i - 1)
  BY DEF Timed
<1> HIDE DEF k
<1>3. /\ new \in Seq(Nums) /\ Len(new) = Len(list) + 1 /\ new[Len(list) + 1] = k
      /\ \A i \in 1..Len(list) : new[i] = list[i]
  BY <1>1, AppendProperties
<1> HIDE DEF new
<1>4. lo = (p + 1) - Len(new) /\ Len(new) <= (p + 1) - a /\ lo + (Len(list) + 1) - 1 = p
  BY <1>1, <1>2, <1>3
<1>5. ASSUME NEW i \in 1..Len(new) PROVE new[i] = Num((p + 1) - Len(new) + i - 1)
  <2>1. CASE i = Len(list) + 1
    <3>1. (p + 1) - Len(new) + i - 1 = p  BY <1>1, <1>3, <2>1
    <3> QED BY <1>3, <2>1, <3>1 DEF k
  <2>2. CASE i # Len(list) + 1
    <3>1. i \in 1..Len(list)  BY <1>1, <1>3, <2>2
    <3> QED BY <1>2, <1>3, <1>4, <3>1
  <2> QED BY <2>1, <2>2
<1>6. Timed(new, p + 1, a)  BY <1>3, <1>4, <1>5 DEF Timed
<1> QED BY <1>6 DEF new, k

LEMMA AckedIs ==
  ASSUME iss \in Nums, NEW t, NEW f \in Int, NEW a \in Int, NEW e \in Int, Sound(t, f, a, e)
  PROVE  f + Relative(t.start, t.base) = a
<1>1. Near(f, a)  BY Bounds DEF Sound, Near, Numbers
<1>2. Relative(t.start, t.base) = a - f  BY <1>1, RelativeMeasures DEF Sound
<1> QED BY <1>2

LEMMA RefreshWndOf ==
  ASSUME iss \in Nums, NEW t \in Numbers, NEW f \in Int, NEW a \in Int,
         NEW wnd \in 0..MaxWindow,
         t.start = Num(f), t.base = Num(a), f <= a, a <= f + MaxMessage
  PROVE  \E w \in Int : w <= t.count /\ RefreshWnd(t, wnd) = [t EXCEPT !.wndPos = w]
<1> DEFINE edge == Relative(t.start, Plus(t.base, wnd))
<1>1. Near(f, a + wnd) /\ a + wnd \in Int  BY Bounds DEF Near
<1>2. edge = a + wnd - f  BY <1>1, PlusMovesOn, RelativeMeasures
<1> DEFINE w == IF t.count < edge THEN t.count ELSE edge
<1>3. w \in Int /\ w <= t.count  BY <1>1, <1>2, Bounds DEF Numbers
<1>4. RefreshWnd(t, wnd) = [t EXCEPT !.wndPos = w]  BY DEF RefreshWnd
<1> QED BY <1>3, <1>4

\* ump_refresh_snd_wnd_pos leaves everything else alone.
LEMMA RefreshWndKeeps ==
  ASSUME iss \in Nums, NEW t, NEW f \in Int, NEW a \in Int, NEW e \in Int,
         Sound(t, f, a, e), NEW wnd \in 0..MaxWindow
  PROVE  /\ Sound(RefreshWnd(t, wnd), f, a, e)
         /\ Inside(RefreshWnd(t, wnd))
         /\ RefreshWnd(t, wnd).pos = t.pos
         /\ RefreshWnd(t, wnd).count = t.count
         /\ RefreshWnd(t, wnd).backPoint = t.backPoint
<1>1. t \in Numbers /\ a <= f + MaxMessage  BY Bounds DEF Sound, Numbers
<1>2. PICK w \in Int : w <= t.count /\ RefreshWnd(t, wnd) = [t EXCEPT !.wndPos = w]
  BY <1>1, RefreshWndOf DEF Sound
<1> DEFINE u == [t EXCEPT !.wndPos = w]
<1>3. /\ u \in Numbers /\ u.start = t.start /\ u.base = t.base /\ u.last = t.last
      /\ u.dataSent = t.dataSent /\ u.pos = t.pos /\ u.count = t.count
      /\ u.backPoint = t.backPoint /\ u.wndPos = w
  BY <1>1, <1>2 DEF Numbers
<1> HIDE DEF u
<1>4. Sound(u, f, a, e)  BY <1>3 DEF Sound, SentIsAhead
<1>5. Inside(u)  BY <1>2, <1>3 DEF Inside
<1> QED BY <1>2, <1>3, <1>4, <1>5 DEF u

\* The back point that ump_refresh_back_point leaves
BackOf(base, x, n) == IF Cmp(base, x, n) < 0 THEN n ELSE x

LEMMA RefreshBackOf ==
  ASSUME NEW t \in Numbers, NEW n \in Nums
  PROVE  /\ BackOf(t.base, t.backPoint, n) \in Nums
         /\ RefreshBack(t, n) = [t EXCEPT !.backPoint = BackOf(t.base, t.backPoint, n)]
<1>1. t.backPoint \in Nums  BY DEF Numbers
<1>2. CASE Cmp(t.base, t.backPoint, n) < 0
  BY <1>1, <1>2 DEF RefreshBack, BackOf
<1>3. CASE ~(Cmp(t.base, t.backPoint, n) < 0)
  <2>1. RefreshBack(t, n) = t /\ BackOf(t.base, t.backPoint, n) = t.backPoint
    BY <1>3 DEF RefreshBack, BackOf
  <2>2. t = [t EXCEPT !.backPoint = t.backPoint]  BY DEF Numbers
  <2> QED BY <1>1, <2>1, <2>2
<1> QED BY <1>2, <1>3

\* Timeout and fast retransmission go back to the first packet not acknowledged.
LEMMA GoBackKeeps ==
  ASSUME iss \in Nums, NEW t, NEW f \in Int, NEW a \in Int, NEW e \in Int, Sound(t, f, a, e)
  PROVE  /\ Sound(GoBack(t), f, a, e)
         /\ GoBack(t).pos = a - f
         /\ GoBack(t).count = t.count
         /\ GoBack(t).wndPos = t.wndPos
         /\ GoBack(t).backPoint = BackOf(t.base, t.backPoint, Num(f + t.pos))
<1>1. t \in Numbers /\ t.pos \in Int /\ t.count \in Int  BY Bounds DEF Sound, Numbers
<1>2. Plus(t.start, t.pos) = Num(f + t.pos) /\ Num(f + t.pos) \in Nums
  <2>1. f + t.pos \in Int  BY <1>1
  <2> QED BY <1>1, <2>1, PlusMovesOn, NumIsNumber DEF Sound
<1>3. Near(f, a)  BY <1>1, Bounds DEF Sound, Near, Numbers
<1>4. Relative(t.start, t.base) = a - f  BY <1>3, RelativeMeasures DEF Sound
<1> DEFINE b == BackOf(t.base, t.backPoint, Num(f + t.pos))
<1>5. RefreshBack(t, Num(f + t.pos)) = [t EXCEPT !.backPoint = b] /\ b \in Nums
  <2> DEFINE n == Num(f + t.pos)
  <2>1. n \in Nums  BY <1>2
  <2> HIDE DEF n
  <2>2. RefreshBack(t, n) = [t EXCEPT !.backPoint = BackOf(t.base, t.backPoint, n)]
        /\ BackOf(t.base, t.backPoint, n) \in Nums
    BY <1>1, <2>1, RefreshBackOf
  <2> QED BY <2>2 DEF n
<1> HIDE DEF b
<1> DEFINE u == [t EXCEPT !.backPoint = b, !.pos = a - f, !.rep = 0]
<1>6. GoBack(t) = u
  BY <1>1, <1>2, <1>4, <1>5 DEF GoBack, Numbers
<1>7. /\ u \in Numbers /\ u.start = t.start /\ u.base = t.base /\ u.last = t.last
      /\ u.dataSent = t.dataSent /\ u.pos = a - f /\ u.count = t.count
      /\ u.backPoint = b /\ u.wndPos = t.wndPos
  <2>1. a - f \in Int /\ 0 \in 0..1  OBVIOUS
  <2> DEFINE p == a - f
  <2> HIDE DEF p
  <2>2. [t EXCEPT !.backPoint = b, !.pos = p, !.rep = 0] \in Numbers
    BY <1>1, <1>5, <2>1 DEF Numbers, p
  <2>3. u \in Numbers  BY <2>2 DEF p
  <2> QED BY <1>1, <2>3 DEF Numbers
<1> HIDE DEF u
<1>8. Sound(u, f, a, e)
  <2>1. 0 <= a - f /\ a - f <= MaxMessage /\ a - f <= t.count
    BY <1>1, Bounds DEF Sound, Numbers
  <2> QED BY <1>1, <1>7, <2>1 DEF Sound, SentIsAhead
<1> QED BY <1>6, <1>7, <1>8 DEF b

-----------------------------------------------------------------------------
(* The steps of the sender *)

\* What the invariant says of the step's end, when iss does not change
LEMMA NumbersInvForm ==
  ASSUME iss \in Nums, iss' = iss, NEW f \in Nat, NEW a \in Int, NEW e \in Nat,
         iss \in Iss, first' = f, top' = e,
         Sound(s', f, a, e), Inside(s'), TimersOf(tm', s', f, a),
         again' \subseteq Nat, sample' \in Nat \union {NoSample}
  PROVE  NumbersInv' /\ Acked' = a
<1>1. f + Relative(s'.start, s'.base) = a  BY AckedIs
<1>2. Acked' = a  BY <1>1 DEF Acked
<1>3. Sound(s, first, Acked, top)'  BY <1>2 DEF Sound, SentIsAhead, Num
<1>4. TimersOf(tm, s, first, Acked)'  BY <1>2 DEF TimersOf, Timed, Num
<1>5. TypeOK'  BY DEF TypeOK, Sound, TimersOf, Timed
<1> QED BY <1>2, <1>3, <1>4, <1>5 DEF NumbersInv, Inside

LEMMA InvFacts ==
  ASSUME NumbersInv
  PROVE  /\ iss \in Nums /\ iss \in Iss /\ first \in Nat /\ top \in Nat /\ Acked \in Nat
         /\ again \subseteq Nat /\ sample \in Nat \union {NoSample}
         /\ s \in Numbers /\ s.pos \in Nat /\ s.count \in 0..MaxMessage /\ s.wndPos \in Int
         /\ s.rep \in 0..1
         /\ s.start = Num(first) /\ s.base = Num(Acked)
         /\ first <= Acked /\ Acked <= top /\ top <= first + s.count
<1>1. iss \in Nums /\ s \in Numbers  BY IssAssumption DEF NumbersInv, TypeOK
<1>2. Relative(s.start, s.base) \in Int
  <2>1. s.start \in Nums /\ s.base \in Nums  BY <1>1 DEF Numbers
  <2>2. Lift(s.start, s.base) \in Int /\ Lift(s.start, s.start) \in Int
    BY <2>1, Bounds DEF Lift
  <2> QED BY <2>2 DEF Relative, Cmp
<1>3. Acked \in Int  BY <1>2 DEF NumbersInv, TypeOK, Acked
<1> QED BY <1>1, <1>3 DEF NumbersInv, TypeOK, Sound, Numbers

LEMMA InitInv == Init => NumbersInv
<1> SUFFICES ASSUME Init PROVE NumbersInv  OBVIOUS
<1>1. iss \in Nums /\ Num(0) = iss /\ 0 \in Nums
  BY IssAssumption, SmallIsItself, Bounds DEF Init, Num
<1>2. s \in Numbers  BY <1>1, Bounds DEF Init, Numbers
<1>3. PICK d \in Int : Near(0, d) /\ 0 = Num(d)  BY <1>1, SomePosition
<1>4. SentIsAhead(s, 0, 0)  BY <1>3 DEF SentIsAhead, Init
<1>5. Sound(s, 0, 0, 0)  BY <1>1, <1>2, <1>4, Bounds DEF Sound, Init
<1>6. 0 + Relative(s.start, s.base) = 0  BY <1>1, <1>5, AckedIs
<1>7. Acked = 0  BY <1>6 DEF Acked, Init
<1>8. TypeOK  BY <1>2 DEF TypeOK, Init
<1>9. TimersOf(tm, s, 0, 0)  BY DEF TimersOf, Timed, Init
<1> QED BY <1>5, <1>7, <1>8, <1>9 DEF NumbersInv, Inside, Init

LEMMA HandleSendInv ==
  ASSUME NumbersInv, NEW n \in 1..MaxMessage, NEW wnd \in 0..MaxWindow, HandleSend(n, wnd)
  PROVE  /\ NumbersInv' /\ Acked' = Acked /\ s.count = 0 /\ first = Acked /\ top = Acked
         /\ s'.count = n /\ s'.pos = 0 /\ s'.backPoint = s.backPoint
<1> DEFINE l == Plus(s.start, n - 1)
           t == [s EXCEPT !.count = n, !.last = l, !.pos = 0]
<1>1. s \in Numbers /\ iss \in Nums /\ first \in Nat /\ top \in Nat /\ Acked \in Nat
  BY InvFacts
<1>2. s.count = 0 /\ s' = RefreshWnd(t, wnd)  BY DEF HandleSend
<1>3. first = Acked /\ top = Acked
  <2>1. first <= Acked /\ Acked <= top /\ top <= first + s.count  BY InvFacts
  <2> QED BY <1>1, <1>2, <2>1
<1>4. l = Num(first + n - 1) /\ l \in Nums
  <2>1. n - 1 \in Int /\ first + (n - 1) = first + n - 1 /\ first + n - 1 \in Int
    BY <1>1, Bounds
  <2>2. s.start = Num(first)  BY InvFacts
  <2>3. Plus(Num(first), n - 1) = Num(first + (n - 1))  BY <1>1, <2>1, PlusMovesOn
  <2> DEFINE p == first + n - 1
  <2>4. p \in Int /\ l = Num(p)  BY <2>1, <2>2, <2>3
  <2> HIDE DEF p, l
  <2>5. l \in Nums  BY <1>1, <2>4, NumIsNumber
  <2> QED BY <2>4, <2>5 DEF p
<1> HIDE DEF l
<1>5. /\ t \in Numbers /\ t.count = n /\ t.last = l /\ t.pos = 0 /\ t.start = s.start
      /\ t.base = s.base /\ t.dataSent = s.dataSent /\ t.backPoint = s.backPoint
  <2>1. n \in 0..MaxMessage /\ l \in Nums /\ s \in Numbers /\ 0 \in Int
    BY <1>1, <1>4, Bounds
  <2>2. t \in Numbers  BY <2>1 DEF Numbers
  <2> QED BY <2>1, <2>2 DEF Numbers
<1> HIDE DEF t
<1>6. Sound(t, first, Acked, top)
  <2>1. Sound(s, first, Acked, top)  BY DEF NumbersInv
  <2>2. SentIsAhead(t, Acked, top)  BY <1>5, <2>1 DEF Sound, SentIsAhead
  <2>3. t.last = Num(first + t.count - 1)  BY <1>4, <1>5
  <2> QED BY <1>1, <1>3, <1>5, <2>1, <2>2, <2>3, Bounds DEF Sound
<1>7. Sound(s', first, Acked, top) /\ Inside(s') /\ s'.count = n /\ s'.pos = 0
      /\ s'.backPoint = s.backPoint
  BY <1>1, <1>2, <1>5, <1>6, RefreshWndKeeps
<1>8. TimersOf(tm', s', first, Acked)
  <2>1. tm = <<>> /\ tm' = tm  BY <1>2 DEF HandleSend, NumbersInv, TimersOf, Timed
  <2> QED BY <1>1, <1>3, <1>7, <2>1 DEF TimersOf, Timed
<1>9. /\ iss' = iss /\ first' = first /\ top' = top /\ again' \subseteq Nat
      /\ sample' \in Nat \union {NoSample} /\ iss \in Iss
  BY InvFacts DEF HandleSend
<1>10. NumbersInv' /\ Acked' = Acked
  BY <1>1, <1>7, <1>8, <1>9, NumbersInvForm
<1> QED BY <1>2, <1>3, <1>7, <1>10

LEMMA DataTimeoutInv ==
  ASSUME NumbersInv, NEW wnd \in 0..MaxWindow, DataTimeout(wnd)
  PROVE  /\ NumbersInv' /\ Acked' = Acked /\ s.count > 0
         /\ s'.count = s.count /\ first + s'.pos = Acked
         /\ s'.backPoint = BackOf(s.base, s.backPoint, Num(first + s.pos))
<1>0. s \in Numbers /\ iss \in Nums  BY InvFacts
<1>1. s.count > 0  BY InvFacts DEF DataTimeout, NumbersInv, TimersOf, Timed
<1> DEFINE t == GoBack(s)
<1>2. Sound(t, first, Acked, top) /\ t.pos = Acked - first /\ t.count = s.count
      /\ t.backPoint = BackOf(s.base, s.backPoint, Num(first + s.pos))
  BY InvFacts, GoBackKeeps DEF NumbersInv
<1>3. s' = RefreshWnd(t, wnd)  BY DEF DataTimeout
<1> HIDE DEF t
<1>4. /\ Sound(s', first, Acked, top) /\ Inside(s')
      /\ s'.count = s.count /\ s'.pos = Acked - first
      /\ s'.backPoint = BackOf(s.base, s.backPoint, Num(first + s.pos))
  BY <1>2, <1>3, InvFacts, RefreshWndKeeps
<1>5. TimersOf(tm', s', first, Acked)  BY <1>1, <1>4, InvFacts DEF DataTimeout, TimersOf, Timed
<1>6. /\ iss' = iss /\ first' = first /\ top' = top /\ again' \subseteq Nat
      /\ sample' \in Nat \union {NoSample}
  BY InvFacts DEF DataTimeout
<1>7. NumbersInv' /\ Acked' = Acked
  <2>1. iss \in Nums /\ iss \in Iss /\ first \in Nat /\ top \in Nat /\ Acked \in Int
    BY InvFacts
  <2> QED BY <1>4, <1>5, <1>6, <2>1, NumbersInvForm
<1> QED BY <1>1, <1>4, <1>7, InvFacts

LEMMA SendDataInv ==
  ASSUME NumbersInv, SendData
  PROVE  /\ NumbersInv' /\ Acked' = Acked /\ s.count > 0
         /\ s'.count = s.count /\ s'.pos = s.pos + 1 /\ s.pos < s.count
         /\ s'.backPoint = s.backPoint
<1> DEFINE p == first + s.pos
           n == Plus(s.start, s.pos)
           e == IF p < top THEN top ELSE p + 1
           t == RefreshSent(s, n)
<1>0. /\ s \in Numbers /\ iss \in Nums /\ first \in Nat /\ top \in Nat /\ Acked \in Nat
      /\ s.pos \in Nat /\ s.count \in 0..MaxMessage /\ s.wndPos \in Int
  BY InvFacts
<1>a. Sound(s, first, Acked, top) /\ Inside(s) /\ TimersOf(tm, s, first, Acked)
  BY DEF NumbersInv
<1>h. s.count > 0 /\ s.pos < s.wndPos  BY DEF SendData
<1>b. /\ s' = [t EXCEPT !.pos = s.pos + 1]
      /\ tm' = Append(tm, n) /\ top' = e /\ sample' = NoSample /\ iss' = iss /\ first' = first
      /\ again' = IF p < top THEN again \union {p} ELSE again
  BY DEF SendData
<1>1. s.wndPos <= s.count /\ s.pos < s.count  BY <1>0, <1>a, <1>h DEF Inside
<1> HIDE DEF t
<1>2. /\ p \in Nat /\ Acked <= p /\ p <= top /\ p < first + s.count
      /\ p = first + s.pos /\ e \in Nat
  <2>1. Acked <= first + s.pos /\ first + s.pos <= top  BY <1>a, <1>h DEF Sound
  <2> QED BY <1>0, <1>1, <2>1
<1>3. n = Num(p) /\ n \in Nums
  <2>1. s.start = Num(first)  BY <1>a DEF Sound
  <2>2. Plus(Num(first), s.pos) = Num(first + s.pos)
    <3>1. iss \in Nums /\ first \in Int /\ s.pos \in Int  BY <1>0
    <3> HIDE DEF p, n, e
    <3> QED BY ONLY <3>1, PlusMovesOn
  <2>3. n = Num(p)  BY <2>1, <2>2
  <2> HIDE DEF p, n
  <2> QED BY <1>0, <1>2, <2>3, NumIsNumber
<1>d. p + 1 <= e /\ top <= e /\ e <= first + s.count /\ Acked <= e
  <2>1. Acked <= top /\ top <= first + s.count  BY <1>a DEF Sound
  <2>2. s.count \in Nat  BY <1>0, Bounds
  <2> HIDE DEF p
  <2> QED BY <1>0, <1>2, <2>1, <2>2
<1> HIDE DEF p, n, e
<1>4. Near(Acked, p)
  BY <1>0, <1>2, <1>a, Bounds, SMTT(30) DEF Near, Sound
<1>5. PICK d \in Int : /\ s.dataSent = Num(d) /\ Near(Acked, d)
                       /\ top > 0 => top <= d + 1
  BY <1>a DEF Sound, SentIsAhead
<1>6. Cmp(s.base, s.dataSent, n) = d - p
  <2>1. s.base = Num(Acked) /\ Acked \in Int /\ p \in Int  BY <1>0, <1>2, <1>a DEF Sound
  <2>2. Cmp(Num(Acked), Num(d), Num(p)) = d - p  BY <1>0, <1>4, <1>5, <2>1, CmpMeasures
  <2> QED BY <1>3, <1>5, <2>1, <2>2
<1> DEFINE z == IF d < p THEN p ELSE d
<1>8. z \in Int /\ Near(Acked, z) /\ e <= z + 1
  BY <1>0, <1>2, <1>4, <1>5 DEF e
<1>7. t = [s EXCEPT !.dataSent = Num(z)] 
  <2>1. CASE d < p
    <3>1. d - p < 0  BY <1>2, <2>1
    <3> QED BY <1>3, <1>6, <2>1, <3>1 DEF t, RefreshSent
  <2>2. CASE ~(d < p)
    <3>1. ~(d - p < 0) /\ z = d  BY <1>2, <2>2
    <3>2. t = s  BY <1>6, <3>1 DEF t, RefreshSent
    <3> QED BY <1>0, <1>5, <3>1, <3>2 DEF Numbers
  <2> QED BY <2>1, <2>2
<1> HIDE DEF z
<1> DEFINE v == Num(z)
<1>9. v \in Nums  BY <1>0, <1>8, NumIsNumber
<1>10. s' = [s EXCEPT !.dataSent = v, !.pos = s.pos + 1]
  BY <1>0, <1>b, <1>7 DEF Numbers
<1>11. v = Num(z)  OBVIOUS
<1> HIDE DEF v
<1>12. /\ s' \in Numbers /\ s'.pos = s.pos + 1 /\ s'.count = s.count /\ s'.start = s.start
       /\ s'.base = s.base /\ s'.last = s.last /\ s'.dataSent = v
       /\ s'.wndPos = s.wndPos /\ s'.backPoint = s.backPoint
  <2>1. s.pos + 1 \in Int  BY <1>0
  <2> QED BY <1>0, <1>9, <1>10, <2>1 DEF Numbers
<1>13. Sound(s', first, Acked, e)
  <2>1. SentIsAhead(s', Acked, e)  BY <1>8, <1>11, <1>12 DEF SentIsAhead
  <2>2. /\ first <= Acked /\ Acked <= e /\ e <= first + s'.count /\ 0 <= s'.pos
        /\ s'.pos <= MaxMessage /\ Acked <= first + s'.pos /\ first + s'.pos <= e
        /\ s'.pos <= s'.count
    <3>1. first <= Acked /\ first + s'.pos = p + 1  BY <1>0, <1>2, <1>12, <1>a DEF Sound
    <3>2. s'.pos \in Nat /\ s'.pos <= s'.count /\ s'.count \in 0..MaxMessage /\ MaxMessage \in Nat
      BY <1>0, <1>1, <1>12, Bounds
    <3>3. s'.count = s.count  BY <1>12
    <3> QED BY <1>0, <1>2, <1>d, <3>1, <3>2, <3>3
  <2>3. s'.last = Num(first + s'.count - 1) /\ s'.start = Num(first) /\ s'.base = Num(Acked)
    BY <1>12, <1>h, <1>a DEF Sound
  <2> QED BY <1>12, <2>1, <2>2, <2>3 DEF Sound
<1>14. Inside(s')  BY <1>12, <1>a DEF Inside
<1>15. TimersOf(tm', s', first, Acked)
  <2>1. Timed(tm, p, Acked)  BY <1>a DEF TimersOf, p
  <2>2. Timed(tm', p + 1, Acked)  BY <1>0, <1>2, <1>3, <1>b, <2>1, AppendTimer
  <2>3. p + 1 = first + s'.pos  BY <1>0, <1>2, <1>12
  <2>4. s'.count # 0  BY <1>0, <1>h, <1>12
  <2> QED BY <2>2, <2>3, <2>4 DEF TimersOf
<1>16. again' \subseteq Nat /\ sample' \in Nat \union {NoSample} /\ iss \in Iss
  BY <1>b, <1>2, InvFacts
<1>17. NumbersInv' /\ Acked' = Acked
  <2>1. iss' = iss /\ first' = first /\ top' = e /\ e \in Nat /\ Acked \in Int
    BY <1>0, <1>2, <1>b
  <2> QED BY <1>0, <1>13, <1>14, <1>15, <1>16, <2>1, NumbersInvForm
<1> QED BY <1>h, <1>1, <1>12, <1>17

-----------------------------------------------------------------------------
(* The timers that an acknowledgement finds *)

\* The number j packets before another
LEMMA StepBack ==
  ASSUME iss \in Nums, NEW y \in Int, NEW j \in Int, 0 <= j, j < NumMod
  PROVE  Num(y - j) = IF j <= Num(y) THEN Num(y) - j ELSE Num(y) - j + NumMod
<1> DEFINE r == Num(y)
<1>1. r \in Nums /\ r \in 0..(NumMod - 1)  BY NumIsNumber DEF Nums
<1>2. Plus(r, -j) = Num(y + (-j)) /\ y + (-j) = y - j
  <2>1. -j \in Int  OBVIOUS
  <2> QED BY <2>1, PlusMovesOn
<1>3. Plus(r, -j) = (r + (-j)) % NumMod  BY DEF Plus
<1> HIDE DEF r
<1> DEFINE x == r + (-j)
<1>4. x \in -NumMod..(2 * NumMod - 1) /\ x < NumMod /\ (x < 0 <=> ~(j <= r))
  BY <1>1, NumModIsPositive
<1>5. x % NumMod = IF x < 0 THEN x + NumMod
                   ELSE IF x >= NumMod THEN x - NumMod ELSE x
  <2> HIDE DEF x
  <2> QED BY <1>4, WrapsOnce
<1>6. x % NumMod = IF j <= r THEN r - j ELSE r - j + NumMod
  <2> DEFINE w == x % NumMod
  <2>1. w = IF x < 0 THEN x + NumMod ELSE x
    <3> HIDE DEF w, x
    <3>1. ~(x >= NumMod) /\ w = x % NumMod  BY <1>4, NumModIsPositive DEF w
    <3> QED BY <1>5, <3>1
  <2> HIDE DEF w
  <2>2. w = IF j <= r THEN r - j ELSE r - j + NumMod
    BY <1>1, <1>4, <2>1, NumModIsPositive
  <2> QED BY <2>2 DEF w
<1> QED BY <1>2, <1>3, <1>6 DEF r

\* The two forms of the range test of tm_ack_packet, one for a range that wraps
LEMMA RangeOnCircle ==
  ASSUME iss \in Nums, NEW x \in Int, NEW y \in Int, NEW b \in Int,
         x <= y, y - x < NumMod, b <= y, y - b < NumMod
  PROVE  (IF Num(x) > Num(y) THEN Num(b) >= Num(x) \/ Num(b) <= Num(y)
                             ELSE Num(b) >= Num(x) /\ Num(b) <= Num(y)) <=> x <= b
<1> DEFINE r == Num(y)
           j == y - x
           k == y - b
<1>1. r \in 0..(NumMod - 1)  BY NumIsNumber DEF Nums
<1>2. j \in Int /\ 0 <= j /\ j < NumMod /\ k \in Int /\ 0 <= k /\ k < NumMod
      /\ (x <= b <=> k <= j) /\ x = y - j /\ b = y - k
  BY NumModIsPositive
<1> HIDE DEF j, k
<1>3. /\ Num(y - j) = IF j <= r THEN r - j ELSE r - j + NumMod
      /\ Num(y - k) = IF k <= r THEN r - k ELSE r - k + NumMod
  BY <1>2, StepBack
<1> HIDE DEF r
<1> DEFINE nx == Num(x)
           nb == Num(b)
<1>4. /\ nx = IF j <= r THEN r - j ELSE r - j + NumMod
      /\ nb = IF k <= r THEN r - k ELSE r - k + NumMod
  BY <1>2, <1>3
<1> HIDE DEF nx, nb
<1>5. (IF nx > r THEN nb >= nx \/ nb <= r ELSE nb >= nx /\ nb <= r) <=> k <= j
  BY <1>1, <1>2, <1>4, NumModIsPositive
<1> QED BY <1>2, <1>5 DEF nx, nb, r

\* tm_ack_packet for position b, when our_data_sent is number d
LEMMA AckTimersOf ==
  ASSUME iss \in Nums, NEW list, NEW q \in Int, NEW a \in Int, NEW b \in Int, NEW d \in Int,
         Timed(list, q, a), a < b, q <= d + 1, b <= d + 1, d - a < Half
  PROVE  /\ Timed(AckTimers(list, Num(b), Num(d)), IF q < b THEN b ELSE q, b)
         /\ list # <<>> /\ InTimers(list, Num(b), Num(d)) /\ Matches(list, Num(b)) # {}
              => b <= q
<1> DEFINE len == Len(list)
           lo == q - len
           n == Num(b)
           res == AckTimers(list, n, Num(d))
           q1 == IF q < b THEN b ELSE q
<1>0. len \in Nat /\ DOMAIN list = 1..len /\ list \in Seq(Nums)  BY LenProperties DEF Timed
<1>1. lo \in Int /\ a <= lo /\ lo <= q /\ q = lo + len  BY <1>0 DEF Timed
<1>2. \A i \in 1..len : list[i] = Num(lo + i - 1)
  BY DEF Timed
<1>3. q1 \in Int /\ b <= q1 /\ q <= q1 /\ n \in Nums  BY NumIsNumber
<1> HIDE DEF len, lo, q1
<1>4. \A i \in 1..len : Plus(list[i], 1) = Num(lo + i)
  <2> TAKE i \in 1..len
  <2>1. lo + i - 1 \in Int /\ (lo + i - 1) + 1 = lo + i  BY <1>0, <1>1
  <2>2. list[i] = Num(lo + i - 1)  BY <1>2
  <2> DEFINE p == lo + i - 1
  <2>3. p \in Int /\ p + 1 = lo + i /\ list[i] = Num(p)  BY <2>1, <2>2
  <2> HIDE DEF p
  <2>4. Plus(Num(p), 1) = Num(p + 1)  BY PlusMovesOn, <2>3
  <2> QED BY <2>3, <2>4
<1>5. CASE list = <<>>
  <2>1. res = <<>>  BY <1>5 DEF AckTimers
  <2>2. Timed(res, q1, b)  BY <1>3, <2>1 DEF Timed
  <2> QED BY <1>5, <2>2 DEF q1
<1>6. CASE list # <<>>
  <2>1. len >= 1 /\ 1 \in 1..len  BY <1>0, <1>6 DEF len
  <2>2. InTimers(list, n, Num(d)) <=> lo + 1 <= b
    <3> DEFINE x == lo + 1
               y == d + 1
    <3>1. Plus(list[1], 1) = Num(x)  BY <1>4, <2>1
    <3>2. Plus(Num(d), 1) = Num(y)  BY PlusMovesOn
    <3>3. /\ x \in Int /\ y \in Int /\ x <= y /\ y - x < NumMod /\ b <= y /\ y - b < NumMod
      BY <1>0, <1>1, <2>1, Bounds
    <3> HIDE DEF x, y
    <3>4. (IF Num(x) > Num(y) THEN n >= Num(x) \/ n <= Num(y)
                              ELSE n >= Num(x) /\ n <= Num(y)) <=> x <= b
      BY <3>3, RangeOnCircle
    <3> QED BY <3>1, <3>2, <3>4 DEF InTimers, x
  <2>3. ASSUME lo + 1 <= b
        PROVE  Matches(list, n) = {i \in 1..len : i = b - lo}
    <3>1. ASSUME NEW i \in 1..len PROVE Plus(list[i], 1) = n <=> i = b - lo
      <4>1. Plus(list[i], 1) = Num(lo + i)  BY <1>4
      <4>2. lo + i \in Int /\ lo + i - b < NumMod /\ b - (lo + i) < NumMod
        BY <1>0, <1>1, <2>3, Bounds
      <4> DEFINE p == lo + i
      <4>3. p = b <=> i = b - lo  BY <1>1
      <4>4. p \in Int /\ p - b < NumMod /\ b - p < NumMod  BY <4>2, <1>0, <1>1, Bounds
      <4> HIDE DEF p
      <4>5. Num(p) = Num(b) <=> p = b  BY <4>4, NumTellsApart
      <4> QED BY <4>1, <4>3, <4>5 DEF p
    <3> QED BY <1>0, <3>1 DEF Matches
  <2>4. CASE b <= lo
    <3>1. ~(lo + 1 <= b)  BY <1>1, <2>4
    <3>2. res = list  BY <2>2, <3>1, <1>6 DEF AckTimers
    <3>3. q1 = q /\ len <= q - b  BY <1>0, <1>1, <2>4 DEF q1
    <3>4. Timed(res, q1, b)  BY <3>2, <3>3 DEF Timed, len
    <3> QED BY <2>2, <3>1, <3>4 DEF q1
  <2>5. CASE lo < b /\ b <= q
    <3> DEFINE i == b - lo
               m == i + 1
    <3>1. i \in 1..len /\ lo + 1 <= b /\ m \in Int /\ q1 = q /\ i \in Int
      BY <1>0, <1>1, <2>5 DEF q1
    <3>2. Matches(list, n) = {i}  BY <2>3, <3>1
    <3>3. i = CHOOSE k \in Matches(list, n) : \A j \in Matches(list, n) : k <= j
      <4> HIDE DEF i
      <4>1. \A k : k \in Matches(list, n) /\ (\A j \in Matches(list, n) : k <= j) <=> k = i
        BY <3>1, <3>2
      <4> QED BY <4>1
    <3>4. res = SubSeq(list, m, len)
      BY <1>6, <2>2, <3>1, <3>2, <3>3 DEF AckTimers, len
    <3> DEFINE r == SubSeq(list, m, len)
    <3>5. \A j \in m..len : list[j] \in Nums
      <4> HIDE DEF m
      <4>1. \A j \in m..len : j \in 1..len  BY <1>0, <3>1 DEF m
      <4> QED BY <1>0, <4>1, ElementOfSeq DEF len
    <3> HIDE DEF m
    <3>6. /\ r \in Seq(Nums) /\ Len(r) = IF m <= len THEN len - m + 1 ELSE 0
          /\ \A j \in 1..(len - m + 1) : r[j] = list[m + j - 1]
      BY <1>0, <3>1, <3>5, SubSeqProperties
    <3>7. Len(r) = q - b /\ len - m + 1 = q - b
      BY <1>0, <1>1, <2>5, <3>1, <3>6 DEF m
    <3>8. ASSUME NEW j \in 1..Len(r) PROVE r[j] = Num(q - Len(r) + j - 1)
      <4>1. m + j - 1 \in 1..len /\ q - Len(r) + j - 1 = lo + (m + j - 1) - 1
        BY <1>0, <1>1, <2>5, <3>1, <3>7 DEF m
      <4>2. r[j] = list[m + j - 1]  BY <3>6, <3>7
      <4>3. list[m + j - 1] = Num(lo + (m + j - 1) - 1)  BY <1>2, <4>1
      <4> QED BY <4>1, <4>2, <4>3
    <3>a. q1 = q /\ Len(r) <= q1 - b  BY <3>1, <3>7
    <3>9. Timed(r, q1, b)  BY <3>a, <3>6, <3>7, <3>8 DEF Timed
    <3> QED BY <2>5, <3>4, <3>9 DEF q1
  <2>6. CASE q < b
    <3>1. lo + 1 <= b /\ ~(b - lo \in 1..len)  BY <1>0, <1>1, <2>6
    <3>2. Matches(list, n) = {}  BY <2>3, <3>1
    <3>3. res = <<>>  BY <1>6, <2>2, <3>1, <3>2 DEF AckTimers
    <3>4. Timed(res, q1, b)  BY <1>3, <3>3 DEF Timed
    <3> QED BY <3>2, <3>4 DEF q1
  <2> QED BY <1>1, <2>4, <2>5, <2>6
<1> QED BY <1>5, <1>6

-----------------------------------------------------------------------------
(* The steps of an acknowledgement *)

LEMMA TakeRepeatKeeps ==
  ASSUME iss \in Nums, NEW t, NEW f \in Int, NEW a \in Int, NEW e \in Int, NEW n \in Nums,
         Sound(t, f, a, e), Inside(t)
  PROVE  /\ Sound(TakeRepeat(t, n), f, a, e) /\ Inside(TakeRepeat(t, n))
         /\ TakeRepeat(t, n).count = t.count
         /\ Retransmits(t, n) =>
              /\ n = Num(a) /\ TakeRepeat(t, n).pos = a - f
              /\ TakeRepeat(t, n).backPoint = BackOf(t.base, t.backPoint, Num(f + t.pos))
         /\ ~Retransmits(t, n) => /\ TakeRepeat(t, n).pos = t.pos
                                  /\ TakeRepeat(t, n).backPoint = t.backPoint
<1>0. t \in Numbers /\ t.rep \in 0..1  BY DEF Sound, Numbers
<1>1. CASE Retransmits(t, n)
  <2>1. TakeRepeat(t, n) = GoBack(t)  BY <1>1 DEF TakeRepeat
  <2>2. Repeats(t, n)  BY <1>0, <1>1 DEF Retransmits
  <2>3. n = Num(a)  BY <2>2 DEF Repeats, Sound
  <2>4. /\ Sound(GoBack(t), f, a, e) /\ GoBack(t).pos = a - f
        /\ GoBack(t).count = t.count /\ GoBack(t).wndPos = t.wndPos
        /\ GoBack(t).backPoint = BackOf(t.base, t.backPoint, Num(f + t.pos))
    BY GoBackKeeps
  <2> QED BY <1>1, <2>1, <2>3, <2>4 DEF Inside
<1>2. CASE ~Retransmits(t, n)
  <2> DEFINE k == IF Repeats(t, n) THEN t.rep + 1 ELSE t.rep
             u == [t EXCEPT !.rep = k]
  <2>1. k \in 0..1  BY <1>0, <1>2 DEF Retransmits
  <2>2. TakeRepeat(t, n) = u  BY <1>0, <1>2 DEF TakeRepeat, Numbers
  <2> HIDE DEF k
  <2>3. u \in Numbers  BY <1>0, <2>1 DEF Numbers
  <2>4. /\ u.start = t.start /\ u.base = t.base /\ u.last = t.last /\ u.count = t.count
        /\ u.dataSent = t.dataSent /\ u.pos = t.pos /\ u.backPoint = t.backPoint
        /\ u.wndPos = t.wndPos
    BY <1>0 DEF Numbers
  <2> HIDE DEF u
  <2>5. Sound(u, f, a, e) /\ Inside(u)  BY <2>3, <2>4 DEF Sound, SentIsAhead, Inside
  <2> QED BY <1>2, <2>2, <2>4, <2>5
<1> QED BY <1>1, <1>2

\* A new acknowledgement, for position b
LEMMA NewBaseKeeps ==
  ASSUME iss \in Nums, NEW t, NEW f \in Nat, NEW a \in Int, NEW e \in Int, NEW b \in Int,
         Sound(t, f, a, e), a < b, b <= e, NEW wnd \in 0..MaxWindow
  PROVE  /\ Sound(NewBase(t, Num(b), wnd), f, b, e)
         /\ Inside(NewBase(t, Num(b), wnd))
         /\ f + NewBase(t, Num(b), wnd).pos = IF f + t.pos < b THEN b ELSE f + t.pos
         /\ NewBase(t, Num(b), wnd).count = t.count
         /\ NewBase(t, Num(b), wnd).start = t.start
         /\ NewBase(t, Num(b), wnd).dataSent = t.dataSent
         /\ NewBase(t, Num(b), wnd).backPoint = BackOf(Num(b), t.backPoint, Num(b))
<1> DEFINE n == Num(b)
           u == [t EXCEPT !.base = n, !.rep = 0]
           w == RefreshBack(u, n)
           v == RefreshWnd(w, wnd)
           r == Relative(v.start, n)
           q == IF v.pos < r THEN r ELSE v.pos
<1>0. n \in Nums /\ t \in Numbers  BY NumIsNumber DEF Sound
<1>1. NewBase(t, n, wnd) = [v EXCEPT !.pos = q]  BY DEF NewBase
<1> HIDE DEF n
<1>2. /\ u \in Numbers /\ u.start = t.start /\ u.base = n /\ u.last = t.last
      /\ u.dataSent = t.dataSent /\ u.pos = t.pos /\ u.count = t.count
      /\ u.backPoint = t.backPoint
  <2>1. 0 \in 0..1  OBVIOUS
  <2>2. u \in Numbers  BY <1>0, <2>1 DEF Numbers
  <2> QED BY <1>0, <2>2 DEF Numbers
<1> HIDE DEF u
<1> DEFINE back == BackOf(n, t.backPoint, n)
<1>3. /\ w \in Numbers /\ w.start = t.start /\ w.base = n /\ w.last = t.last
      /\ w.dataSent = t.dataSent /\ w.pos = t.pos /\ w.count = t.count
      /\ w.backPoint = back
  <2>1. w = [u EXCEPT !.backPoint = back] /\ back \in Nums
    <3>1. /\ BackOf(u.base, u.backPoint, n) \in Nums
          /\ RefreshBack(u, n) = [u EXCEPT !.backPoint = BackOf(u.base, u.backPoint, n)]
      BY <1>0, <1>2, RefreshBackOf
    <3> QED BY <1>2, <3>1
  <2> HIDE DEF back, w
  <2>2. w \in Numbers  BY <1>2, <2>1 DEF Numbers
  <2> QED BY <1>2, <2>1, <2>2 DEF Numbers
<1> HIDE DEF back
<1>4. /\ t.start = Num(f) /\ f <= b /\ b <= f + t.count /\ b <= f + MaxMessage
      /\ t.pos \in Int /\ t.count \in 0..MaxMessage /\ t.count > 0
  BY <1>0, Bounds DEF Sound, Numbers
<1>5. PICK z \in Int : z <= w.count /\ v = [w EXCEPT !.wndPos = z]
  <2> HIDE DEF w
  <2>1. w.base = Num(b) /\ w.start = Num(f)  BY <1>3, <1>4 DEF n
  <2> QED BY <1>3, <1>4, <2>1, RefreshWndOf
<1> HIDE DEF w
<1>6. /\ v \in Numbers /\ v.start = t.start /\ v.base = n /\ v.last = t.last
      /\ v.dataSent = t.dataSent /\ v.pos = t.pos /\ v.count = t.count
      /\ v.wndPos = z /\ v.backPoint = back
  <2>1. v \in Numbers  BY <1>3, <1>5 DEF Numbers
  <2> QED BY <1>3, <1>5, <2>1 DEF Numbers
<1> HIDE DEF v
<1>7. r = b - f
  <2>1. Near(f, b)  BY <1>4, Bounds DEF Near
  <2> QED BY <1>4, <1>6, <2>1, RelativeMeasures DEF n
<1>8. q \in Int /\ f + q = IF f + t.pos < b THEN b ELSE f + t.pos
  BY <1>4, <1>6, <1>7
<1> HIDE DEF q, r
<1> DEFINE x == [v EXCEPT !.pos = q]
<1>9. /\ x \in Numbers /\ x.start = t.start /\ x.base = n /\ x.last = t.last
      /\ x.dataSent = t.dataSent /\ x.pos = q /\ x.count = t.count
      /\ x.wndPos = z /\ x.backPoint = back
  <2>1. x \in Numbers  BY <1>6, <1>8 DEF Numbers
  <2> QED BY <1>6, <2>1 DEF Numbers
<1> HIDE DEF x
<1>10. SentIsAhead(x, b, e)
  <2>1. PICK d \in Int : t.dataSent = Num(d) /\ Near(a, d) /\ (e > 0 => e <= d + 1)
    BY DEF Sound, SentIsAhead
  <2>2. e > 0 /\ Near(b, d)
    <3>1. f <= a  BY DEF Sound
    <3> QED BY <2>1, <3>1, Bounds DEF Near
  <2> QED BY <1>9, <2>1, <2>2 DEF SentIsAhead
<1>11. Sound(x, f, b, e)
  <2>1. /\ f <= b /\ b <= e /\ e <= f + x.count /\ 0 <= x.pos /\ x.pos <= MaxMessage
        /\ b <= f + x.pos /\ f + x.pos <= e /\ x.pos <= x.count
    <3>1. /\ e <= f + t.count /\ 0 <= t.pos /\ t.pos <= MaxMessage /\ f + t.pos <= e
          /\ t.pos <= t.count
      BY <1>4 DEF Sound
    <3>2. MaxMessage \in Nat  BY Bounds
    <3> QED BY <1>4, <1>8, <1>9, <3>1, <3>2
  <2>2. x.start = Num(f) /\ x.base = Num(b) /\ x.last = Num(f + x.count - 1)
    BY <1>4, <1>9 DEF Sound, n
  <2> QED BY <1>9, <1>10, <2>1, <2>2 DEF Sound
<1>12. Inside(x)  BY <1>3, <1>5, <1>9 DEF Inside
<1>13. NewBase(t, Num(b), wnd) = x /\ back = BackOf(Num(b), t.backPoint, Num(b))
  BY <1>1 DEF n, x, back
<1> QED BY <1>8, <1>9, <1>11, <1>12, <1>13

\* The call ends with the acknowledgement of its last packet.
LEMMA EndSendKeeps ==
  ASSUME iss \in Nums, NEW t, NEW f \in Nat, NEW b \in Int, NEW e \in Int,
         Sound(t, f, b, e), Inside(t), t.count > 0
  PROVE  /\ Completes(t, Num(b)) <=> b = f + t.count
         /\ ~Completes(t, Num(b)) => EndSend(t, Num(b)) = t
         /\ Completes(t, Num(b)) =>
              /\ Sound(EndSend(t, Num(b)), f + t.count, b, e)
              /\ EndSend(t, Num(b)).count = 0 /\ EndSend(t, Num(b)).pos = t.pos
         /\ EndSend(t, Num(b)).backPoint = t.backPoint
<1> DEFINE n == Num(b)
           l == f + t.count - 1
           g == f + t.count
           u == [t EXCEPT !.start = Plus(t.start, t.count), !.count = 0]
<1>0. /\ t \in Numbers /\ t.start = Num(f) /\ t.base = n /\ t.last = Num(l)
      /\ t.count \in 0..MaxMessage /\ f <= b /\ b <= e /\ e <= g
  BY DEF Sound, Numbers
<1>1. l \in Int /\ g \in Nat /\ g = l + 1 /\ b <= l + 1 /\ Near(b, l) /\ Near(b, b)
  BY <1>0, Bounds, SMTT(30) DEF Near
<1> HIDE DEF n, l
<1>2. Cmp(t.base, n, t.last) = b - l
  BY <1>0, <1>1, CmpMeasures DEF n
<1>3. Completes(t, n) <=> b = g
  BY <1>0, <1>1, <1>2, Bounds, SMTT(30) DEF Completes
<1>4. ~Completes(t, n) => EndSend(t, n) = t  BY DEF EndSend
<1>5. CASE Completes(t, n)
  <2>1. EndSend(t, n) = u  BY <1>5 DEF EndSend
  <2>2. Plus(t.start, t.count) = Num(g) /\ Num(g) \in Nums
    <3>1. f \in Int /\ t.count \in Int /\ g \in Int  BY <1>0, <1>1, Bounds
    <3>2. Plus(Num(f), t.count) = Num(f + t.count)  BY <3>1, PlusMovesOn
    <3> HIDE DEF g
    <3>3. Num(g) \in Nums  BY <3>1, NumIsNumber
    <3> QED BY <1>0, <3>2, <3>3 DEF g
  <2> DEFINE k == Plus(t.start, t.count)
  <2>3. k \in Nums /\ k = Num(g) /\ 0 \in 0..MaxMessage  BY <2>2, Bounds
  <2> HIDE DEF k
  <2>4. /\ u \in Numbers /\ u.start = k /\ u.count = 0 /\ u.base = t.base /\ u.pos = t.pos
        /\ u.dataSent = t.dataSent /\ u.backPoint = t.backPoint
    <3>1. u = [t EXCEPT !.start = k, !.count = 0]  BY DEF k
    <3>2. [t EXCEPT !.start = k, !.count = 0] \in Numbers  BY <1>0, <2>3 DEF Numbers
    <3> QED BY <1>0, <2>3, <3>1, <3>2 DEF Numbers
  <2> HIDE DEF u
  <2>5. SentIsAhead(u, b, e)  BY <2>4 DEF Sound, SentIsAhead
  <2>6. 0 <= u.pos /\ u.pos <= MaxMessage  BY <2>4 DEF Sound
  <2>7. g <= b /\ b <= e /\ e <= g + u.count /\ ~(u.count > 0)
    BY <1>0, <1>1, <1>3, <1>5, <2>4
  <2> HIDE DEF g
  <2>8. u.start = Num(g) /\ u.base = Num(b)  BY <1>0, <2>3, <2>4 DEF n
  <2>9. Sound(u, g, b, e)  BY <2>4, <2>5, <2>6, <2>7, <2>8 DEF Sound
  <2> QED BY <1>3, <1>5, <2>1, <2>4, <2>9 DEF g, n
<1>6. CASE ~Completes(t, n)
  BY <1>3, <1>4, <1>6 DEF n
<1> QED BY <1>5, <1>6

\* What tells a new acknowledgement from an old one
LEMMA AckIsNew ==
  ASSUME NumbersInv, NEW a \in Nat, a <= top, Acked - a <= Half,
         NEW t, Sound(t, first, Acked, top)
  PROVE  /\ a > Acked => ~OutOfRange(t, Num(a)) /\ Num(a) # t.base
         /\ a <= Acked => OutOfRange(t, Num(a)) \/ Num(a) = t.base
<1> DEFINE n == Num(a)
<1>0. /\ iss \in Nums /\ first \in Nat /\ top \in Nat /\ Acked \in Nat
      /\ first <= Acked /\ Acked <= top /\ top - Acked <= MaxMessage
  <2>1. /\ iss \in Nums /\ first \in Nat /\ top \in Nat /\ Acked \in Nat
        /\ s.count \in 0..MaxMessage /\ first <= Acked /\ Acked <= top /\ top <= first + s.count
    BY InvFacts
  <2> QED BY <2>1, Bounds
<1>1. t.base = Num(Acked)  BY DEF Sound
<1>2. PICK d \in Int : t.dataSent = Num(d) /\ Near(Acked, d) /\ (top > 0 => top <= d + 1)
  BY DEF Sound, SentIsAhead
<1>3. Near(Acked, a) /\ Near(Acked, Acked) /\ a \in Int /\ Acked \in Int
  BY <1>0, Bounds DEF Near
<1>4. Cmp(t.base, n, t.base) = a - Acked  BY <1>0, <1>1, <1>3, CmpMeasures
<1>5. Cmp(t.base, n, t.dataSent) = a - d  BY <1>0, <1>1, <1>2, <1>3, CmpMeasures
<1>6. ASSUME a > Acked PROVE ~OutOfRange(t, n) /\ n # t.base
  <2>1. ~(a - Acked < 0) /\ ~(a - d > 1)  BY <1>0, <1>2, <1>6
  <2>2. a # Acked /\ a - Acked < NumMod /\ Acked - a < NumMod  BY <1>0, <1>6, Bounds
  <2>3. n # Num(Acked)  BY <1>0, <1>3, <2>2, NumTellsApart
  <2> HIDE DEF n
  <2> QED BY <1>1, <1>4, <1>5, <2>1, <2>3 DEF OutOfRange
<1>7. ASSUME a <= Acked PROVE OutOfRange(t, n) \/ n = t.base
  <2>1. CASE a = Acked  BY <1>1, <2>1
  <2>2. CASE a # Acked
    <3>1. a - Acked < 0  BY <1>0, <1>7, <2>2
    <3> QED BY <1>4, <3>1 DEF OutOfRange
  <2> QED BY <2>1, <2>2
<1> QED BY <1>6, <1>7

\* An acknowledgement of nothing new leaves the window, or goes back.
LEMMA OldAckInv ==
  ASSUME NumbersInv, NEW a \in 0..MaxPackets, NEW wnd \in 0..MaxWindow, TakeAck(a, wnd),
         a <= Acked
  PROVE  /\ NumbersInv' /\ Acked' = Acked /\ first' = first /\ s'.count = s.count
         /\ top' = top /\ sample' = NoSample
         /\ \/ s'.pos = s.pos /\ s'.backPoint = s.backPoint
            \/ /\ first + s'.pos = Acked
               /\ s'.backPoint = BackOf(s.base, s.backPoint, Num(first + s.pos))
<1> DEFINE n == Num(a)
           t == TakeRepeat(s, n)
           list == IF Retransmits(s, n) THEN <<>> ELSE tm
<1>0. /\ iss \in Nums /\ first \in Nat /\ top \in Nat /\ Acked \in Nat /\ iss \in Iss
      /\ s.pos \in Nat /\ again \subseteq Nat /\ first <= Acked
  BY InvFacts
<1>1. a \in Nat /\ a <= top /\ Acked - a <= Half /\ iss' = iss /\ top' = top
      /\ again' = {p \in again : p >= a} /\ HandleDataAck(n, wnd)
  <2>1. a \in Nat  BY PacketsAssumption
  <2> QED BY <2>1 DEF TakeAck
<1>2. Sound(s, first, Acked, top) /\ Inside(s) /\ TimersOf(tm, s, first, Acked)
  BY DEF NumbersInv
<1>3. n \in Nums
  <2>1. a \in Int  BY <1>1
  <2> QED BY <1>0, <2>1, NumIsNumber
<1> HIDE DEF n
<1>4. /\ Sound(t, first, Acked, top) /\ Inside(t) /\ t.count = s.count
      /\ Retransmits(s, n) =>
           /\ t.pos = Acked - first
           /\ t.backPoint = BackOf(s.base, s.backPoint, Num(first + s.pos))
      /\ ~Retransmits(s, n) => t.pos = s.pos /\ t.backPoint = s.backPoint
  <2>1. first \in Int /\ top \in Int /\ Acked \in Int  BY <1>0
  <2> QED BY <1>0, <1>2, <1>3, <2>1, TakeRepeatKeeps
<1> HIDE DEF t
<1>5. OutOfRange(t, n) \/ n = t.base
  BY <1>1, <1>4, AckIsNew DEF n
<1>6. s' = t \/ s' = RefreshWnd(t, wnd)  BY <1>1, <1>5 DEF HandleDataAck, t
<1>7. tm' = list /\ first' = first /\ sample' = NoSample
  BY <1>1, <1>5 DEF HandleDataAck, t
<1>8. /\ Sound(s', first, Acked, top) /\ Inside(s') /\ s'.pos = t.pos /\ s'.count = t.count
      /\ s'.backPoint = t.backPoint
  <2>1. first \in Int /\ top \in Int /\ Acked \in Int  BY <1>0
  <2>2. /\ Sound(RefreshWnd(t, wnd), first, Acked, top) /\ Inside(RefreshWnd(t, wnd))
        /\ RefreshWnd(t, wnd).pos = t.pos /\ RefreshWnd(t, wnd).count = t.count
        /\ RefreshWnd(t, wnd).backPoint = t.backPoint
    BY <1>0, <1>4, <2>1, RefreshWndKeeps
  <2> QED BY <1>4, <1>6, <2>2
<1>9. TimersOf(tm', s', first, Acked)
  <2>1. CASE Retransmits(s, n)
    <3>1. tm' = <<>> /\ 0 <= (first + s'.pos) - Acked  BY <1>0, <1>4, <1>7, <1>8, <2>1
    <3>2. Timed(<<>>, first + s'.pos, Acked)  BY <3>1 DEF Timed
    <3> QED BY <3>1, <3>2 DEF TimersOf
  <2>2. CASE ~Retransmits(s, n)
    <3>1. tm' = tm /\ s'.pos = s.pos /\ s'.count = s.count  BY <1>4, <1>7, <1>8, <2>2
    <3> QED BY <1>2, <3>1 DEF TimersOf
  <2> QED BY <2>1, <2>2
<1>10. again' \subseteq Nat /\ sample' \in Nat \union {NoSample}  BY <1>0, <1>1, <1>7
<1>11. NumbersInv' /\ Acked' = Acked
  <2>1. Acked \in Int  BY <1>0
  <2> QED BY <1>0, <1>1, <1>7, <1>8, <1>9, <1>10, <2>1, NumbersInvForm
<1>12. \/ s'.pos = s.pos /\ s'.backPoint = s.backPoint
       \/ /\ first + s'.pos = Acked
          /\ s'.backPoint = BackOf(s.base, s.backPoint, Num(first + s.pos))
  BY <1>0, <1>4, <1>8
<1> QED BY <1>1, <1>4, <1>7, <1>8, <1>11, <1>12

\* The position of the next packet to send
NextPosition == IF s.count = 0 THEN first ELSE first + s.pos

\* A new acknowledgement moves the base, ends the call with its last packet, and
\* measures a packet only when its number is not below the back point.
LEMMA NewAckInv ==
  ASSUME NumbersInv, NEW a \in 0..MaxPackets, NEW wnd \in 0..MaxWindow, TakeAck(a, wnd),
         a > Acked
  PROVE  /\ NumbersInv' /\ Acked' = a /\ a <= top /\ s.count > 0
         /\ first' + s'.count = first + s.count /\ top' = top
         /\ NextPosition' = IF first + s.pos < a THEN a ELSE first + s.pos
         /\ s'.backPoint = BackOf(Num(a), s.backPoint, Num(a))
         /\ sample' # NoSample => sample' = a - 1 /\ Num(a) >= s'.backPoint
<1> DEFINE n == Num(a)
           t == TakeRepeat(s, n)
           u == NewBase(t, n, wnd)
           next == first + s.pos
           q == IF next < a THEN a ELSE next
<1>0. /\ iss \in Nums /\ first \in Nat /\ top \in Nat /\ Acked \in Nat /\ iss \in Iss
      /\ s.pos \in Nat /\ again \subseteq Nat /\ first <= Acked
  BY InvFacts
<1>1. a \in Nat /\ a <= top /\ Acked - a <= Half /\ iss' = iss /\ top' = top
      /\ again' = {p \in again : p >= a} /\ HandleDataAck(n, wnd)
  <2>1. a \in Nat  BY PacketsAssumption
  <2> QED BY <2>1 DEF TakeAck
<1>2. Sound(s, first, Acked, top) /\ Inside(s) /\ TimersOf(tm, s, first, Acked)
  BY DEF NumbersInv
<1>3. n \in Nums /\ n # Num(Acked)
  <2>1. a \in Int  BY <1>1
  <2>2. n # s.base  BY <1>1, <1>2, AckIsNew
  <2> QED BY <1>0, <1>2, <2>1, <2>2, NumIsNumber DEF Sound
<1> HIDE DEF n
<1>4. /\ Sound(t, first, Acked, top) /\ t.count = s.count /\ ~Retransmits(s, n)
      /\ t.pos = s.pos /\ t.backPoint = s.backPoint
  <2>1. first \in Int /\ top \in Int /\ Acked \in Int  BY <1>0
  <2> QED BY <1>0, <1>2, <1>3, <2>1, TakeRepeatKeeps
<1>t. t.start = Num(first)  BY <1>4 DEF Sound
<1>5. ~OutOfRange(t, n) /\ n # t.base  BY <1>1, <1>4, AckIsNew DEF n
<1>6. s.count > 0 /\ s.count \in Nat
  <2>1. Acked <= top /\ top <= first + s.count /\ s.count \in Nat  BY Bounds, InvFacts
  <2> QED BY <1>0, <1>1, <2>1
<1>7. /\ s' = EndSend(u, n) /\ tm' = AckTimers(tm, n, u.dataSent)
      /\ sample' = IF Measures(u, tm, n) THEN first + Relative(t.start, n) - 1 ELSE NoSample
      /\ first' = IF Completes(u, n) THEN first + t.count ELSE first
  BY <1>1, <1>4, <1>5 DEF HandleDataAck
<1> HIDE DEF t
<1>8. /\ Sound(u, first, a, top) /\ Inside(u) /\ u.count = s.count
      /\ first + u.pos = q /\ u.dataSent = t.dataSent
      /\ u.backPoint = BackOf(n, s.backPoint, n)
  <2>1. top \in Int /\ Acked \in Int /\ a \in Int  BY <1>0, <1>1
  <2> DEFINE r == NewBase(t, Num(a), wnd)
  <2>2. /\ Sound(r, first, a, top) /\ Inside(r) /\ r.count = t.count
        /\ first + r.pos = IF first + t.pos < a THEN a ELSE first + t.pos
        /\ r.dataSent = t.dataSent /\ r.backPoint = BackOf(Num(a), t.backPoint, Num(a))
    BY <1>0, <1>1, <1>4, <2>1, NewBaseKeeps
  <2> QED BY <1>4, <2>2 DEF n
<1> HIDE DEF u
<1>9. /\ Completes(u, n) <=> a = first + s.count
      /\ ~Completes(u, n) => s' = u
      /\ Completes(u, n) => /\ Sound(s', first + s.count, a, top)
                            /\ s'.count = 0 /\ s'.pos = u.pos
      /\ s'.backPoint = u.backPoint
  <2>1. top \in Int /\ a \in Int  BY <1>0, <1>1
  <2> QED BY <1>0, <1>6, <1>7, <1>8, <2>1, EndSendKeeps DEF n
<1>10. first' \in Nat /\ Sound(s', first', a, top) /\ Inside(s')
       /\ first' + s'.count = first + s.count
  <2>1. CASE Completes(u, n)
    <3>1. first' = first + s.count /\ s'.count = 0  BY <1>4, <1>7, <1>9, <2>1
    <3>2. Inside(s')  BY <3>1 DEF Inside
    <3> QED BY <1>0, <1>6, <1>9, <2>1, <3>1, <3>2
  <2>2. CASE ~Completes(u, n)
    <3>1. first' = first /\ s' = u  BY <1>7, <1>9, <2>2
    <3> QED BY <1>0, <1>8, <3>1
  <2> QED BY <2>1, <2>2
<1>11. next \in Nat /\ next <= top /\ q \in Nat /\ q <= top /\ a <= q
  <2>1. next <= top  BY <1>2, <1>6 DEF Sound
  <2> QED BY <1>0, <1>1, <2>1
<1>12. NextPosition' = q
  <2>1. CASE Completes(u, n)
    <3>1. first' = first + s.count /\ s'.count = 0 /\ a = first + s.count
      BY <1>4, <1>7, <1>9, <2>1
    <3>2. top <= first + s.count  BY <1>2 DEF Sound
    <3>3. q = a  BY <1>0, <1>1, <1>6, <1>11, <3>1, <3>2
    <3> QED BY <3>1, <3>3 DEF NextPosition
  <2>2. CASE ~Completes(u, n)
    <3>1. first' = first /\ s' = u  BY <1>7, <1>9, <2>2
    <3>2. s'.count # 0  BY <1>6, <1>8, <3>1
    <3> QED BY <1>8, <3>1, <3>2 DEF NextPosition
  <2> QED BY <2>1, <2>2
<1>13. PICK d \in Int : /\ t.dataSent = Num(d) /\ Near(Acked, d)
                        /\ top > 0 => top <= d + 1
  BY <1>4 DEF Sound, SentIsAhead
<1>14. /\ Timed(tm', q, a)
       /\ Measures(u, tm, n) => a <= next
  <2>1. Timed(tm, next, Acked)  BY <1>2 DEF TimersOf
  <2>2. next <= d + 1 /\ a <= d + 1 /\ d - Acked < Half /\ next \in Int /\ a \in Int /\ Acked \in Int
    BY <1>0, <1>1, <1>11, <1>13 DEF Near
  <2> HIDE DEF next
  <2>3. /\ Timed(AckTimers(tm, Num(a), Num(d)), IF next < a THEN a ELSE next, a)
        /\ tm # <<>> /\ InTimers(tm, Num(a), Num(d)) /\ Matches(tm, Num(a)) # {}
             => a <= next
    BY <1>0, <2>1, <2>2, AckTimersOf
  <2>4. u.dataSent = Num(d)  BY <1>8, <1>13
  <2> QED BY <1>7, <2>3, <2>4 DEF n, Measures
<1>15. TimersOf(tm', s', first', a)
  <2>1. CASE Completes(u, n)
    <3>1. first' = first + s.count /\ s'.count = 0 /\ a = first + s.count /\ s'.pos = u.pos
      BY <1>4, <1>7, <1>9, <2>1
    <3>2. top <= first + s.count  BY <1>2 DEF Sound
    <3>3. Len(tm') <= q - a /\ tm' \in Seq(Nums)  BY <1>14 DEF Timed
    <3>4. Len(tm') \in Nat /\ q <= a
      <4> HIDE DEF q
      <4> QED BY <1>0, <1>1, <1>6, <1>11, <3>1, <3>2, <3>3, LenProperties
    <3>5. Len(tm') = 0  BY <1>1, <1>11, <3>3, <3>4
    <3>6. tm' = <<>>  BY <3>3, <3>5, EmptySeq
    <3>7. 0 <= u.pos /\ u.pos \in Int  BY <1>8 DEF Sound, Numbers
    <3>8. 0 <= (first' + s'.pos) - a  BY <1>0, <1>1, <1>6, <3>1, <3>7
    <3>9. Timed(<<>>, first' + s'.pos, a)  BY <3>8 DEF Timed
    <3> QED BY <3>6, <3>9 DEF TimersOf
  <2>2. CASE ~Completes(u, n)
    <3>1. first' = first /\ s' = u  BY <1>7, <1>9, <2>2
    <3>2. s'.count # 0 /\ first' + s'.pos = q  BY <1>6, <1>8, <3>1
    <3> QED BY <1>14, <3>2 DEF TimersOf
  <2> QED BY <2>1, <2>2
<1>16. sample' # NoSample => sample' = a - 1 /\ Num(a) >= s'.backPoint
  <2>1. SUFFICES ASSUME Measures(u, tm, n) PROVE sample' = a - 1 /\ Num(a) >= s'.backPoint
    BY <1>7
  <2>2. Relative(t.start, n) = a - first
    <3>1. Near(first, a)
      <4>1. first <= Acked /\ top <= first + s.count /\ s.count <= MaxMessage
        BY <1>2, InvFacts DEF Sound
      <4> QED BY <1>0, <1>1, <1>6, <4>1, Bounds DEF Near
    <3> QED BY <1>0, <1>1, <1>t, <3>1, RelativeMeasures DEF n
  <2>3. first + (a - first) - 1 = a - 1  BY <1>0, <1>1
  <2>4. Num(a) >= u.backPoint  BY <2>1 DEF Measures, n
  <2> QED BY <1>7, <1>9, <2>1, <2>2, <2>3, <2>4
<1>17. again' \subseteq Nat /\ sample' \in Nat \union {NoSample}
  <2>1. a - 1 \in Nat  BY <1>0, <1>1
  <2> QED BY <1>0, <1>1, <1>16, <2>1
<1>18. NumbersInv' /\ Acked' = a
  <2>1. a \in Int  BY <1>1
  <2> QED BY <1>0, <1>1, <1>10, <1>15, <1>17, <2>1, NumbersInvForm
<1> QED BY <1>1, <1>6, <1>8, <1>9, <1>10, <1>12, <1>16, <1>18 DEF n

LEMMA TakeAckInv ==
  ASSUME NumbersInv, NEW a \in 0..MaxPackets, NEW wnd \in 0..MaxWindow, TakeAck(a, wnd)
  PROVE  NumbersInv'
<1>1. Acked \in Nat /\ a \in Nat  BY InvFacts, PacketsAssumption
<1>2. CASE a <= Acked  BY <1>2, OldAckInv
<1>3. CASE a > Acked  BY <1>3, NewAckInv
<1> QED BY <1>1, <1>2, <1>3

LEMMA StutterInv == ASSUME NumbersInv, UNCHANGED vars PROVE NumbersInv'
<1>1. /\ s' = s /\ tm' = tm /\ iss' = iss /\ first' = first /\ top' = top
      /\ again' = again /\ sample' = sample
  BY DEF vars
<1>2. /\ iss \in Nums /\ iss \in Iss /\ first \in Nat /\ top \in Nat /\ Acked \in Int
      /\ again \subseteq Nat /\ sample \in Nat \union {NoSample}
  BY InvFacts
<1>3. /\ Sound(s', first, Acked, top) /\ Inside(s') /\ TimersOf(tm', s', first, Acked)
  BY <1>1 DEF NumbersInv
<1> QED BY <1>1, <1>2, <1>3, NumbersInvForm

LEMMA NextInv == NumbersInv /\ [Next]_vars => NumbersInv'
<1> SUFFICES ASSUME NumbersInv, [Next]_vars PROVE NumbersInv'  OBVIOUS
<1>1. CASE \E n \in 1..MaxMessage, wnd \in 0..MaxWindow : HandleSend(n, wnd)
  BY <1>1, HandleSendInv
<1>2. CASE SendData  BY <1>2, SendDataInv
<1>3. CASE \E wnd \in 0..MaxWindow : DataTimeout(wnd)  BY <1>3, DataTimeoutInv
<1>4. CASE \E a \in 0..MaxPackets, wnd \in 0..MaxWindow : TakeAck(a, wnd)
  BY <1>4, TakeAckInv
<1>5. CASE UNCHANGED vars  BY <1>5, StutterInv
<1> QED BY <1>1, <1>2, <1>3, <1>4, <1>5 DEF Next

\* The invariant behind all that follows holds after any calls of ump_send, timeouts and
\* acknowledgements.
THEOREM NumbersInvariant == Spec => []NumbersInv
<1> QED BY InitInv, NextInv, PTL DEF Spec

-----------------------------------------------------------------------------
(* What the invariant gives *)

\* Every state of the sender has the values its declarations promise: no 16-bit field
\* leaves its range and every timer is a number.
THEOREM NumbersTypeCorrect == Spec => []TypeOK
<1>1. NumbersInv => TypeOK  BY DEF NumbersInv
<1> QED BY <1>1, NumbersInvariant, PTL

\* our_data_pos is an index into snd_packets or behind the last of them, and never
\* before the first packet that is not acknowledged.
THEOREM PositionIsInMessage == Spec => []PositionInMessage
<1>1. ASSUME NumbersInv PROVE PositionInMessage
  <2>1. Sound(s, first, Acked, top) /\ Inside(s) /\ first \in Nat /\ Acked \in Nat
        /\ iss \in Nums /\ s.pos \in Nat /\ s.count \in 0..MaxMessage /\ s.wndPos \in Int
    BY <1>1, InvFacts DEF NumbersInv
  <2>2. s.start = Num(first) /\ s.base = Num(Acked) /\ first <= Acked
        /\ Acked <= top /\ top <= first + s.count /\ top \in Nat
    BY <1>1, InvFacts
  <2>3. Near(first, Acked) /\ first \in Int /\ Acked \in Int
    BY <2>1, <2>2, Bounds DEF Near
  <2>4. Relative(s.start, s.base) = Acked - first
    BY <2>1, <2>2, <2>3, RelativeMeasures
  <2>5. ASSUME s.count > 0 PROVE Acked <= first + s.pos /\ s.pos <= s.count
    BY <2>1, <2>5 DEF Sound
  <2>6. 0 <= Acked - first /\ (s.count > 0 => Acked - first <= s.pos)
    BY <2>1, <2>2, <2>5
  <2> QED BY <2>1, <2>4, <2>5, <2>6 DEF PositionInMessage, Inside
<1> QED BY <1>1, NumbersInvariant, PTL

\* The timers are those of the last packets sent, in their order, and none is left for
\* a packet that is acknowledged.
THEOREM TimersAreInOrder == Spec => []TimersInOrder
<1>1. ASSUME NumbersInv PROVE TimersInOrder
  <2> DEFINE q == first + s.pos
             lo == q - Len(tm)
  <2>1. Timed(tm, q, Acked) /\ (s.count = 0 => tm = <<>>)  BY <1>1 DEF NumbersInv, TimersOf
  <2>2. /\ Len(tm) <= q - Acked /\ tm \in Seq(Nums)
        /\ \A i \in 1..Len(tm) : tm[i] = Num(lo + i - 1)
    BY <2>1 DEF Timed
  <2>3. Len(tm) \in Nat /\ DOMAIN tm = 1..Len(tm)  BY <2>2, LenProperties
  <2>4. first \in Nat /\ s.pos \in Nat /\ Acked \in Nat  BY <1>1, InvFacts
  <2>5. q - Acked = first + s.pos - Acked  BY <2>4
  <2>6. ASSUME NEW i \in 1..Len(tm)
        PROVE  tm[i] = Num(first + s.pos - Len(tm) + i - 1)
    <3>1. lo + i - 1 = first + s.pos - Len(tm) + i - 1  BY <2>3, <2>4
    <3>2. tm[i] = Num(lo + i - 1)  BY <2>2
    <3> HIDE DEF lo
    <3> QED BY <3>1, <3>2
  <2> QED BY <2>1, <2>2, <2>3, <2>5, <2>6 DEF TimersInOrder
<1> QED BY <1>1, NumbersInvariant, PTL

-----------------------------------------------------------------------------
(* The numbers implement a window on the stream *)

LEMMA InitWindow == ASSUME Init PROVE Window!Init
<1>1. NumbersInv  BY InitInv
<1>2. first = 0 /\ top = 0 /\ s.count = 0  BY DEF Init
<1>3. Acked = 0  BY <1>1, <1>2, InvFacts
<1> QED BY <1>2, <1>3 DEF Window!Init

\* Where the window stands after a step
WindowAt == <<Acked, NextPosition, top, first + s.count>>

LEMMA NextWindow ==
  ASSUME NumbersInv, [Next]_vars
  PROVE  [Window!Next]_<<Acked, IF s.count = 0 THEN first ELSE first + s.pos, top,
                         first + s.count>>
<1>0. /\ first \in Nat /\ top \in Nat /\ Acked \in Nat /\ s.pos \in Nat /\ s.count \in Nat
      /\ first <= Acked /\ Acked <= top /\ top <= first + s.count
  BY InvFacts, Bounds
<1>z. s.count = 0 => NextPosition = Acked
  BY <1>0 DEF NextPosition
<1>1. ASSUME NEW n \in 1..MaxMessage, NEW wnd \in 0..MaxWindow, HandleSend(n, wnd)
      PROVE  Window!Offer
  <2>1. /\ Acked' = Acked /\ s.count = 0 /\ first = Acked /\ s'.count = n /\ s'.pos = 0
        /\ first' = first /\ top' = top
    BY <1>1, HandleSendInv DEF HandleSend
  <2>2. n \in Nat /\ n > 0  BY Bounds
  <2>3. first' + s'.count \in Nat /\ first' + s'.count > first + s.count
    BY <1>0, <2>1, <2>2
  <2>4. (IF s'.count = 0 THEN first' ELSE first' + s'.pos) = Acked /\ Acked = first + s.count
    BY <1>0, <2>1, <2>2
  <2> QED BY <2>1, <2>3, <2>4 DEF Window!Offer
<1>2. ASSUME SendData PROVE Window!Send
  <2>1. /\ Acked' = Acked /\ s.count > 0 /\ s'.count = s.count /\ s'.pos = s.pos + 1
        /\ s.pos < s.count /\ first' = first
        /\ top' = IF first + s.pos < top THEN top ELSE first + s.pos + 1
    BY <1>2, SendDataInv DEF SendData
  <2>2. s.count # 0 /\ first + s.pos < first + s.count
        /\ first + (s.pos + 1) = (first + s.pos) + 1
    BY <1>0, <2>1
  <2> QED BY <2>1, <2>2 DEF Window!Send
<1>3. ASSUME NEW wnd \in 0..MaxWindow, DataTimeout(wnd) PROVE Window!GoBack
  <2>1. /\ Acked' = Acked /\ s.count > 0 /\ s'.count = s.count /\ first + s'.pos = Acked
        /\ first' = first /\ top' = top
    BY <1>3, DataTimeoutInv DEF DataTimeout
  <2>2. s'.count # 0  BY <1>0, <2>1
  <2> QED BY <2>1, <2>2 DEF Window!GoBack
<1>4. ASSUME NEW a \in 0..MaxPackets, NEW wnd \in 0..MaxWindow, TakeAck(a, wnd)
      PROVE  Window!Ack \/ Window!GoBack \/ UNCHANGED WindowAt
  <2>0. a \in Nat  BY PacketsAssumption
  <2>1. CASE a <= Acked
    <3>1. /\ Acked' = Acked /\ first' = first /\ s'.count = s.count /\ top' = top
          /\ s'.pos = s.pos \/ first + s'.pos = Acked
      BY <1>4, <2>1, OldAckInv
    <3>2. CASE s'.pos = s.pos \/ s.count = 0
      BY <3>1, <3>2 DEF WindowAt, NextPosition
    <3>3. CASE first + s'.pos = Acked /\ s.count # 0
      BY <3>1, <3>3 DEF Window!GoBack
    <3> QED BY <3>1, <3>2, <3>3
  <2>2. CASE a > Acked
    <3>1. /\ Acked' = a /\ a <= top /\ s.count > 0 /\ first' + s'.count = first + s.count
          /\ top' = top
          /\ NextPosition' = IF first + s.pos < a THEN a ELSE first + s.pos
      BY <1>4, <2>2, NewAckInv
    <3>2. s.count # 0  BY <1>0, <3>1
    <3> QED BY <2>0, <2>2, <3>1, <3>2 DEF Window!Ack, NextPosition
  <2> QED BY <1>0, <2>0, <2>1, <2>2
<1>5. ASSUME UNCHANGED vars PROVE UNCHANGED WindowAt
  BY <1>5 DEF vars, WindowAt, NextPosition, Acked
<1> QED BY <1>1, <1>2, <1>3, <1>4, <1>5 DEF Next, Window!Next, WindowAt, NextPosition

\* Whatever the first number, and however often the numbers wrap around, packets go out
\* in the order of the stream from the first that is not acknowledged, and the next
\* message is taken when the one before is acknowledged.
THEOREM NumbersImplementWindow == Spec => ImplementsWindow
<1> QED BY InitWindow, NextWindow, NumbersInvariant, PTL
        DEF Spec, ImplementsWindow, Window!WindowSpec

-----------------------------------------------------------------------------
(* Round trips are measured on packets that were sent once *)

\* Before the numbers reach half their space, they are the positions plus the first
\* number, and a back point is compared like an integer.
LEMMA RawCompare ==
  ASSUME iss \in Nums, NEW a \in Nat, NEW m \in Nat, iss + a < Half, m <= a + MaxMessage,
         NEW z \in Nums, z <= iss + a + MaxMessage
  PROVE  /\ Num(a) = iss + a /\ Num(m) = iss + m
         /\ BackOf(Num(a), z, Num(m)) = IF z < iss + m THEN iss + m ELSE z
<1> DEFINE r == iss + a
           n == iss + m
<1>1. iss \in Nat /\ z \in Nat /\ r \in Nums /\ n \in Nums /\ r \in Nat /\ n \in Nat
      /\ r < Half /\ n <= r + MaxMessage /\ z <= r + MaxMessage
  BY Bounds
<1>2. Num(a) = r /\ Num(m) = n
  <2> HIDE DEF r, n
  <2>1. r % NumMod = r /\ n % NumMod = n  BY <1>1, SmallIsItself
  <2> QED BY <2>1 DEF Num, r, n
<1> HIDE DEF r, n
<1> DEFINE c == r + (Half - 1)
<1>3. c \in Nums /\ CirclePoint(r) = c
  <2>1. c \in Nums  BY <1>1, Bounds
  <2>2. CirclePoint(r) = c % NumMod  BY DEF CirclePoint, Plus
  <2> HIDE DEF c
  <2> QED BY <2>1, <2>2, SmallIsItself
<1>4. z <= c /\ n <= c  BY <1>1, Bounds
<1> HIDE DEF c
<1>5. Cmp(r, z, n) = z - n  BY <1>1, <1>3, <1>4, Bounds DEF Cmp, Lift
<1>6. BackOf(r, z, n) = IF z < n THEN n ELSE z
  <2>1. Cmp(r, z, n) < 0 <=> z < n  BY <1>1, <1>5
  <2> QED BY <2>1 DEF BackOf
<1> QED BY <1>2, <1>6 DEF r, n

\* The back point is not beyond the call, is behind everything sent while packets are
\* sent again, and stays behind those that were.
BackKnown ==
  iss + top < Half =>
    /\ s.backPoint <= iss + Acked + MaxMessage
    /\ s.count > 0 /\ first + s.pos < top => iss + top <= s.backPoint
    /\ \A p \in again : iss + p < s.backPoint

LEMMA BackKnownInit == Init => BackKnown
<1> SUFFICES ASSUME Init PROVE BackKnown  OBVIOUS
<1>1. NumbersInv  BY InitInv
<1>2. iss \in Nat /\ Acked \in Nat /\ MaxMessage \in Nat  BY <1>1, InvFacts, Bounds
<1>3. s.backPoint = 0 /\ s.count = 0 /\ again = {}  BY DEF Init
<1>4. s.backPoint <= iss + Acked + MaxMessage  BY <1>2, <1>3
<1> QED BY <1>3, <1>4 DEF BackKnown

\* Going back: the back point moves up to the packet that was next.
LEMMA BackOfNext ==
  ASSUME NumbersInv, BackKnown, iss + top < Half
  PROVE  LET z == BackOf(s.base, s.backPoint, Num(first + s.pos))
         IN /\ z <= iss + Acked + MaxMessage /\ s.backPoint <= z
            /\ s.count > 0 => iss + top <= z
<1> DEFINE m == first + s.pos
<1>1. /\ first \in Nat /\ top \in Nat /\ Acked \in Nat /\ s.pos \in Nat /\ s.count \in 0..MaxMessage
      /\ iss \in Nums /\ s.backPoint \in Nums /\ s.base = Num(Acked)
      /\ first <= Acked /\ Acked <= top /\ top <= first + s.count
  BY InvFacts DEF Numbers
<1>2. /\ m \in Nat /\ m <= Acked + MaxMessage
      /\ s.count > 0 => m <= top
  <2>1. /\ s.pos <= MaxMessage /\ MaxMessage \in Nat
        /\ s.count > 0 => first + s.pos <= top
    BY Bounds DEF NumbersInv, Sound
  <2> QED BY <1>1, <2>1
<1>3. /\ iss \in Nat /\ s.backPoint \in Nat /\ MaxMessage \in Nat /\ s.count <= MaxMessage
      /\ iss + Acked < Half
  BY <1>1, <1>2, Bounds
<1>4. /\ s.backPoint <= iss + Acked + MaxMessage
      /\ s.count > 0 /\ m < top => iss + top <= s.backPoint
  BY DEF BackKnown
<1> HIDE DEF m
<1> DEFINE z == BackOf(s.base, s.backPoint, Num(m))
<1>5. z = IF s.backPoint < iss + m THEN iss + m ELSE s.backPoint
  BY <1>1, <1>2, <1>3, <1>4, RawCompare
<1> HIDE DEF z
<1>6. /\ z <= iss + Acked + MaxMessage /\ s.backPoint <= z
      /\ s.count > 0 => iss + top <= z
  BY <1>1, <1>2, <1>3, <1>4, <1>5
<1> QED BY <1>6 DEF z, m

LEMMA BackKnownNext == NumbersInv /\ BackKnown /\ [Next]_vars => BackKnown'
<1> SUFFICES ASSUME NumbersInv, BackKnown, [Next]_vars, iss' + top' < Half
             PROVE  /\ s'.backPoint <= iss' + Acked' + MaxMessage
                    /\ s'.count > 0 /\ first' + s'.pos < top' => iss' + top' <= s'.backPoint
                    /\ \A p \in again' : iss' + p < s'.backPoint
  BY DEF BackKnown
<1>0. /\ first \in Nat /\ top \in Nat /\ Acked \in Nat /\ s.pos \in Nat /\ s.count \in 0..MaxMessage
      /\ iss \in Nat /\ s.backPoint \in Nat /\ again \subseteq Nat /\ MaxMessage \in Nat
      /\ first <= Acked /\ Acked <= top /\ top <= first + s.count /\ s.count \in Nat
  BY InvFacts, Bounds DEF Numbers
<1> DEFINE same == /\ s'.backPoint = s.backPoint /\ Acked' = Acked /\ iss' = iss
                   /\ top' = top /\ again' \subseteq again
<1>1. ASSUME iss + top < Half
      PROVE  /\ s.backPoint <= iss + Acked + MaxMessage
             /\ s.count > 0 /\ first + s.pos < top => iss + top <= s.backPoint
             /\ \A p \in again : iss + p < s.backPoint
  BY <1>1 DEF BackKnown
<1>2. ASSUME NEW n \in 1..MaxMessage, NEW wnd \in 0..MaxWindow, HandleSend(n, wnd)
      PROVE  same /\ ~(first' + s'.pos < top')
  <2>1. /\ Acked' = Acked /\ first = Acked /\ top = Acked /\ s'.pos = 0
        /\ s'.backPoint = s.backPoint /\ first' = first /\ top' = top /\ iss' = iss
        /\ again' = again
    BY <1>2, HandleSendInv DEF HandleSend
  <2>2. ~(first + 0 < top)  BY <1>0, <2>1
  <2> QED BY <2>1, <2>2
<1>3. CASE SendData
  <2> DEFINE p == first + s.pos
  <2>1. /\ Acked' = Acked /\ s.count > 0 /\ s'.pos = s.pos + 1
        /\ s'.backPoint = s.backPoint /\ first' = first /\ iss' = iss
        /\ top' = IF p < top THEN top ELSE p + 1
        /\ again' = IF p < top THEN again \union {p} ELSE again
    BY <1>3, SendDataInv DEF SendData
  <2>2. first' + s'.pos = p + 1 /\ p \in Nat  BY <1>0, <2>1
  <2> HIDE DEF p
  <2>3. iss + top < Half  BY <1>0, <2>1, <2>2, Bounds
  <2>4. s.count > 0 /\ p < top => iss + top <= s.backPoint  BY <1>1, <2>3 DEF p
  <2>5. s'.backPoint <= iss' + Acked' + MaxMessage  BY <1>1, <2>1, <2>3
  <2>6. first' + s'.pos < top' => iss' + top' <= s'.backPoint
    BY <1>0, <2>1, <2>2, <2>4
  <2>7. ASSUME NEW x \in again' PROVE iss' + x < s'.backPoint
    <3>1. CASE x \in again  BY <1>1, <2>1, <2>3, <3>1
    <3>2. CASE x = p /\ p < top
      <4>1. iss + p < iss + top /\ iss + top <= s.backPoint  BY <1>0, <2>1, <2>2, <2>4, <3>2
      <4> QED BY <1>0, <2>1, <2>2, <3>2, <4>1
    <3> QED BY <2>1, <3>1, <3>2
  <2> QED BY <2>5, <2>6, <2>7
<1> DEFINE z == BackOf(s.base, s.backPoint, Num(first + s.pos))
           back == /\ s'.backPoint = z /\ s'.count = s.count /\ Acked' = Acked /\ iss' = iss
                   /\ top' = top /\ again' \subseteq again
<1>4. ASSUME NEW wnd \in 0..MaxWindow, DataTimeout(wnd) PROVE back
  BY <1>4, DataTimeoutInv DEF DataTimeout
<1>5. CASE back
  <2>1. /\ z <= iss + Acked + MaxMessage /\ s.backPoint <= z /\ iss + top < Half
        /\ s.count > 0 => iss + top <= z
    BY <1>5, BackOfNext
  <2>2. z \in Nat
    <3>2. Num(first + s.pos) \in Nums
      <4>1. first + s.pos \in Int /\ iss \in Nums  BY <1>0, InvFacts
      <4> QED BY <4>1, NumIsNumber
    <3>3. z = s.backPoint \/ z = Num(first + s.pos)  BY DEF BackOf
    <3> QED BY <1>0, <3>2, <3>3, Bounds
  <2> HIDE DEF z
  <2>3. ASSUME NEW p \in again' PROVE iss' + p < s'.backPoint
    <3>1. iss + p < s.backPoint /\ p \in Nat  BY <1>0, <1>1, <1>5, <2>1, <2>3
    <3> QED BY <1>0, <1>5, <2>1, <2>2, <3>1
  <2> QED BY <1>5, <2>1, <2>3
<1>6. CASE same /\ (s'.count > 0 /\ first' + s'.pos < top' => s.count > 0 /\ first + s.pos < top)
  <2>1. iss + top < Half  BY <1>6
  <2>2. \A p \in again' : iss' + p < s'.backPoint  BY <1>1, <1>6, <2>1
  <2> QED BY <1>1, <1>6, <2>1, <2>2
<1>7. ASSUME NEW a \in 0..MaxPackets, NEW wnd \in 0..MaxWindow, TakeAck(a, wnd), a <= Acked
      PROVE  back \/ (same /\ (s'.count > 0 /\ first' + s'.pos < top'
                               => s.count > 0 /\ first + s.pos < top))
  <2>1. /\ Acked' = Acked /\ first' = first /\ s'.count = s.count /\ top' = top
        /\ \/ s'.pos = s.pos /\ s'.backPoint = s.backPoint
           \/ first + s'.pos = Acked /\ s'.backPoint = z
    BY <1>7, OldAckInv
  <2>2. iss' = iss /\ again' \subseteq again  BY <1>7 DEF TakeAck
  <2>3. CASE s'.pos = s.pos /\ s'.backPoint = s.backPoint  BY <2>1, <2>2, <2>3
  <2> QED BY <2>1, <2>2, <2>3
<1>8. ASSUME NEW a \in 0..MaxPackets, NEW wnd \in 0..MaxWindow, TakeAck(a, wnd), a > Acked
      PROVE  /\ s'.backPoint <= iss' + Acked' + MaxMessage
             /\ s'.count > 0 /\ first' + s'.pos < top' => iss' + top' <= s'.backPoint
             /\ \A p \in again' : iss' + p < s'.backPoint
  <2>1. /\ Acked' = a /\ a <= top /\ top' = top /\ s.count > 0
        /\ NextPosition' = IF first + s.pos < a THEN a ELSE first + s.pos
        /\ s'.backPoint = BackOf(Num(a), s.backPoint, Num(a))
    BY <1>8, NewAckInv
  <2>2. a \in Nat /\ iss' = iss /\ again' \subseteq again
    BY <1>8, PacketsAssumption DEF TakeAck
  <2>3. iss + top < Half /\ iss + a < Half /\ s.backPoint <= iss + a + MaxMessage
        /\ s.backPoint \in Nums /\ iss \in Nums
    <3>1. iss + top < Half  BY <2>1, <2>2
    <3>2. s.backPoint <= iss + Acked + MaxMessage  BY <1>1, <3>1
    <3> QED BY <1>0, <1>8, <2>1, <2>2, <3>1, <3>2, InvFacts, Bounds, SMTT(30) DEF Numbers
  <2>4. s'.backPoint = IF s.backPoint < iss + a THEN iss + a ELSE s.backPoint
    <3>1. a <= a + MaxMessage  BY <2>2, Bounds
    <3> QED BY <2>1, <2>2, <2>3, <3>1, RawCompare
  <2>5. s'.backPoint <= iss' + Acked' + MaxMessage  BY <1>0, <2>1, <2>2, <2>3, <2>4
  <2>6. s'.count > 0 /\ first' + s'.pos < top' => iss' + top' <= s'.backPoint
    <3>1. SUFFICES ASSUME s'.count > 0, first' + s'.pos < top' PROVE iss' + top' <= s'.backPoint
      OBVIOUS
    <3>2. NextPosition' = first' + s'.pos  BY <3>1 DEF NextPosition
    <3>3. first + s.pos < top  BY <1>0, <2>1, <2>2, <3>1, <3>2
    <3>4. iss + top <= s.backPoint  BY <1>1, <2>1, <2>3, <3>3
    <3> QED BY <1>0, <2>1, <2>2, <2>4, <3>4
  <2>7. ASSUME NEW p \in again' PROVE iss' + p < s'.backPoint
    <3>1. iss + p < s.backPoint /\ p \in Nat  BY <1>0, <1>1, <2>2, <2>3, <2>7
    <3> QED BY <1>0, <2>2, <2>4, <3>1
  <2> QED BY <2>5, <2>6, <2>7
<1>9. CASE UNCHANGED vars
  <2>1. /\ s' = s /\ first' = first /\ top' = top /\ iss' = iss /\ again' = again
        /\ Acked' = Acked
    BY <1>9 DEF vars, Acked
  <2>2. iss + top < Half  BY <2>1
  <2> QED BY <1>1, <2>1, <2>2
<1>10. CASE \E n \in 1..MaxMessage, wnd \in 0..MaxWindow : HandleSend(n, wnd)
  BY <1>2, <1>6, <1>10
<1>11. CASE \E wnd \in 0..MaxWindow : DataTimeout(wnd)  BY <1>4, <1>5, <1>11
<1>12. CASE \E a \in 0..MaxPackets, wnd \in 0..MaxWindow : TakeAck(a, wnd)
  <2>1. PICK a \in 0..MaxPackets, wnd \in 0..MaxWindow : TakeAck(a, wnd)  BY <1>12
  <2>2. a <= Acked \/ a > Acked  BY <1>0, PacketsAssumption
  <2> QED BY <1>5, <1>6, <1>7, <1>8, <2>1, <2>2
<1> QED BY <1>3, <1>9, <1>10, <1>11, <1>12 DEF Next

LEMMA SampleStep ==
  ASSUME NumbersInv, BackKnown, [Next]_vars, sample' \in again, iss + top < Half,
         ~(UNCHANGED vars)
  PROVE  Num(sample' + 1) = s.backPoint
<1>0. /\ first \in Nat /\ top \in Nat /\ Acked \in Nat /\ iss \in Nat /\ iss \in Nums
      /\ s.backPoint \in Nat /\ s.backPoint \in Nums /\ again \subseteq Nat
  BY InvFacts, Bounds DEF Numbers
<1>1. sample' # NoSample  BY <1>0 DEF NoSample
<1>2. PICK a \in 0..MaxPackets, wnd \in 0..MaxWindow : TakeAck(a, wnd)
  BY <1>1 DEF Next, HandleSend, SendData, DataTimeout, vars
<1>3. a \in Nat /\ Acked \in Nat  BY <1>0, PacketsAssumption
<1>4. a > Acked  BY <1>1, <1>2, <1>3, OldAckInv
<1>5. /\ sample' = a - 1 /\ Num(a) >= s'.backPoint /\ a <= top
      /\ s'.backPoint = BackOf(Num(a), s.backPoint, Num(a))
  BY <1>1, <1>2, <1>4, NewAckInv
<1>6. s.backPoint <= iss + Acked + MaxMessage /\ iss + sample' < s.backPoint
  BY DEF BackKnown
<1>7. iss + a < Half /\ s.backPoint <= iss + a + MaxMessage
  BY <1>0, <1>3, <1>4, <1>5, <1>6, Bounds
<1>8. /\ Num(a) = iss + a
      /\ s'.backPoint = IF s.backPoint < iss + a THEN iss + a ELSE s.backPoint
  <2>1. a <= a + MaxMessage  BY <1>3, Bounds
  <2> QED BY <1>0, <1>3, <1>5, <1>7, <2>1, RawCompare
<1>9. s.backPoint = iss + a  BY <1>0, <1>3, <1>5, <1>6, <1>8
<1>10. sample' + 1 = a  BY <1>3, <1>5
<1> QED BY <1>8, <1>9, <1>10

\* README: the acknowledgement of a retransmitted packet does not contribute to the
\* estimate of the round trip.  The code breaks this: the back point is the number behind
\* the last packet sent before the timeout, and the test at ump_sock.c:813 lets that number
\* pass, so the acknowledgement of that packet is measured though it was sent again.  Before
\* the numbers reach half their space, when a back point of zero is really behind, it is
\* the only one.
OnlyLastMeasured ==
  [][sample' \in again /\ iss + top < Half => Num(sample' + 1) = s.backPoint]_vars

\* Of the packets that are sent again no more than one is measured for each back point.
THEOREM SamplesAreBounded == Spec => OnlyLastMeasured
<1>1. NumbersInv /\ BackKnown /\ [Next]_vars
      => [sample' \in again /\ iss + top < Half => Num(sample' + 1) = s.backPoint]_vars
  BY SampleStep
<1> QED BY <1>1, BackKnownInit, BackKnownNext, NumbersInvariant, PTL DEF Spec, OnlyLastMeasured

=============================================================================
