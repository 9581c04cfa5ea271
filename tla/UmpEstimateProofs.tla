--------------------------- MODULE UmpEstimateProofs --------------------------
(***************************************************************************)
(* The estimator stays in the range of what was measured, its timeout      *)
(* covers the last round trip, and retransmissions use it up as Backoff    *)
(* says, for any round trips, any limits and any rounding.                 *)
(***************************************************************************)
EXTENDS UmpEstimate, WellFoundedInduction, TLAPS

-----------------------------------------------------------------------------
(* Powers of two *)

LEMMA LeastExists ==
  ASSUME NEW T, T \subseteq Nat, T # {}
  PROVE  \E x \in T : \A y \in T : x <= y
<1>1. IsWellFoundedOn(OpToRel(<, Nat), Nat)  BY NatLessThanWellFounded
<1>2. PICK x \in T : \A y \in T : ~(<<y, x>> \in OpToRel(<, Nat))
  BY <1>1, WFMin
<1>3. \A y \in T : ~(y < x)  BY <1>2 DEF OpToRel
<1> QED BY <1>3

\* The table of the first powers, which shows that Power has a value
PowersTo(f, k) == f = [n \in 0..k |-> IF n = 0 THEN 1 ELSE 2 * f[n - 1]]

LEMMA PowersExist == \A k \in Nat : \E f : PowersTo(f, k)
<1> DEFINE T == {k \in Nat : ~ \E f : PowersTo(f, k)}
<1> SUFFICES ASSUME T # {} PROVE FALSE  OBVIOUS
<1>0. T \subseteq Nat  OBVIOUS
<1>1. PICK k \in T : \A y \in T : k <= y  BY <1>0, LeastExists
<1>2. k # 0
  <2> DEFINE g == [i \in 0..0 |-> 1]
  <2>1. g = [n \in 0..0 |-> IF n = 0 THEN 1 ELSE 2 * g[n - 1]]  OBVIOUS
  <2>2. PowersTo(g, 0)  BY <2>1 DEF PowersTo
  <2> QED BY <2>2
<1>3. k - 1 \in Nat /\ k - 1 \notin T  BY <1>1, <1>2
<1>4. PICK f : PowersTo(f, k - 1)  BY <1>3
<1> DEFINE h == [n \in 0..k |-> IF n = k THEN 2 * f[k - 1] ELSE f[n]]
<1>5. \A n \in 0..(k - 1) : f[n] = IF n = 0 THEN 1 ELSE 2 * f[n - 1]
  BY <1>4 DEF PowersTo
<1>6. \A n \in 0..k : h[n] = IF n = 0 THEN 1 ELSE 2 * h[n - 1]
  <2> TAKE n \in 0..k
  <2>1. CASE n = k  BY <2>1, <1>2, <1>3
  <2>2. CASE n # k  BY <2>2, <1>5
  <2> QED BY <2>1, <2>2
<1>7. PowersTo(h, k)  BY <1>6 DEF PowersTo
<1> QED BY <1>7

LEMMA PowersType ==
  ASSUME NEW k \in Nat, NEW f, PowersTo(f, k)
  PROVE  /\ f[0] = 1
         /\ \A n \in 1..k : f[n] = 2 * f[n - 1]
         /\ \A n \in 0..k : f[n] \in Nat
<1>1. f[0] = 1 /\ \A n \in 1..k : f[n] = 2 * f[n - 1]  BY DEF PowersTo
<1>2. \A n \in 0..k : f[n] \in Nat
  <2> DEFINE T == {n \in 0..k : f[n] \notin Nat}
  <2> SUFFICES ASSUME T # {} PROVE FALSE  OBVIOUS
  <2>0. T \subseteq Nat  OBVIOUS
  <2>1. PICK n \in T : \A y \in T : n <= y  BY <2>0, LeastExists
  <2>2. n # 0  BY <1>1
  <2>3. n - 1 \in 0..k /\ n - 1 \notin T  BY <2>1, <2>2
  <2> QED BY <1>1, <2>1, <2>2, <2>3
<1> QED BY <1>1, <1>2

\* Two tables agree where both are defined.
LEMMA PowersAgree ==
  ASSUME NEW k \in Nat, NEW l \in Nat, k <= l, NEW f, PowersTo(f, k), NEW g, PowersTo(g, l)
  PROVE  \A n \in 0..k : f[n] = g[n]
<1> DEFINE T == {n \in 0..k : f[n] # g[n]}
<1> SUFFICES ASSUME T # {} PROVE FALSE  OBVIOUS
<1>0. T \subseteq Nat  OBVIOUS
<1>1. PICK n \in T : \A y \in T : n <= y  BY <1>0, LeastExists
<1>2. n # 0  BY PowersType
<1>3. n - 1 \in 0..k /\ n - 1 \notin T /\ n \in 1..k /\ n \in 1..l  BY <1>1, <1>2
<1>4. f[n] = 2 * f[n - 1] /\ g[n] = 2 * g[n - 1]  BY <1>3, PowersType
<1> QED BY <1>1, <1>3, <1>4

LEMMA PowerIs ==
  /\ Power[0] = 1
  /\ \A n \in Nat : Power[n] \in Nat /\ Power[n + 1] = 2 * Power[n]
<1> DEFINE table(k) == CHOOSE f : PowersTo(f, k)
           h == [n \in Nat |-> table(n)[n]]
<1>1. \A k \in Nat : PowersTo(table(k), k)  BY PowersExist
<1> HIDE DEF table
<1>2. h[0] = 1
  <2>1. PowersTo(table(0), 0) /\ 0 \in Nat  BY <1>1
  <2>2. table(0)[0] = 1  BY <2>1, PowersType
  <2> QED BY <2>2
<1>3. \A n \in Nat : h[n] \in Nat /\ h[n + 1] = 2 * h[n]
  <2> TAKE n \in Nat
  <2> DEFINE f == table(n)
             g == table(n + 1)
  <2>1. PowersTo(f, n) /\ PowersTo(g, n + 1) /\ n + 1 \in Nat /\ n <= n + 1  BY <1>1
  <2> HIDE DEF f, g
  <2>2. n \in 0..n /\ n + 1 \in 1..(n + 1) /\ (n + 1) - 1 = n  OBVIOUS
  <2>3. f[n] \in Nat  BY <2>1, <2>2, PowersType
  <2>4. g[n + 1] = 2 * g[n]
    <3>1. g[n + 1] = 2 * g[(n + 1) - 1]  BY <2>1, <2>2, PowersType
    <3> QED BY <3>1, <2>2
  <2>5. f[n] = g[n]  BY <2>1, <2>2, PowersAgree
  <2>6. h[n] = f[n] /\ h[n + 1] = g[n + 1]  BY DEF f, g
  <2> QED BY <2>3, <2>4, <2>5, <2>6
<1>4. h = [n \in Nat |-> IF n = 0 THEN 1 ELSE 2 * h[n - 1]]
  <2>1. \A n \in Nat : h[n] = IF n = 0 THEN 1 ELSE 2 * h[n - 1]
    <3> TAKE n \in Nat
    <3> HIDE DEF h
    <3>1. CASE n = 0  BY <3>1, <1>2
    <3>2. CASE n # 0
      <4>1. n - 1 \in Nat /\ (n - 1) + 1 = n  BY <3>2
      <4>2. h[(n - 1) + 1] = 2 * h[n - 1]  BY <4>1, <1>3
      <4> QED BY <3>2, <4>1, <4>2
    <3> QED BY <3>1, <3>2
  <2> QED BY <2>1
<1> HIDE DEF h
<1>5. \E f : f = [n \in Nat |-> IF n = 0 THEN 1 ELSE 2 * f[n - 1]]  BY <1>4
<1>6. Power = [n \in Nat |-> IF n = 0 THEN 1 ELSE 2 * Power[n - 1]]
  BY <1>5 DEF Power
<1>7. \A n \in Nat : Power[n] = IF n = 0 THEN 1 ELSE 2 * Power[n - 1]  BY <1>6
<1>8. Power[0] = 1  BY <1>7
<1>9. \A n \in Nat : Power[n + 1] = 2 * Power[n]
  <2> TAKE n \in Nat
  <2>1. n + 1 \in Nat /\ n + 1 # 0 /\ (n + 1) - 1 = n  OBVIOUS
  <2>2. Power[n + 1] = 2 * Power[(n + 1) - 1]  BY <2>1, <1>7
  <2> QED BY <2>1, <2>2
<1>10. \A n \in Nat : Power[n] \in Nat
  <2> DEFINE T == {n \in Nat : Power[n] \notin Nat}
  <2> SUFFICES ASSUME T # {} PROVE FALSE  OBVIOUS
  <2>0. T \subseteq Nat  OBVIOUS
  <2>1. PICK n \in T : \A y \in T : n <= y  BY <2>0, LeastExists
  <2>2. n # 0  BY <1>8
  <2>3. n - 1 \in Nat /\ n - 1 \notin T  BY <2>1, <2>2
  <2>4. Power[n - 1] \in Nat /\ Power[n] = 2 * Power[n - 1]  BY <2>2, <2>3, <1>7
  <2> QED BY <2>1, <2>4
<1> QED BY <1>8, <1>9, <1>10

-----------------------------------------------------------------------------
(* Doublings left *)

Reaches(r, n) == r * Power[n] >= Limit

LEMMA ReachesFacts ==
  ASSUME NEW r \in Nat
  PROVE  /\ Reaches(r, 0) <=> r >= Limit
         /\ \A n \in Nat : Reaches(2 * r, n) <=> Reaches(r, n + 1)
<1>1. r * 1 = r  OBVIOUS
<1>2. Reaches(r, 0) <=> r >= Limit  BY <1>1, PowerIs DEF Reaches
<1>3. ASSUME NEW n \in Nat PROVE (2 * r) * Power[n] = r * Power[n + 1]
  <2> DEFINE p == Power[n]
  <2>1. p \in Nat /\ Power[n + 1] = 2 * p  BY PowerIs
  <2> HIDE DEF p
  <2>2. (2 * r) * p = r * (2 * p)  BY <2>1
  <2> QED BY <2>1, <2>2 DEF p
<1> QED BY <1>2, <1>3 DEF Reaches

LEMMA TimesGrows ==
  ASSUME NEW r \in Nat, NEW s \in Nat, s <= r, NEW p \in Nat
  PROVE  s * p <= r * p
<1>1. PICK e \in Nat : r = s + e
  <2>1. r - s \in Nat /\ r = s + (r - s)  OBVIOUS
  <2> QED BY <2>1
<1>2. (s + e) * p = s * p + e * p  OBVIOUS
<1>3. e * p \in Nat  OBVIOUS
<1>4. s * p \in Nat  OBVIOUS
<1> DEFINE x == s * p
           y == e * p
           z == r * p
<1>5. z = x + y  BY <1>1, <1>2
<1> HIDE DEF x, y, z
<1>6. x <= z  BY <1>3, <1>4, <1>5 DEF x, y
<1> QED BY <1>6 DEF x, z

LEMMA LeftIs ==
  ASSUME NEW r \in Nat, r >= LeastRto
  PROVE  /\ Left(r) \in 0..Doublings /\ Reaches(r, Left(r))
         /\ \A m \in Nat : m < Left(r) => ~Reaches(r, m)
<1> DEFINE T == {n \in Nat : Reaches(r, n)}
<1>1. Doublings \in T
  <2> DEFINE p == Power[Doublings]
  <2>1. p \in Nat /\ LeastRto * p >= Limit /\ LeastRto \in Nat /\ Limit \in Nat
        /\ Doublings \in Nat
    BY PowerIs, TimesAssumption, DoublingsAssumption
  <2> HIDE DEF p
  <2>2. LeastRto * p <= r * p  BY <2>1, TimesGrows
  <2>3. r * p \in Nat /\ LeastRto * p \in Nat  BY <2>1
  <2> DEFINE x == LeastRto * p
             y == r * p
  <2>4. y >= Limit
    <3>1. x \in Nat /\ y \in Nat /\ x <= y /\ x >= Limit  BY <2>1, <2>2, <2>3
    <3> HIDE DEF x, y
    <3> QED BY <3>1, <2>1
  <2> QED BY <2>1, <2>4 DEF Reaches, p
<1>2. T \subseteq Nat  OBVIOUS
<1>3. PICK n \in T : \A y \in T : n <= y  BY <1>1, <1>2, LeastExists
<1>4. n \in Nat /\ Reaches(r, n) /\ \A m \in Nat : m < n => ~Reaches(r, m)
  BY <1>3
<1>5. n \in 0..Doublings  BY <1>1, <1>3, DoublingsAssumption
<1>6. \A m \in 0..(n - 1) : r * Power[m] < Limit
  <2> TAKE m \in 0..(n - 1)
  <2>1. m \in Nat /\ m < n  BY <1>4
  <2>2. ~Reaches(r, m)  BY <2>1, <1>4
  <2>3. Power[m] \in Nat /\ Limit \in Nat  BY <2>1, PowerIs, TimesAssumption
  <2> DEFINE x == r * Power[m]
  <2>4. x \in Nat  BY <2>3
  <2>5. ~(x >= Limit)  BY <2>2 DEF Reaches
  <2> HIDE DEF x
  <2>6. x < Limit  BY <2>3, <2>4, <2>5
  <2> QED BY <2>6 DEF x
<1>7. r * Power[n] >= Limit  BY <1>4 DEF Reaches
<1> DEFINE q == Left(r)
<1>8. /\ q \in 0..Doublings /\ r * Power[q] >= Limit
      /\ \A m \in 0..(q - 1) : r * Power[m] < Limit
  BY <1>5, <1>6, <1>7 DEF Left
<1> HIDE DEF q
<1>9. Reaches(r, q)  BY <1>8 DEF Reaches
<1>10. ASSUME NEW m \in Nat, m < q PROVE ~Reaches(r, m)
  <2>1. m \in 0..(q - 1)  BY <1>8, <1>10, DoublingsAssumption
  <2>2. r * Power[m] < Limit /\ Power[m] \in Nat /\ Limit \in Nat
    BY <2>1, <1>8, PowerIs, TimesAssumption
  <2> DEFINE x == r * Power[m]
  <2>3. x \in Nat /\ x < Limit  BY <2>2
  <2> HIDE DEF x
  <2>4. ~(x >= Limit)  BY <2>2, <2>3
  <2> QED BY <2>4 DEF Reaches, x
<1> QED BY <1>8, <1>9, <1>10 DEF q

\* What has those two properties is the number of doublings left.
LEMMA LeftUnique ==
  ASSUME NEW r \in Nat, r >= LeastRto, NEW n \in Nat, Reaches(r, n),
         \A m \in Nat : m < n => ~Reaches(r, m)
  PROVE  Left(r) = n
<1>1. /\ Left(r) \in Nat /\ Reaches(r, Left(r))
      /\ \A m \in Nat : m < Left(r) => ~Reaches(r, m)
  BY LeftIs, DoublingsAssumption
<1>2. ~(n < Left(r)) /\ ~(Left(r) < n)  BY <1>1
<1> QED BY <1>1, <1>2

LEMMA LeftAtLimit ==
  ASSUME NEW r \in Nat, r >= LeastRto
  PROVE  Left(r) = 0 <=> r >= Limit
<1>1. CASE r >= Limit
  <2>1. Reaches(r, 0)  BY <1>1, ReachesFacts
  <2>2. Left(r) = 0  BY <2>1, LeftUnique
  <2> QED BY <1>1, <2>2
<1>2. CASE ~(r >= Limit)
  <2>1. ~Reaches(r, 0)  BY <1>2, ReachesFacts
  <2>2. Reaches(r, Left(r))  BY LeftIs
  <2> QED BY <1>2, <2>1, <2>2
<1> QED BY <1>1, <1>2

LEMMA LeftOfDouble ==
  ASSUME NEW r \in Nat, r >= LeastRto, r < Limit
  PROVE  Left(r) >= 1 /\ Left(Smaller(2 * r, Ceiling)) = Left(r) - 1
<1> DEFINE n == Left(r)
<1>1. /\ n \in Nat /\ Reaches(r, n) /\ \A m \in Nat : m < n => ~Reaches(r, m)
  BY LeftIs, DoublingsAssumption
<1>2. n # 0  BY LeftAtLimit, TimesAssumption
<1> HIDE DEF n
<1>3. n - 1 \in Nat /\ (n - 1) + 1 = n  BY <1>1, <1>2
<1>4. 2 * r \in Nat /\ 2 * r >= LeastRto  BY TimesAssumption
<1>5. Reaches(2 * r, n - 1)  BY <1>1, <1>3, ReachesFacts
<1>6. \A m \in Nat : m < n - 1 => ~Reaches(2 * r, m)
  <2> TAKE m \in Nat
  <2> HAVE m < n - 1
  <2>1. m + 1 \in Nat /\ m + 1 < n  BY <1>1
  <2> QED BY <2>1, <1>1, ReachesFacts
<1>7. Left(2 * r) = n - 1  BY <1>3, <1>4, <1>5, <1>6, LeftUnique
<1>8. CASE 2 * r < Ceiling  BY <1>1, <1>2, <1>7, <1>8 DEF Smaller, n
<1>9. CASE ~(2 * r < Ceiling)
  <2>1. Smaller(2 * r, Ceiling) = Ceiling  BY <1>9 DEF Smaller
  <2>2. Ceiling \in Nat /\ Ceiling >= Limit /\ Ceiling >= LeastRto /\ 2 * r >= Limit
    BY <1>9, TimesAssumption
  <2>3. Left(Ceiling) = 0 /\ Left(2 * r) = 0  BY <1>4, <2>2, LeftAtLimit
  <2> QED BY <1>1, <1>2, <1>7, <2>1, <2>3 DEF n
<1> QED BY <1>8, <1>9

LEMMA LargerIs ==
  ASSUME NEW m \in Nat, NEW n \in Nat
  PROVE  /\ Larger(m, n) \in Nat /\ Larger(m, n) >= m /\ Larger(m, n) >= n
         /\ Larger(m, n) = m \/ Larger(m, n) = n
BY DEF Larger

-----------------------------------------------------------------------------
(* Quotients *)

\* The average of two times stays between them, however it is rounded.
LEMMA NearEighth ==
  ASSUME NEW x \in Nat, NEW y \in Nat, NEW z \in Near(7 * x + y, 8)
  PROVE  /\ z \in Nat /\ 8 * z + 7 >= 7 * x + y
         /\ z >= Smaller(x, y) /\ z <= Larger(x, y)
<1>1. z = (7 * x + y) \div 8 \/ z = (7 * x + y + 8 - 1) \div 8  BY DEF Near
<1>2. z \in Int /\ 8 * z >= 7 * x + y - 7 /\ 8 * z <= 7 * x + y + 7  BY <1>1
<1>3. x <= y => z >= x /\ z <= y  BY <1>2
<1>4. y <= x => z >= y /\ z <= x  BY <1>2
<1> QED BY <1>2, <1>3, <1>4 DEF Smaller, Larger

LEMMA NearQuarter ==
  ASSUME NEW x \in Nat, NEW y \in Nat, NEW z \in Near(3 * x + y, 4)
  PROVE  /\ z \in Nat /\ 4 * z + 3 >= 3 * x + y
         /\ z >= Smaller(x, y) /\ z <= Larger(x, y)
<1>1. z = (3 * x + y) \div 4 \/ z = (3 * x + y + 4 - 1) \div 4  BY DEF Near
<1>2. z \in Int /\ 4 * z >= 3 * x + y - 3 /\ 4 * z <= 3 * x + y + 3  BY <1>1
<1>3. x <= y => z >= x /\ z <= y  BY <1>2
<1>4. y <= x => z >= y /\ z <= x  BY <1>2
<1> QED BY <1>2, <1>3, <1>4 DEF Smaller, Larger

\* A new estimate: what Refresh makes of one measured round trip
LEMMA RefreshFacts ==
  ASSUME NEW x \in Nat, NEW y \in Nat, NEW m \in Nat,
         NEW x2 \in Near(7 * x + m, 8), NEW y2 \in Near(3 * y + Abs(m - x), 4)
  PROVE  /\ x2 \in Nat /\ y2 \in Nat
         /\ x2 <= Larger(x, m) /\ y2 <= Larger(y, Larger(x, m))
         /\ x2 + 4 * y2 + 3 >= m
<1> DEFINE e == Abs(m - x)
<1>1. e \in Nat /\ (m >= x => e = m - x) /\ (x >= m => e = x - m)  BY DEF Abs
<1>2. y2 \in Near(3 * y + e, 4)  OBVIOUS
<1> HIDE DEF e
<1>3. /\ x2 \in Nat /\ 8 * x2 + 7 >= 7 * x + m
      /\ x2 >= Smaller(x, m) /\ x2 <= Larger(x, m)
  BY ONLY x \in Nat, m \in Nat, x2 \in Near(7 * x + m, 8), NearEighth
<1>4. y2 \in Nat /\ 4 * y2 + 3 >= 3 * y + e /\ y2 <= Larger(y, e)
  BY ONLY y \in Nat, <1>1, <1>2, NearQuarter
<1>5. y2 <= Larger(y, Larger(x, m))  BY <1>1, <1>4 DEF Larger
<1>6. CASE m >= x
  <2>1. 4 * y2 + 3 >= m - x /\ x2 >= x
    BY <1>1, <1>3, <1>4, <1>6 DEF Smaller
  <2> QED BY <1>3, <1>4, <1>5, <2>1
<1>7. CASE ~(m >= x)
  <2>1. x2 >= m  BY <1>3, <1>7 DEF Smaller
  <2> QED BY <1>3, <1>4, <1>5, <2>1
<1> QED BY <1>6, <1>7

-----------------------------------------------------------------------------
(* The inductive invariant *)

\* Each doubling that was made brought the limit one doubling nearer.
DoublingsAreLeft == doubled + Left(rto) <= Doublings

IInv == TypeOK /\ StaysInRange /\ CoversLastTrip /\ DoublingsAreLeft

LEMMA IInvInit == Init => IInv
<1> SUFFICES ASSUME Init PROVE IInv  OBVIOUS
<1>1. /\ a = 0 /\ d = FirstDev /\ rto = 2 * FirstDev
      /\ trip = 0 /\ longest = 0 /\ doubled = 0 /\ over = FALSE
  BY DEF Init
<1>2. rto \in Nat /\ rto >= LeastRto  BY <1>1, TimesAssumption
<1>3. TypeOK
  <2>1. doubled \in 0..Doublings  BY <1>1, DoublingsAssumption
  <2>2. d \in Nat  BY <1>1, TimesAssumption
  <2> QED BY <1>1, <1>2, <2>1, <2>2 DEF TypeOK
<1>4. StaysInRange  BY <1>1, TimesAssumption DEF StaysInRange, Bound, Larger
<1>5. CoversLastTrip  BY <1>1, TimesAssumption DEF CoversLastTrip, Smaller
<1>6. Left(rto) \in 0..Doublings  BY <1>2, LeftIs
<1>7. DoublingsAreLeft  BY <1>1, <1>6, DoublingsAssumption DEF DoublingsAreLeft
<1> QED BY <1>3, <1>4, <1>5, <1>7 DEF IInv

LEMMA IInvRefresh ==
  ASSUME IInv, NEW m \in Nat, Refresh(m)
  PROVE  IInv' /\ B!Measure
<1>1. PICK x \in Near(7 * a + m, 8), y \in Near(3 * d + Abs(m - a), 4) :
        /\ a' = x /\ d' = y /\ rto' = Larger(x + 4 * y, LeastRto) /\ trip' = m
        /\ longest' = Larger(longest, m) /\ doubled' = 0 /\ ~over /\ over' = over
  BY DEF Refresh, NewEstimate, NewDeviation, TimeoutOf
<1>2. a \in Nat /\ d \in Nat /\ longest \in Nat /\ over \in BOOLEAN  BY DEF IInv, TypeOK
<1>3. a <= longest /\ d <= Bound  BY DEF IInv, StaysInRange
<1>4. /\ x \in Nat /\ y \in Nat
      /\ x <= Larger(a, m) /\ y <= Larger(d, Larger(a, m))
      /\ x + 4 * y + 3 >= m
  BY ONLY <1>1, <1>2, m \in Nat, RefreshFacts
<1>5. LeastRto \in Nat /\ Ceiling \in Nat /\ FirstDev \in Nat  BY TimesAssumption
<1> DEFINE r == Larger(x + 4 * y, LeastRto)
           l == Larger(longest, m)
           b == Larger(FirstDev, l)
           c == Larger(LeastRto, l + 4 * b)
<1>6. l \in Nat /\ l >= longest /\ l >= m  BY <1>2, LargerIs
<1> HIDE DEF l
<1>7. b \in Nat /\ b >= FirstDev /\ b >= l  BY <1>5, <1>6, LargerIs
<1> HIDE DEF b
<1>8. /\ r \in Nat /\ r >= LeastRto /\ r >= x + 4 * y
      /\ r = LeastRto \/ r = x + 4 * y
  <2>1. x + 4 * y \in Nat  BY <1>4
  <2> QED BY <1>5, <2>1, LargerIs
<1> HIDE DEF r
<1>9. x <= l /\ y <= b
  <2>1. Larger(a, m) \in Nat /\ Larger(a, m) <= l
    <3>1. /\ Larger(a, m) \in Nat
          /\ Larger(a, m) = a \/ Larger(a, m) = m
      BY <1>2, LargerIs
    <3> QED BY <1>2, <1>3, <1>6, <3>1
  <2>2. Bound \in Nat /\ (Bound = FirstDev \/ Bound = longest)
    BY <1>2, <1>5, LargerIs DEF Bound
  <2>3. d <= b  BY <1>2, <1>3, <1>5, <1>6, <1>7, <2>2
  <2>4. Larger(d, Larger(a, m)) \in Nat /\ Larger(d, Larger(a, m)) <= b
    <3> DEFINE k == Larger(a, m)
    <3>1. k \in Nat /\ k <= b  BY <1>6, <1>7, <2>1
    <3> HIDE DEF k
    <3>2. /\ Larger(d, k) \in Nat
          /\ Larger(d, k) = d \/ Larger(d, k) = k
      BY <1>2, <3>1, LargerIs
    <3>3. Larger(d, k) \in Nat /\ Larger(d, k) <= b  BY <1>2, <1>7, <2>3, <3>1, <3>2
    <3> QED BY <3>3 DEF k
  <2> QED BY <1>4, <1>6, <1>7, <2>1, <2>4
<1>10. r <= Larger(Ceiling, c)
  <2>1. l + 4 * b \in Nat /\ x + 4 * y <= l + 4 * b  BY <1>4, <1>6, <1>7, <1>9
  <2>2. c \in Nat /\ c >= LeastRto /\ c >= l + 4 * b  BY <1>5, <2>1, LargerIs
  <2> HIDE DEF c
  <2>3. r <= c  BY <1>4, <1>5, <1>6, <1>7, <1>8, <2>1, <2>2
  <2>4. Larger(Ceiling, c) \in Nat /\ Larger(Ceiling, c) >= c  BY <1>5, <2>2, LargerIs
  <2> QED BY <1>8, <2>2, <2>3, <2>4
<1>11. r + 3 >= Smaller(m, Ceiling)
  <2>1. r + 3 >= m  BY <1>4, <1>8
  <2> QED BY <1>5, <1>8, <2>1 DEF Smaller
<1>12. rto' = r /\ longest' = l /\ Bound' = b  BY <1>1 DEF r, l, b, Bound
<1>13. TypeOK'
  <2>1. 0 \in 0..Doublings  BY DoublingsAssumption
  <2> QED BY <1>1, <1>2, <1>4, <1>6, <1>8, <1>12, <2>1 DEF TypeOK
<1>14. StaysInRange'  BY <1>1, <1>9, <1>10, <1>12 DEF StaysInRange
<1>15. CoversLastTrip'  BY <1>1, <1>11, <1>12 DEF CoversLastTrip
<1>16. Left(rto') \in 0..Doublings  BY <1>8, <1>12, LeftIs
<1>17. DoublingsAreLeft'
  <2>1. 0 + Left(r) <= Doublings  BY <1>12, <1>16, DoublingsAssumption
  <2> QED BY <1>1, <1>12, <2>1 DEF DoublingsAreLeft
<1> QED BY <1>1, <1>13, <1>14, <1>15, <1>16, <1>17 DEF IInv, B!Measure

LEMMA IInvTimeoutOccur ==
  ASSUME IInv, ~over, TimeoutOccur
  PROVE  IInv' /\ (IF rto < Limit THEN B!Double ELSE UNCHANGED <<Left(rto), doubled, over>>)
<1> DEFINE r == Smaller(2 * rto, Ceiling)
<1>1. /\ rto' = r /\ a' = a /\ d' = d /\ trip' = trip
      /\ longest' = longest /\ over' = over
      /\ doubled' = IF rto < Limit THEN doubled + 1 ELSE doubled
  BY DEF TimeoutOccur, Doubled
<1>2. /\ a \in Nat /\ d \in Nat /\ rto \in Nat /\ rto >= LeastRto
      /\ trip \in Nat /\ longest \in Nat /\ doubled \in 0..Doublings /\ over \in BOOLEAN
  BY DEF IInv, TypeOK
<1>3. LeastRto \in Nat /\ Limit \in Nat /\ Ceiling \in Nat /\ FirstDev \in Nat
      /\ Limit <= Ceiling /\ LeastRto <= Ceiling /\ Doublings \in Nat
  BY TimesAssumption, DoublingsAssumption
<1>4. /\ r \in Nat /\ r >= LeastRto /\ r <= Ceiling
      /\ r = Ceiling \/ r >= rto
  BY <1>2, <1>3 DEF Smaller
<1>5. rto < Limit => Left(rto) >= 1 /\ Left(r) = Left(rto) - 1
  BY <1>2, LeftOfDouble
<1> HIDE DEF r
<1>6. StaysInRange'
  <2>1. Bound' = Bound /\ Bound \in Nat  BY <1>1, <1>2, <1>3, LargerIs DEF Bound
  <2>2. a <= longest /\ d <= Bound  BY DEF IInv, StaysInRange
  <2> DEFINE c == Larger(LeastRto, longest + 4 * Bound)
  <2>3. longest + 4 * Bound \in Nat  BY <1>2, <2>1
  <2>4. c \in Nat  BY <1>3, <2>3, LargerIs
  <2> HIDE DEF c
  <2>5. Larger(Ceiling, c) \in Nat /\ Larger(Ceiling, c) >= Ceiling
    BY <1>3, <2>4, LargerIs
  <2>6. r <= Larger(Ceiling, c)  BY <1>3, <1>4, <2>5
  <2> QED BY <1>1, <2>1, <2>2, <2>6 DEF StaysInRange, c
<1>7. CoversLastTrip'
  <2>1. rto + 3 >= Smaller(trip, Ceiling)  BY DEF IInv, CoversLastTrip
  <2>2. r + 3 >= Smaller(trip, Ceiling)  BY <1>2, <1>3, <1>4, <2>1 DEF Smaller
  <2> QED BY <1>1, <2>2 DEF CoversLastTrip
<1>8. doubled + Left(rto) <= Doublings  BY DEF IInv, DoublingsAreLeft
<1>9. Left(rto) \in 0..Doublings  BY <1>2, LeftIs
<1>10. CASE rto < Limit
  <2>1. doubled' = doubled + 1 /\ Left(rto') = Left(rto) - 1 /\ Left(rto) >= 1
    BY <1>1, <1>5, <1>10
  <2>2. doubled + 1 \in 0..Doublings /\ (doubled + 1) + (Left(rto) - 1) <= Doublings
    BY <1>2, <1>3, <1>8, <1>9, <2>1
  <2>3. TypeOK'  BY <1>1, <1>2, <1>4, <2>1, <2>2 DEF TypeOK
  <2>4. DoublingsAreLeft'  BY <2>1, <2>2 DEF DoublingsAreLeft
  <2>5. Left(rto) > 0  BY <1>3, <1>9, <2>1
  <2>6. B!Double  BY <1>1, <2>1, <2>5 DEF B!Double
  <2> QED BY <1>6, <1>7, <1>10, <2>3, <2>4, <2>6 DEF IInv
<1>11. CASE ~(rto < Limit)
  <2>1. rto >= Limit /\ r >= Limit  BY <1>2, <1>3, <1>4, <1>11
  <2>2. Left(rto) = 0 /\ Left(rto') = 0  BY <1>1, <1>2, <1>4, <2>1, LeftAtLimit
  <2>3. doubled' = doubled  BY <1>1, <1>11
  <2>4. TypeOK'  BY <1>1, <1>2, <1>4, <2>3 DEF TypeOK
  <2>5. DoublingsAreLeft'  BY <1>8, <2>2, <2>3 DEF DoublingsAreLeft
  <2> QED BY <1>1, <1>6, <1>7, <1>11, <2>2, <2>3, <2>4, <2>5 DEF IInv
<1> QED BY <1>10, <1>11

LEMMA IInvGiveUp ==
  ASSUME IInv, GiveUp
  PROVE  IInv' /\ B!Stop
<1>1. /\ ~over /\ rto >= Limit /\ over' = TRUE /\ a' = a /\ d' = d /\ rto' = rto
      /\ trip' = trip /\ longest' = longest /\ doubled' = doubled
  BY DEF GiveUp
<1>2. IInv'
  <2>1. TypeOK'  BY <1>1 DEF IInv, TypeOK
  <2>2. StaysInRange'  BY <1>1 DEF IInv, StaysInRange, Bound
  <2>3. CoversLastTrip'  BY <1>1 DEF IInv, CoversLastTrip
  <2>4. DoublingsAreLeft'  BY <1>1 DEF IInv, DoublingsAreLeft
  <2> QED BY <2>1, <2>2, <2>3, <2>4 DEF IInv
<1>3. Left(rto) = 0  BY <1>1, LeftAtLimit DEF IInv, TypeOK
<1> QED BY <1>1, <1>2, <1>3 DEF B!Stop

\* Every step keeps the invariant and is a step of Backoff or none.
LEMMA IInvNext ==
  ASSUME IInv, [Next]_vars
  PROVE  IInv' /\ [B!Next]_(B!vars)
<1>1. CASE Measure
  <2>1. PICK m \in Samples : Refresh(IF m = 0 THEN RttMin ELSE m)  BY <1>1 DEF Measure
  <2> DEFINE t == IF m = 0 THEN RttMin ELSE m
  <2>2. t \in Nat /\ Refresh(t)  BY <2>1, SamplesAssumption, TimesAssumption
  <2> HIDE DEF t
  <2>3. IInv' /\ B!Measure  BY <2>2, IInvRefresh
  <2> QED BY <2>3 DEF B!Next
<1>2. CASE Timeout
  <2>1. ~over /\ rto < Limit /\ TimeoutOccur  BY <1>2 DEF Timeout
  <2>2. IInv' /\ B!Double  BY <2>1, IInvTimeoutOccur
  <2> QED BY <2>2 DEF B!Next
<1>3. CASE GiveUp
  <2>1. IInv' /\ B!Stop  BY <1>3, IInvGiveUp
  <2> QED BY <2>1 DEF B!Next
<1>4. CASE FastRetransmit
  <2>1. ~over /\ TimeoutOccur  BY <1>4 DEF FastRetransmit
  <2>2. IInv' /\ IF rto < Limit THEN B!Double ELSE UNCHANGED <<Left(rto), doubled, over>>
    BY <2>1, IInvTimeoutOccur
  <2>3. CASE rto < Limit  BY <2>2, <2>3 DEF B!Next
  <2>4. CASE ~(rto < Limit)  BY <2>2, <2>4 DEF B!vars
  <2> QED BY <2>3, <2>4
<1>5. CASE UNCHANGED vars
  <2>1. /\ a' = a /\ d' = d /\ rto' = rto /\ trip' = trip /\ longest' = longest
        /\ doubled' = doubled /\ over' = over
    BY <1>5 DEF vars
  <2>2. TypeOK' /\ StaysInRange' /\ CoversLastTrip' /\ DoublingsAreLeft'
    BY <2>1 DEF IInv, TypeOK, StaysInRange, Bound, CoversLastTrip, DoublingsAreLeft
  <2>3. UNCHANGED B!vars  BY <2>1 DEF B!vars
  <2> QED BY <2>2, <2>3 DEF IInv
<1> QED BY <1>1, <1>2, <1>3, <1>4, <1>5 DEF Next

LEMMA IInvAlways == Spec => []IInv
<1>1. IInv /\ [Next]_vars => IInv'  BY IInvNext
<1> QED BY IInvInit, <1>1, PTL DEF Spec

-----------------------------------------------------------------------------
(* Theorems *)

\* rtocomputer.c: the estimates are times, the timeout is never shorter than 16 ms, and
\* after a measured round trip it is doubled below the limit a bounded number of times
\* (ump_handle_data_timeout, ump_handle_data_ack).
THEOREM EstimateTypeCorrect == Spec => []TypeOK
<1>1. IInv => TypeOK  BY DEF IInv
<1> QED BY IInvAlways, <1>1, PTL

\* rto_refresh_rtt, rto_timeout_occur: whatever is measured and however quotients are
\* rounded, the timeout is not shorter than the round trip measured last, and the
\* slowest one measured bounds it.
THEOREM TimeoutAlwaysFits == Spec => []TimeoutFits
<1>1. IInv => TimeoutFits  BY DEF IInv, TimeoutFits
<1> QED BY IInvAlways, <1>1, PTL

\* ump_handle_data_timeout, ump_handle_data_ack: the timeout is Backoff's count of
\* doublings; a connection is given up where none is left.
THEOREM EstimateImplementsBackoff == Spec => ImplementsBackoff
<1>1. Init => B!Init
  <2> SUFFICES ASSUME Init PROVE B!Init  OBVIOUS
  <2>1. rto \in Nat /\ rto >= LeastRto  BY IInvInit DEF IInv, TypeOK
  <2>2. Left(rto) \in 0..Doublings  BY <2>1, LeftIs
  <2> QED BY <2>2 DEF Init, B!Init
<1>2. IInv /\ [Next]_vars => [B!Next]_(B!vars)  BY IInvNext
<1> QED BY IInvAlways, <1>1, <1>2, PTL DEF Spec, ImplementsBackoff, B!Spec

=============================================================================
