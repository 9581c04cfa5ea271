---------------------------- MODULE UPacketProofs ---------------------------
(***************************************************************************)
(* What is written into a datagram is read from it, and a damaged byte is  *)
(* seen, for packets with data of any length.                              *)
(***************************************************************************)
EXTENDS UPacket, SequenceTheorems, WellFoundedInduction, TLAPS

-----------------------------------------------------------------------------
(* The sum over a body *)

LEMMA LeastExists ==
  ASSUME NEW T, T \subseteq Nat, T # {}
  PROVE  \E x \in T : \A y \in T : x <= y
<1>1. IsWellFoundedOn(OpToRel(<, Nat), Nat)  BY NatLessThanWellFounded
<1>2. PICK x \in T : \A y \in T : ~(<<y, x>> \in OpToRel(<, Nat))
  BY <1>1, WFMin
<1>3. \A y \in T : ~(y < x)  BY <1>2 DEF OpToRel
<1> QED BY <1>3

LEMMA ByteIsInt == \A b \in Byte : b \in Int
BY DEF Byte

\* What the n-th byte adds, and the table of the sums of the first n bytes for n up
\* to k
Term(body, n) == IF n % 2 = 1 THEN body[n] ELSE 256 * body[n]
SumsOf(f, body, k) ==
  f = [n \in 0..k |-> IF n = 0 THEN 0 ELSE f[n - 1] + Term(body, n)]

LEMMA TermType ==
  ASSUME NEW body \in Seq(Byte), NEW n \in 1..Len(body)
  PROVE  Term(body, n) \in Int
<1>1. body[n] \in Byte  OBVIOUS
<1>2. body[n] \in Int  BY <1>1, ByteIsInt
<1> QED BY <1>2 DEF Term

LEMMA SumsExist ==
  ASSUME NEW body
  PROVE  \A k \in Nat : \E f : SumsOf(f, body, k)
<1> DEFINE T == {k \in Nat : ~ \E f : SumsOf(f, body, k)}
<1> SUFFICES ASSUME T # {} PROVE FALSE  OBVIOUS
<1>1. PICK k \in T : \A y \in T : k <= y  BY LeastExists
<1>2. k # 0
  <2> DEFINE g == [i \in 0..0 |-> 0]
  <2>1. g = [n \in 0..0 |-> IF n = 0 THEN 0 ELSE g[n - 1] + Term(body, n)]  OBVIOUS
  <2>2. SumsOf(g, body, 0)  BY <2>1 DEF SumsOf
  <2> QED BY <2>2
<1>3. k - 1 \in Nat /\ k - 1 \notin T  BY <1>1, <1>2
<1>4. PICK f : SumsOf(f, body, k - 1)  BY <1>3
<1> DEFINE h == [n \in 0..k |-> IF n = k THEN f[k - 1] + Term(body, k) ELSE f[n]]
<1>5. \A n \in 0..(k - 1) : f[n] = IF n = 0 THEN 0 ELSE f[n - 1] + Term(body, n)
  BY <1>4 DEF SumsOf
<1>6. \A n \in 0..k : h[n] = IF n = 0 THEN 0 ELSE h[n - 1] + Term(body, n)
  <2> TAKE n \in 0..k
  <2>1. CASE n = k  BY <2>1, <1>2, <1>3
  <2>2. CASE n # k  BY <2>2, <1>5
  <2> QED BY <2>1, <2>2
<1>7. SumsOf(h, body, k)  BY <1>6 DEF SumsOf
<1> QED BY <1>7

LEMMA SumsType ==
  ASSUME NEW body \in Seq(Byte), NEW f, SumsOf(f, body, Len(body))
  PROVE  /\ f[0] = 0
         /\ \A n \in 1..Len(body) : f[n] = f[n - 1] + Term(body, n)
         /\ \A n \in 0..Len(body) : f[n] \in Int
<1>1. f[0] = 0 /\ \A n \in 1..Len(body) : f[n] = f[n - 1] + Term(body, n)
  BY DEF SumsOf
<1>2. \A n \in 0..Len(body) : f[n] \in Int
  <2> DEFINE T == {n \in 0..Len(body) : f[n] \notin Int}
  <2> SUFFICES ASSUME T # {} PROVE FALSE  OBVIOUS
  <2>0. T \subseteq Nat  OBVIOUS
  <2>1. PICK n \in T : \A y \in T : n <= y  BY <2>0, LeastExists
  <2>2. n # 0  BY <1>1
  <2>3. n - 1 \in 0..Len(body) /\ n - 1 \notin T  BY <2>1, <2>2
  <2> QED BY <1>1, <2>1, <2>2, <2>3, TermType
<1> QED BY <1>1, <1>2

LEMMA BodySumIs ==
  ASSUME NEW body \in Seq(Byte)
  PROVE  \E f : /\ BodySum(body) = f[Len(body)]
                /\ f[0] = 0
                /\ \A n \in 1..Len(body) : f[n] = f[n - 1] + Term(body, n)
                /\ \A n \in 0..Len(body) : f[n] \in Int
<1> DEFINE f == CHOOSE f : f = [n \in 0..Len(body) |->
                  IF n = 0 THEN 0
                  ELSE f[n - 1] + (IF n % 2 = 1 THEN body[n] ELSE 256 * body[n])]
<1>0. Len(body) \in Nat  OBVIOUS
<1>1. \E g : SumsOf(g, body, Len(body))  BY <1>0, SumsExist
<1>2. SumsOf(f, body, Len(body))
  <2>1. \E g : g = [n \in 0..Len(body) |->
                  IF n = 0 THEN 0
                  ELSE g[n - 1] + (IF n % 2 = 1 THEN body[n] ELSE 256 * body[n])]
    BY <1>1 DEF SumsOf, Term
  <2>2. f = [n \in 0..Len(body) |->
                  IF n = 0 THEN 0
                  ELSE f[n - 1] + (IF n % 2 = 1 THEN body[n] ELSE 256 * body[n])]
    BY <2>1
  <2> QED BY <2>2 DEF SumsOf, Term
<1>3. BodySum(body) = f[Len(body)]  BY DEF BodySum
<1> HIDE DEF f
<1> QED BY <1>2, <1>3, SumsType

LEMMA BodySumType == ASSUME NEW body \in Seq(Byte) PROVE BodySum(body) \in Int
<1>1. PICK f : BodySum(body) = f[Len(body)] /\ \A n \in 0..Len(body) : f[n] \in Int
  BY BodySumIs
<1>2. Len(body) \in 0..Len(body)  OBVIOUS
<1> QED BY <1>1, <1>2

\* A byte that changes changes the sum by its weight.
LEMMA BodySumChanges ==
  ASSUME NEW body \in Seq(Byte), NEW i \in 1..Len(body), NEW b \in Byte
  PROVE  BodySum([body EXCEPT ![i] = b]) =
           BodySum(body) + (IF i % 2 = 1 THEN b - body[i] ELSE 256 * (b - body[i]))
<1> DEFINE other == [body EXCEPT ![i] = b]
           d == IF i % 2 = 1 THEN b - body[i] ELSE 256 * (b - body[i])
<1>1. other \in Seq(Byte) /\ Len(other) = Len(body)
      /\ other[i] = b /\ \A n \in 1..Len(body) : n # i => other[n] = body[n]
  OBVIOUS
<1> HIDE DEF other
<1>2. body[i] \in Int /\ b \in Int /\ d \in Int
  <2>1. body[i] \in Byte /\ b \in Byte  OBVIOUS
  <2> QED BY <2>1, ByteIsInt
<1>3. Term(other, i) = Term(body, i) + d  BY <1>1, <1>2 DEF Term
<1>4. \A n \in 1..Len(body) : n # i => Term(other, n) = Term(body, n)
  BY <1>1 DEF Term
<1> HIDE DEF d
<1>5. PICK f : /\ BodySum(body) = f[Len(body)]
               /\ f[0] = 0
               /\ \A n \in 1..Len(body) : f[n] = f[n - 1] + Term(body, n)
               /\ \A n \in 0..Len(body) : f[n] \in Int
  BY BodySumIs
<1>6. PICK g : /\ BodySum(other) = g[Len(body)]
               /\ g[0] = 0
               /\ \A n \in 1..Len(body) : g[n] = g[n - 1] + Term(other, n)
               /\ \A n \in 0..Len(body) : g[n] \in Int
  BY <1>1, BodySumIs
<1>7. \A n \in 0..Len(body) : g[n] = IF n < i THEN f[n] ELSE f[n] + d
  <2> DEFINE T == {n \in 0..Len(body) : g[n] # IF n < i THEN f[n] ELSE f[n] + d}
  <2> SUFFICES ASSUME T # {} PROVE FALSE  OBVIOUS
  <2>0. T \subseteq Nat  OBVIOUS
  <2>1. PICK n \in T : \A y \in T : n <= y  BY <2>0, LeastExists
  <2>2. n # 0  BY <1>5, <1>6
  <2>3. n - 1 \in 0..Len(body) /\ n - 1 \notin T /\ n \in 1..Len(body)  BY <2>1, <2>2
  <2>4. g[n - 1] = IF n - 1 < i THEN f[n - 1] ELSE f[n - 1] + d  BY <2>3
  <2>5. g[n] = g[n - 1] + Term(other, n) /\ f[n] = f[n - 1] + Term(body, n)
    BY <1>5, <1>6, <2>3
  <2>6. Term(body, n) \in Int /\ Term(body, i) \in Int /\ f[n - 1] \in Int
    BY TermType, <2>3, <1>5
  <2>7. CASE n < i  BY <2>7, <2>1, <2>3, <2>4, <2>5, <1>4
  <2>8. CASE n = i  BY <2>8, <2>1, <2>3, <2>4, <2>5, <2>6, <1>2, <1>3
  <2>9. CASE n > i
    <3>1. Term(other, n) = Term(body, n) /\ g[n - 1] = f[n - 1] + d  BY <2>9, <2>3, <2>4, <1>4
    <3>2. g[n] = f[n] + d  BY <3>1, <2>5, <2>6, <1>2
    <3> QED BY <3>2, <2>9, <2>1
  <2> QED BY <2>7, <2>8, <2>9, <2>3
<1>8. ~(Len(body) < i) /\ Len(body) \in 0..Len(body)  OBVIOUS
<1> QED BY <1>5, <1>6, <1>7, <1>8 DEF other, d

-----------------------------------------------------------------------------
(* Numbers and flag bytes *)

LEMMA QuotientIs ==
  ASSUME NEW n \in Nat \ {0}, NEW m \in Int, NEW x \in Int, n * m <= x, x < n * m + n
  PROVE  x \div n = m
<1>1. /\ x \div n \in Int /\ x % n \in Int /\ 0 <= x % n /\ x % n < n
      /\ x = n * (x \div n) + (x % n)
  OBVIOUS
<1> DEFINE q == x \div n
<1> SUFFICES q = m  OBVIOUS
<1>2. q \in Int /\ n * q <= x /\ x < n * q + n  BY <1>1
<1> HIDE DEF q
<1>3. n * q < n * (m + 1) /\ n * m < n * (q + 1)  BY <1>2
<1>4. q < m + 1 /\ m < q + 1  BY <1>2, <1>3
<1> QED BY <1>2, <1>4

LEMMA LastBitIs ==
  ASSUME NEW q \in Int, NEW c \in Int, 0 <= c, c <= 1
  PROVE  (2 * q + c) % 2 = c
OBVIOUS

LEMMA WordFacts ==
  ASSUME NEW n \in Word16
  PROVE  /\ WordOf(n) \in Seq(Byte) /\ Len(WordOf(n)) = 2
         /\ NumberOf(WordOf(n)[1], WordOf(n)[2]) = n
<1> DEFINE q == n \div 256
           r == n % 256
<1>1. n \in Nat /\ n < 65536  BY DEF Word16
<1>2. q \in Nat /\ q < 256 /\ r \in Nat /\ r < 256 /\ q * 256 + r = n  BY <1>1
<1> HIDE DEF q, r
<1>3. q \in Byte /\ r \in Byte  BY <1>2 DEF Byte
<1>4. WordOf(n) = <<q, r>>  BY DEF WordOf, q, r
<1>5. <<q, r>> \in Seq(Byte) /\ Len(<<q, r>>) = 2 /\ <<q, r>>[1] = q /\ <<q, r>>[2] = r
  BY <1>3
<1> QED BY <1>2, <1>4, <1>5 DEF NumberOf

LEMMA NumberIsWord ==
  ASSUME NEW high \in Byte, NEW low \in Byte
  PROVE  NumberOf(high, low) \in Word16
BY DEF Byte, NumberOf, Word16

LEMMA CtrlBytes ==
  ASSUME NEW flags, flags \subseteq CtrlFlags,
         NEW x, x = CtrlByte1(flags), NEW y, y = CtrlByte2(flags)
  PROVE  /\ x \in Byte /\ y \in Byte
         /\ x \div 64 = 1 /\ (x \div 32) % 2 = 0
         /\ Unpack(CtrlBits1, x) \union Unpack(CtrlBits2, y) = flags
<1> DEFINE one(f) == IF f \in flags THEN 1 ELSE 0
<1>1. x = 64 + 8 * one("SYN") + 4 * one("FIN") + 2 * one("RST")
  BY DEF CtrlByte1, Bit, CtrlBits1, UmpVer
<1>2. y = 128 * one("SEQ") + 64 * one("ACK") + 32 * one("MSS") + 16 * one("WND")
  BY DEF CtrlByte2, Bit, CtrlBits2
<1>3. /\ one("SYN") \in Nat /\ one("SYN") <= 1
      /\ one("FIN") \in Nat /\ one("FIN") <= 1
      /\ one("RST") \in Nat /\ one("RST") <= 1
      /\ one("SEQ") \in Nat /\ one("SEQ") <= 1
      /\ one("ACK") \in Nat /\ one("ACK") <= 1
      /\ one("MSS") \in Nat /\ one("MSS") <= 1
      /\ one("WND") \in Nat /\ one("WND") <= 1
  OBVIOUS
<1>4. \A f : one(f) = 1 <=> f \in flags  OBVIOUS
<1> HIDE DEF one
<1>5. /\ x \in Byte /\ x \div 64 = 1 /\ (x \div 32) % 2 = 0
      /\ (x \div 8) % 2 = one("SYN") /\ (x \div 4) % 2 = one("FIN")
      /\ (x \div 2) % 2 = one("RST")
  <2>1. (x \div 8) % 2 = one("SYN")
    <3> DEFINE q == 4
               m == 2 * q + one("SYN")
    <3>1. q \in Int /\ m \in Int /\ m = 2 * q + one("SYN")
          /\ 8 * m <= x /\ x < 8 * m + 8 /\ x \in Int
      BY <1>1, <1>3
    <3> HIDE DEF q, m
    <3>2. x \div 8 = m  BY <3>1, QuotientIs
    <3>3. m % 2 = one("SYN")  BY <3>1, <1>3, LastBitIs
    <3> QED BY <3>2, <3>3
  <2>2. (x \div 4) % 2 = one("FIN")
    <3> DEFINE q == 8 + one("SYN")
               m == 2 * q + one("FIN")
    <3>1. q \in Int /\ m \in Int /\ m = 2 * q + one("FIN")
          /\ 4 * m <= x /\ x < 4 * m + 4 /\ x \in Int
      BY <1>1, <1>3
    <3> HIDE DEF q, m
    <3>2. x \div 4 = m  BY <3>1, QuotientIs
    <3>3. m % 2 = one("FIN")  BY <3>1, <1>3, LastBitIs
    <3> QED BY <3>2, <3>3
  <2>3. (x \div 2) % 2 = one("RST")
    <3> DEFINE q == 16 + 2 * one("SYN") + one("FIN")
               m == 2 * q + one("RST")
    <3>1. q \in Int /\ m \in Int /\ m = 2 * q + one("RST")
          /\ 2 * m <= x /\ x < 2 * m + 2 /\ x \in Int
      BY <1>1, <1>3
    <3> HIDE DEF q, m
    <3>2. x \div 2 = m  BY <3>1, QuotientIs
    <3>3. m % 2 = one("RST")  BY <3>1, <1>3, LastBitIs
    <3> QED BY <3>2, <3>3
  <2>4. x \in Int /\ 64 <= x /\ x <= 78  BY <1>1, <1>3
  <2>5. x \div 64 = 1 /\ x \div 32 = 2 /\ 2 % 2 = 0  BY <2>4
  <2> QED BY <2>1, <2>2, <2>3, <2>4, <2>5 DEF Byte
<1>6. /\ y \in Byte
      /\ (y \div 128) % 2 = one("SEQ") /\ (y \div 64) % 2 = one("ACK")
      /\ (y \div 32) % 2 = one("MSS") /\ (y \div 16) % 2 = one("WND")
  <2>1. (y \div 128) % 2 = one("SEQ")
    <3> DEFINE q == 0
               m == 2 * q + one("SEQ")
    <3>1. q \in Int /\ m \in Int /\ m = 2 * q + one("SEQ")
          /\ 128 * m <= y /\ y < 128 * m + 128 /\ y \in Int
      BY <1>2, <1>3
    <3> HIDE DEF q, m
    <3>2. y \div 128 = m  BY <3>1, QuotientIs
    <3>3. m % 2 = one("SEQ")  BY <3>1, <1>3, LastBitIs
    <3> QED BY <3>2, <3>3
  <2>2. (y \div 64) % 2 = one("ACK")
    <3> DEFINE q == one("SEQ")
               m == 2 * q + one("ACK")
    <3>1. q \in Int /\ m \in Int /\ m = 2 * q + one("ACK")
          /\ 64 * m <= y /\ y < 64 * m + 64 /\ y \in Int
      BY <1>2, <1>3
    <3> HIDE DEF q, m
    <3>2. y \div 64 = m  BY <3>1, QuotientIs
    <3>3. m % 2 = one("ACK")  BY <3>1, <1>3, LastBitIs
    <3> QED BY <3>2, <3>3
  <2>3. (y \div 32) % 2 = one("MSS")
    <3> DEFINE q == 2 * one("SEQ") + one("ACK")
               m == 2 * q + one("MSS")
    <3>1. q \in Int /\ m \in Int /\ m = 2 * q + one("MSS")
          /\ 32 * m <= y /\ y < 32 * m + 32 /\ y \in Int
      BY <1>2, <1>3
    <3> HIDE DEF q, m
    <3>2. y \div 32 = m  BY <3>1, QuotientIs
    <3>3. m % 2 = one("MSS")  BY <3>1, <1>3, LastBitIs
    <3> QED BY <3>2, <3>3
  <2>4. (y \div 16) % 2 = one("WND")
    <3> DEFINE q == 4 * one("SEQ") + 2 * one("ACK") + one("MSS")
               m == 2 * q + one("WND")
    <3>1. q \in Int /\ m \in Int /\ m = 2 * q + one("WND")
          /\ 16 * m <= y /\ y < 16 * m + 16 /\ y \in Int
      BY <1>2, <1>3
    <3> HIDE DEF q, m
    <3>2. y \div 16 = m  BY <3>1, QuotientIs
    <3>3. m % 2 = one("WND")  BY <3>1, <1>3, LastBitIs
    <3> QED BY <3>2, <3>3
  <2>5. y \in Byte  BY <1>2, <1>3 DEF Byte
  <2> QED BY <2>1, <2>2, <2>3, <2>4, <2>5
<1>7. Unpack(CtrlBits1, x) = {f \in {"SYN", "FIN", "RST"} : one(f) = 1}
  BY <1>5 DEF Unpack, CtrlBits1
<1>8. Unpack(CtrlBits2, y) = {f \in {"SEQ", "ACK", "MSS", "WND"} : one(f) = 1}
  <2>1. DOMAIN CtrlBits2 = {"SEQ", "ACK", "MSS", "WND"} /\ CtrlBits2.SEQ = 128
        /\ CtrlBits2.ACK = 64 /\ CtrlBits2.MSS = 32 /\ CtrlBits2.WND = 16
    BY DEF CtrlBits2
  <2>2. \A f \in DOMAIN CtrlBits2 : (y \div CtrlBits2[f]) % 2 = one(f)
    BY <1>6, <2>1
  <2> QED BY <2>1, <2>2 DEF Unpack
<1>9. CtrlFlags = {"SYN", "FIN", "RST"} \union {"SEQ", "ACK", "MSS", "WND"}
  BY DEF CtrlFlags, CtrlBits1, CtrlBits2
<1> QED BY <1>4, <1>5, <1>6, <1>7, <1>8, <1>9 DEF Byte

LEMMA DataBytes ==
  ASSUME NEW flags, flags \subseteq DataFlags, NEW x, x = DataByte(flags)
  PROVE  /\ x \in Byte
         /\ x \div 64 = 1 /\ (x \div 32) % 2 = 1
         /\ Unpack(DataBits, x) = flags
<1> DEFINE one(f) == IF f \in flags THEN 1 ELSE 0
<1>1. x = 96 + 16 * one("REQWND") + 8 * one("BDR") + 4 * one("SEQ") + 2 * one("ACK")
            + one("WND")
  BY DEF DataByte, Bit, DataBits, UmpVer, UpType
<1>2. /\ one("REQWND") \in Nat /\ one("REQWND") <= 1
      /\ one("BDR") \in Nat /\ one("BDR") <= 1
      /\ one("SEQ") \in Nat /\ one("SEQ") <= 1
      /\ one("ACK") \in Nat /\ one("ACK") <= 1
      /\ one("WND") \in Nat /\ one("WND") <= 1
  OBVIOUS
<1>3. \A f : one(f) = 1 <=> f \in flags  OBVIOUS
<1> HIDE DEF one
<1>4. /\ x \in Byte /\ x \div 64 = 1 /\ (x \div 32) % 2 = 1
      /\ (x \div 16) % 2 = one("REQWND") /\ (x \div 8) % 2 = one("BDR")
      /\ (x \div 4) % 2 = one("SEQ") /\ (x \div 2) % 2 = one("ACK")
      /\ (x \div 1) % 2 = one("WND")
  <2>1. (x \div 16) % 2 = one("REQWND")
    <3> DEFINE q == 3
               m == 2 * q + one("REQWND")
    <3>1. q \in Int /\ m \in Int /\ m = 2 * q + one("REQWND")
          /\ 16 * m <= x /\ x < 16 * m + 16 /\ x \in Int
      BY <1>1, <1>2
    <3> HIDE DEF q, m
    <3>2. x \div 16 = m  BY <3>1, QuotientIs
    <3>3. m % 2 = one("REQWND")  BY <3>1, <1>2, LastBitIs
    <3> QED BY <3>2, <3>3
  <2>2. (x \div 8) % 2 = one("BDR")
    <3> DEFINE q == 6 + one("REQWND")
               m == 2 * q + one("BDR")
    <3>1. q \in Int /\ m \in Int /\ m = 2 * q + one("BDR")
          /\ 8 * m <= x /\ x < 8 * m + 8 /\ x \in Int
      BY <1>1, <1>2
    <3> HIDE DEF q, m
    <3>2. x \div 8 = m  BY <3>1, QuotientIs
    <3>3. m % 2 = one("BDR")  BY <3>1, <1>2, LastBitIs
    <3> QED BY <3>2, <3>3
  <2>3. (x \div 4) % 2 = one("SEQ")
    <3> DEFINE q == 12 + 2 * one("REQWND") + one("BDR")
               m == 2 * q + one("SEQ")
    <3>1. q \in Int /\ m \in Int /\ m = 2 * q + one("SEQ")
          /\ 4 * m <= x /\ x < 4 * m + 4 /\ x \in Int
      BY <1>1, <1>2
    <3> HIDE DEF q, m
    <3>2. x \div 4 = m  BY <3>1, QuotientIs
    <3>3. m % 2 = one("SEQ")  BY <3>1, <1>2, LastBitIs
    <3> QED BY <3>2, <3>3
  <2>4. (x \div 2) % 2 = one("ACK")
    <3> DEFINE q == 24 + 4 * one("REQWND") + 2 * one("BDR") + one("SEQ")
               m == 2 * q + one("ACK")
    <3>1. q \in Int /\ m \in Int /\ m = 2 * q + one("ACK")
          /\ 2 * m <= x /\ x < 2 * m + 2 /\ x \in Int
      BY <1>1, <1>2
    <3> HIDE DEF q, m
    <3>2. x \div 2 = m  BY <3>1, QuotientIs
    <3>3. m % 2 = one("ACK")  BY <3>1, <1>2, LastBitIs
    <3> QED BY <3>2, <3>3
  <2>5. (x \div 1) % 2 = one("WND")
    <3> DEFINE q == 48 + 8 * one("REQWND") + 4 * one("BDR") + 2 * one("SEQ") + one("ACK")
    <3>1. q \in Int /\ x = 2 * q + one("WND")  BY <1>1, <1>2
    <3> HIDE DEF q
    <3>2. x \div 1 = x /\ x % 2 = one("WND")  BY <3>1, <1>2
    <3> QED BY <3>2
  <2>6. x \in Int /\ 96 <= x /\ x <= 127  BY <1>1, <1>2
  <2>7. x \div 64 = 1 /\ x \div 32 = 3 /\ 3 % 2 = 1  BY <2>6
  <2> QED BY <2>1, <2>2, <2>3, <2>4, <2>5, <2>6, <2>7 DEF Byte
<1>5. Unpack(DataBits, x) = {f \in {"REQWND", "BDR", "SEQ", "ACK", "WND"} : one(f) = 1}
  BY <1>4 DEF Unpack, DataBits
<1>6. DataFlags = {"REQWND", "BDR", "SEQ", "ACK", "WND"}  BY DEF DataFlags, DataBits
<1> QED BY <1>3, <1>4, <1>5, <1>6 DEF Byte

-----------------------------------------------------------------------------
(* The layout of a datagram *)

IsPacket(p) ==
  /\ p.kind \in {"control", "data"} /\ p.flags \subseteq FlagsOf(p.kind)
  /\ p.num \in [FieldNames -> Word16]
  /\ p.data \in Seq(Byte)

FieldWidth(p, f) == IF f \in p.flags THEN 2 ELSE 0

LEMMA PutFieldFacts ==
  ASSUME NEW p, IsPacket(p), NEW f \in FieldNames, NEW rest \in Seq(Byte)
  PROVE  /\ PutField(p, f, rest) \in Seq(Byte)
         /\ Len(PutField(p, f, rest)) = FieldWidth(p, f) + Len(rest)
         /\ \A i \in 1..Len(rest) : PutField(p, f, rest)[FieldWidth(p, f) + i] = rest[i]
         /\ f \in p.flags =>
              NumberOf(PutField(p, f, rest)[1], PutField(p, f, rest)[2]) = p.num[f]
<1> DEFINE s == PutField(p, f, rest)
<1>1. CASE f \in p.flags
  <2> DEFINE word == WordOf(p.num[f])
  <2>1. word \in Seq(Byte) /\ Len(word) = 2 /\ NumberOf(word[1], word[2]) = p.num[f]
    BY WordFacts DEF IsPacket
  <2>2. s = word \o rest  BY <1>1 DEF PutField
  <2> HIDE DEF word, s
  <2>3. /\ s \in Seq(Byte) /\ Len(s) = 2 + Len(rest)
        /\ \A i \in 1..(2 + Len(rest)) : s[i] = IF i <= 2 THEN word[i] ELSE rest[i - 2]
    <3>1. /\ word \o rest \in Seq(Byte) /\ Len(word \o rest) = Len(word) + Len(rest)
          /\ \A i \in 1..(Len(word) + Len(rest)) :
               (word \o rest)[i] = IF i <= Len(word) THEN word[i] ELSE rest[i - Len(word)]
      BY <2>1, ConcatProperties
    <3> QED BY <2>1, <2>2, <3>1
  <2>4. s[1] = word[1] /\ s[2] = word[2] /\ \A i \in 1..Len(rest) : s[2 + i] = rest[i]
    BY <2>3
  <2> QED BY <1>1, <2>1, <2>3, <2>4 DEF FieldWidth, s
<1>2. CASE f \notin p.flags
  <2>1. s = rest  BY <1>2 DEF PutField
  <2> QED BY <1>2, <2>1 DEF FieldWidth
<1> QED BY <1>1, <1>2

\* Where the numbers and the data are in the body
BodyPlace(p) ==
  [SEQ |-> 0,
   ACK |-> FieldWidth(p, "SEQ"),
   MSS |-> FieldWidth(p, "SEQ") + FieldWidth(p, "ACK"),
   WND |-> FieldWidth(p, "SEQ") + FieldWidth(p, "ACK") + FieldWidth(p, "MSS")]
BodyData(p) == BodyPlace(p)["WND"] + FieldWidth(p, "WND")

LEMMA BodyFacts ==
  ASSUME NEW p, IsPacket(p), NEW s, s = BodyOf(p)
  PROVE  /\ s \in Seq(Byte) /\ BodyData(p) \in Nat /\ Len(s) = BodyData(p) + Len(p.data)
         /\ \A i \in 1..Len(p.data) : s[BodyData(p) + i] = p.data[i]
         /\ \A f \in FieldNames \intersect p.flags :
              LET n == BodyPlace(p)[f]
              IN n \in Nat /\ n + 2 <= Len(s) /\ NumberOf(s[n + 1], s[n + 2]) = p.num[f]
<1> DEFINE d == p.data
           s4 == PutField(p, "WND", d)
           s3 == PutField(p, "MSS", s4)
           s2 == PutField(p, "ACK", s3)
           w1 == FieldWidth(p, "SEQ")
           w2 == FieldWidth(p, "ACK")
           w3 == FieldWidth(p, "MSS")
           w4 == FieldWidth(p, "WND")
<1>1. d \in Seq(Byte)  BY DEF IsPacket
<1>2. "SEQ" \in FieldNames /\ "ACK" \in FieldNames /\ "MSS" \in FieldNames
      /\ "WND" \in FieldNames  BY DEF FieldNames
<1>3. w1 \in {0, 2} /\ w2 \in {0, 2} /\ w3 \in {0, 2} /\ w4 \in {0, 2}
      /\ ("SEQ" \in p.flags => w1 = 2) /\ ("ACK" \in p.flags => w2 = 2)
      /\ ("MSS" \in p.flags => w3 = 2) /\ ("WND" \in p.flags => w4 = 2)
  BY DEF FieldWidth
<1>4. s = PutField(p, "SEQ", s2)  BY DEF BodyOf
<1>5. /\ s4 \in Seq(Byte) /\ Len(s4) = w4 + Len(d)
      /\ \A i \in 1..Len(d) : s4[w4 + i] = d[i]
      /\ "WND" \in p.flags => NumberOf(s4[1], s4[2]) = p.num["WND"]
  <2>1. "WND" \in FieldNames  BY <1>2
  <2> HIDE DEF d
  <2> QED BY <1>1, <2>1, PutFieldFacts
<1> HIDE DEF s4
<1>6. /\ s3 \in Seq(Byte) /\ Len(s3) = w3 + Len(s4)
      /\ \A i \in 1..Len(s4) : s3[w3 + i] = s4[i]
      /\ "MSS" \in p.flags => NumberOf(s3[1], s3[2]) = p.num["MSS"]
  BY <1>5, <1>2, PutFieldFacts
<1> HIDE DEF s3
<1>7. /\ s2 \in Seq(Byte) /\ Len(s2) = w2 + Len(s3)
      /\ \A i \in 1..Len(s3) : s2[w2 + i] = s3[i]
      /\ "ACK" \in p.flags => NumberOf(s2[1], s2[2]) = p.num["ACK"]
  BY <1>6, <1>2, PutFieldFacts
<1> HIDE DEF s2
<1>8. /\ s \in Seq(Byte) /\ Len(s) = w1 + Len(s2)
      /\ \A i \in 1..Len(s2) : s[w1 + i] = s2[i]
      /\ "SEQ" \in p.flags => NumberOf(s[1], s[2]) = p.num["SEQ"]
  <2>1. "SEQ" \in FieldNames /\ s2 \in Seq(Byte)  BY <1>2, <1>7
  <2> HIDE DEF d
  <2> QED BY <1>4, <2>1, PutFieldFacts
<1>9. /\ BodyPlace(p)["SEQ"] = 0 /\ BodyPlace(p)["ACK"] = w1
      /\ BodyPlace(p)["MSS"] = w1 + w2 /\ BodyPlace(p)["WND"] = w1 + w2 + w3
      /\ BodyData(p) = w1 + w2 + w3 + w4
  BY DEF BodyPlace, BodyData
<1> HIDE DEF w1, w2, w3, w4, d
<1>10. Len(d) \in Nat /\ Len(s4) \in Nat /\ Len(s3) \in Nat /\ Len(s2) \in Nat
       /\ Len(s) \in Nat
  BY <1>1, <1>5, <1>6, <1>7, <1>8
<1>11. Len(s) = w1 + w2 + w3 + w4 + Len(d)  BY <1>3, <1>5, <1>6, <1>7, <1>8, <1>10
<1>12. \A i \in 1..Len(s3) : s[w1 + w2 + i] = s3[i]
  <2> TAKE i \in 1..Len(s3)
  <2>1. w2 + i \in 1..Len(s2) /\ w1 + (w2 + i) = w1 + w2 + i  BY <1>3, <1>7, <1>10
  <2> QED BY <2>1, <1>7, <1>8
<1>13. \A i \in 1..Len(s4) : s[w1 + w2 + w3 + i] = s4[i]
  <2> TAKE i \in 1..Len(s4)
  <2>1. w3 + i \in 1..Len(s3) /\ w1 + w2 + (w3 + i) = w1 + w2 + w3 + i
    BY <1>3, <1>6, <1>10
  <2> QED BY <2>1, <1>6, <1>12
<1>14. \A i \in 1..Len(d) : s[w1 + w2 + w3 + w4 + i] = d[i]
  <2> TAKE i \in 1..Len(d)
  <2>1. w4 + i \in 1..Len(s4) /\ w1 + w2 + w3 + (w4 + i) = w1 + w2 + w3 + w4 + i
    BY <1>3, <1>5, <1>10
  <2> QED BY <2>1, <1>5, <1>13
<1>15. ASSUME "SEQ" \in p.flags
       PROVE  0 + 2 <= Len(s) /\ NumberOf(s[0 + 1], s[0 + 2]) = p.num["SEQ"]
  BY <1>15, <1>3, <1>8, <1>10
<1>16. ASSUME "ACK" \in p.flags
       PROVE  w1 + 2 <= Len(s) /\ NumberOf(s[w1 + 1], s[w1 + 2]) = p.num["ACK"]
  <2>1. 1 \in 1..Len(s2) /\ 2 \in 1..Len(s2)  BY <1>16, <1>3, <1>7, <1>10
  <2> QED BY <2>1, <1>16, <1>3, <1>7, <1>8, <1>10
<1>17. ASSUME "MSS" \in p.flags
       PROVE  /\ w1 + w2 + 2 <= Len(s)
              /\ NumberOf(s[w1 + w2 + 1], s[w1 + w2 + 2]) = p.num["MSS"]
  <2>1. 1 \in 1..Len(s3) /\ 2 \in 1..Len(s3)  BY <1>17, <1>3, <1>6, <1>10
  <2> QED BY <2>1, <1>17, <1>3, <1>6, <1>7, <1>8, <1>10, <1>12
<1>18. ASSUME "WND" \in p.flags
       PROVE  /\ w1 + w2 + w3 + 2 <= Len(s)
              /\ NumberOf(s[w1 + w2 + w3 + 1], s[w1 + w2 + w3 + 2]) = p.num["WND"]
  <2>1. 1 \in 1..Len(s4) /\ 2 \in 1..Len(s4)  BY <1>18, <1>3, <1>5, <1>10
  <2> QED BY <2>1, <1>18, <1>3, <1>5, <1>11, <1>10, <1>13
<1>19. \A f \in FieldNames \intersect p.flags :
         LET n == BodyPlace(p)[f]
         IN n \in Nat /\ n + 2 <= Len(s) /\ NumberOf(s[n + 1], s[n + 2]) = p.num[f]
  <2> SUFFICES ASSUME NEW f \in FieldNames, f \in p.flags, NEW n, n = BodyPlace(p)[f]
               PROVE n \in Nat /\ n + 2 <= Len(s)
                     /\ NumberOf(s[n + 1], s[n + 2]) = p.num[f]
    OBVIOUS
  <2>1. CASE f = "SEQ"  BY <2>1, <1>9, <1>15
  <2>2. CASE f = "ACK"  BY <2>2, <1>3, <1>9, <1>16
  <2>3. CASE f = "MSS"  BY <2>3, <1>3, <1>9, <1>17
  <2>4. CASE f = "WND"  BY <2>4, <1>3, <1>9, <1>18
  <2> QED BY <2>1, <2>2, <2>3, <2>4 DEF FieldNames
<1>20. BodyData(p) \in Nat  BY <1>3, <1>9
<1> QED BY <1>8, <1>9, <1>11, <1>14, <1>19, <1>20 DEF d

LEMMA HeadFacts ==
  ASSUME NEW p, IsPacket(p), NEW h, h = HeadOf(p)
  PROVE  /\ h \in Seq(Byte) /\ Len(h) = HeadLength(p.kind)
         /\ h[1] \div 64 = 1
         /\ p.kind = "control" =>
              /\ (h[1] \div 32) % 2 = 0
              /\ Unpack(CtrlBits1, h[1]) \union Unpack(CtrlBits2, h[2]) = p.flags
         /\ p.kind = "data" => (h[1] \div 32) % 2 = 1 /\ Unpack(DataBits, h[1]) = p.flags
<1>1. CASE p.kind = "control"
  <2> DEFINE x == CtrlByte1(p.flags)
             y == CtrlByte2(p.flags)
  <2>1. p.flags \subseteq CtrlFlags  BY <1>1 DEF IsPacket, FlagsOf
  <2>2. /\ x \in Byte /\ y \in Byte /\ x \div 64 = 1 /\ (x \div 32) % 2 = 0
        /\ Unpack(CtrlBits1, x) \union Unpack(CtrlBits2, y) = p.flags
    BY <2>1, CtrlBytes
  <2>3. h = <<x, y>>  BY <1>1 DEF HeadOf
  <2> HIDE DEF x, y
  <2>4. h \in Seq(Byte) /\ Len(h) = 2 /\ h[1] = x /\ h[2] = y  BY <2>2, <2>3
  <2> QED BY <1>1, <2>2, <2>4 DEF HeadLength
<1>2. CASE p.kind = "data"
  <2> DEFINE x == DataByte(p.flags)
  <2>1. p.flags \subseteq DataFlags  BY <1>2 DEF IsPacket, FlagsOf
  <2>2. /\ x \in Byte /\ x \div 64 = 1 /\ (x \div 32) % 2 = 1
        /\ Unpack(DataBits, x) = p.flags
    BY <2>1, DataBytes
  <2>3. h = <<x>>  BY <1>2 DEF HeadOf
  <2> HIDE DEF x
  <2>4. h \in Seq(Byte) /\ Len(h) = 1 /\ h[1] = x  BY <2>2, <2>3
  <2> QED BY <1>2, <2>2, <2>4 DEF HeadLength
<1> QED BY <1>1, <1>2 DEF IsPacket

LEMMA HeadSumType ==
  ASSUME NEW h \in Seq(Byte), Len(h) \in {1, 2}
  PROVE  HeadSum(h) \in Int
<1>1. \A i \in 1..Len(h) : h[i] \in Int  BY ByteIsInt
<1> QED BY <1>1 DEF HeadSum

LEMMA ChecksumType ==
  ASSUME NEW h \in Seq(Byte), Len(h) \in {1, 2}, NEW body \in Seq(Byte)
  PROVE  Checksum(h, body) \in Word16
<1> DEFINE n == HeadSum(h) + BodySum(body)
<1>1. n \in Int  BY HeadSumType, BodySumType
<1>2. Checksum(h, body) = n % 65536  BY DEF Checksum
<1> HIDE DEF n
<1>3. n % 65536 \in Nat /\ n % 65536 < 65536  BY <1>1
<1> QED BY <1>2, <1>3 DEF Word16

\* A datagram is cut where it was put together.
LEMMA EncodedFacts ==
  ASSUME NEW p, IsPacket(p), NEW w, w = Encoded(p)
  PROVE  LET h == HeadLength(p.kind)
             body == BodyOf(p)
         IN /\ h \in {1, 2} /\ w \in Seq(Byte) /\ Len(w) = h + 2 + Len(body)
            /\ \A i \in 1..h : w[i] = HeadOf(p)[i]
            /\ NumberOf(w[h + 1], w[h + 2]) = Checksum(HeadOf(p), body)
            /\ \A i \in 1..Len(body) : w[h + 2 + i] = body[i]
<1> DEFINE h == HeadLength(p.kind)
           body == BodyOf(p)
           head == HeadOf(p)
           word == WordOf(Checksum(head, body))
<1>1. head \in Seq(Byte) /\ Len(head) = h  BY HeadFacts
<1>2. h \in {1, 2}  BY DEF HeadLength
<1>3. body \in Seq(Byte)  BY BodyFacts
<1>4. Checksum(head, body) \in Word16  BY <1>1, <1>2, <1>3, ChecksumType
<1>5. word \in Seq(Byte) /\ Len(word) = 2
      /\ NumberOf(word[1], word[2]) = Checksum(head, body)
  BY <1>4, WordFacts
<1>6. w = (head \o word) \o body  BY DEF Encoded
<1> HIDE DEF h, body, head, word
<1>7. /\ head \o word \in Seq(Byte) /\ Len(head \o word) = h + 2
      /\ \A i \in 1..(h + 2) :
           (head \o word)[i] = IF i <= h THEN head[i] ELSE word[i - h]
  <2>1. /\ head \o word \in Seq(Byte) /\ Len(head \o word) = Len(head) + Len(word)
        /\ \A i \in 1..(Len(head) + Len(word)) :
             (head \o word)[i] = IF i <= Len(head) THEN head[i] ELSE word[i - Len(head)]
    BY <1>1, <1>5, ConcatProperties
  <2> QED BY <2>1, <1>1, <1>5
<1> DEFINE front == head \o word
<1> HIDE DEF front
<1>8. /\ w \in Seq(Byte) /\ Len(w) = h + 2 + Len(body)
      /\ \A i \in 1..(h + 2 + Len(body)) :
           w[i] = IF i <= h + 2 THEN front[i] ELSE body[i - (h + 2)]
  <2>1. front \in Seq(Byte) /\ Len(front) = h + 2  BY <1>7 DEF front
  <2>2. w = front \o body  BY <1>6 DEF front
  <2>3. /\ front \o body \in Seq(Byte) /\ Len(front \o body) = Len(front) + Len(body)
        /\ \A i \in 1..(Len(front) + Len(body)) :
             (front \o body)[i] = IF i <= Len(front) THEN front[i] ELSE body[i - Len(front)]
    BY <2>1, <1>3, ConcatProperties
  <2> QED BY <2>1, <2>2, <2>3
<1>9. \A i \in 1..(h + 2) : w[i] = IF i <= h THEN head[i] ELSE word[i - h]
  <2>1. \A i \in 1..(h + 2) : front[i] = IF i <= h THEN head[i] ELSE word[i - h]
    BY <1>7 DEF front
  <2>2. \A i \in 1..(h + 2) : w[i] = front[i]  BY <1>2, <1>3, <1>8
  <2> QED BY <2>1, <2>2
<1>10. \A i \in 1..h : w[i] = head[i]  BY <1>2, <1>9
<1>11. w[h + 1] = word[1] /\ w[h + 2] = word[2]  BY <1>2, <1>9
<1>12. \A i \in 1..Len(body) : w[h + 2 + i] = body[i]  BY <1>2, <1>3, <1>8
<1> QED BY <1>2, <1>5, <1>8, <1>10, <1>11, <1>12 DEF h, body, head

LEMMA SubSeqIs ==
  ASSUME NEW w \in Seq(Byte), NEW s \in Seq(Byte), NEW m \in Nat \ {0}, NEW n \in Nat,
         n <= Len(w), Len(s) = n + 1 - m, \A i \in 1..Len(s) : w[m - 1 + i] = s[i]
  PROVE  SubSeq(w, m, n) = s
<1> DEFINE t == SubSeq(w, m, n)
<1>1. Len(s) \in Nat  OBVIOUS
<1>2. \A i \in m..n : w[i] \in Byte  OBVIOUS
<1>3. /\ t \in Seq(Byte) /\ Len(t) = IF m <= n THEN n - m + 1 ELSE 0
      /\ \A i \in 1..(n - m + 1) : t[i] = w[m + i - 1]
  BY <1>2, SubSeqProperties
<1>4. t = SubSeq(w, m, n)  OBVIOUS
<1> HIDE DEF t
<1>5. Len(t) = Len(s)  BY <1>1, <1>3
<1>6. \A i \in 1..Len(s) : t[i] = s[i]
  <2> TAKE i \in 1..Len(s)
  <2>1. i \in 1..(n - m + 1) /\ m + i - 1 = m - 1 + i  BY <1>1
  <2> QED BY <2>1, <1>3
<1>7. t = s  BY <1>3, <1>5, <1>6, SeqEqual
<1> QED BY <1>4, <1>7

-----------------------------------------------------------------------------
(* Reading *)

\* The parts the reader cuts a datagram into
LEMMA KindReads ==
  ASSUME NEW p, IsPacket(p), NEW w, w = Encoded(p)
  PROVE  KindIn(w) = p.kind /\ FlagsIn(w) = p.flags /\ ~Malformed(w)
<1> DEFINE h == HeadLength(p.kind)
           head == HeadOf(p)
           body == BodyOf(p)
<1>1. /\ h \in {1, 2} /\ w \in Seq(Byte) /\ Len(w) = h + 2 + Len(body)
      /\ \A i \in 1..h : w[i] = head[i]
  BY EncodedFacts
<1>2. body \in Seq(Byte)  BY BodyFacts
<1>3. /\ head[1] \div 64 = 1
      /\ p.kind = "control" =>
              /\ (head[1] \div 32) % 2 = 0
              /\ Unpack(CtrlBits1, head[1]) \union Unpack(CtrlBits2, head[2]) = p.flags
      /\ p.kind = "data" =>
              (head[1] \div 32) % 2 = 1 /\ Unpack(DataBits, head[1]) = p.flags
  BY HeadFacts
<1> HIDE DEF h, head, body
<1>4. Len(body) \in Nat  BY <1>2
<1>5. w[1] = head[1] /\ (h = 2 => w[2] = head[2]) /\ w # <<>> /\ Len(w) >= h + 2
  BY <1>1, <1>4
<1>6. KindIn(w) = p.kind /\ FlagsIn(w) = p.flags
  <2>1. CASE p.kind = "control"
    <3>1. h = 2  BY <2>1 DEF h, HeadLength
    <3>2. KindIn(w) = "control"  BY <2>1, <1>3, <1>5 DEF KindIn, UpType
    <3> QED BY <2>1, <3>1, <3>2, <1>3, <1>5 DEF FlagsIn
  <2>2. CASE p.kind = "data"
    <3>1. KindIn(w) = "data"  BY <2>2, <1>3, <1>5 DEF KindIn, UpType
    <3> QED BY <2>2, <3>1, <1>3, <1>5 DEF FlagsIn
  <2> QED BY <2>1, <2>2 DEF IsPacket
<1>7. w[1] \div 64 = UmpVer \div 64  BY <1>3, <1>5 DEF UmpVer
<1>8. ~(Len(w) < HeadLength(KindIn(w)) + 2)
  <2>1. Len(w) >= HeadLength(KindIn(w)) + 2 /\ HeadLength(KindIn(w)) \in {1, 2}
    BY <1>1, <1>5, <1>6 DEF h
  <2> QED BY <2>1, <1>1
<1>9. ~Malformed(w)  BY <1>5, <1>7, <1>8 DEF Malformed
<1> QED BY <1>6, <1>9

LEMMA SumReads ==
  ASSUME NEW p, IsPacket(p), NEW w, w = Encoded(p)
  PROVE  SumMatches(w)
<1> DEFINE h == HeadLength(p.kind)
           head == HeadOf(p)
           body == BodyOf(p)
<1>1. /\ h \in {1, 2} /\ w \in Seq(Byte) /\ Len(w) = h + 2 + Len(body)
      /\ \A i \in 1..h : w[i] = head[i]
      /\ NumberOf(w[h + 1], w[h + 2]) = Checksum(head, body)
      /\ \A i \in 1..Len(body) : w[h + 2 + i] = body[i]
  BY EncodedFacts
<1>2. head \in Seq(Byte) /\ Len(head) = h /\ body \in Seq(Byte)  BY BodyFacts, HeadFacts
<1>3. KindIn(w) = p.kind  BY KindReads
<1> HIDE DEF head, body
<1>4. SubSeq(w, 1, h) = head
  <2> HIDE DEF h
  <2>1. h \in Nat /\ h <= Len(w) /\ Len(head) = h + 1 - 1
        /\ \A i \in 1..Len(head) : w[1 - 1 + i] = head[i]
    BY <1>1, <1>2
  <2> QED BY <2>1, <1>1, <1>2, SubSeqIs
<1>5. SubSeq(w, h + 3, Len(w)) = body
  <2> HIDE DEF h
  <2>1. /\ h + 3 \in Nat \ {0} /\ Len(w) \in Nat /\ Len(body) = Len(w) + 1 - (h + 3)
        /\ \A i \in 1..Len(body) : w[h + 3 - 1 + i] = body[i]
    BY <1>1, <1>2
  <2> QED BY <2>1, <1>1, <1>2, SubSeqIs
<1> QED BY <1>1, <1>3, <1>4, <1>5 DEF SumMatches

LEMMA PlacesRead ==
  ASSUME NEW p, IsPacket(p), NEW w, w = Encoded(p)
  PROVE  /\ \A f \in FieldNames : Place(w)[f] = HeadLength(p.kind) + 2 + BodyPlace(p)[f]
         /\ DataPlace(w) = HeadLength(p.kind) + 2 + BodyData(p)
<1> DEFINE h == HeadLength(p.kind)
<1>1. KindIn(w) = p.kind /\ FlagsIn(w) = p.flags  BY KindReads
<1>2. \A f : Width(w, f) = FieldWidth(p, f) /\ FieldWidth(p, f) \in Nat
  BY <1>1 DEF Width, FieldWidth
<1>3. h \in Nat  BY DEF HeadLength
<1>4. /\ Place(w)["SEQ"] = h + 2
      /\ Place(w)["ACK"] = h + 2 + FieldWidth(p, "SEQ")
      /\ Place(w)["MSS"] = h + 2 + FieldWidth(p, "SEQ") + FieldWidth(p, "ACK")
      /\ Place(w)["WND"] = h + 2 + FieldWidth(p, "SEQ") + FieldWidth(p, "ACK")
                              + FieldWidth(p, "MSS")
  BY <1>1, <1>2 DEF Place
<1>5. /\ BodyPlace(p)["SEQ"] = 0
      /\ BodyPlace(p)["ACK"] = FieldWidth(p, "SEQ")
      /\ BodyPlace(p)["MSS"] = FieldWidth(p, "SEQ") + FieldWidth(p, "ACK")
      /\ BodyPlace(p)["WND"] = FieldWidth(p, "SEQ") + FieldWidth(p, "ACK")
                                 + FieldWidth(p, "MSS")
  BY DEF BodyPlace
<1> HIDE DEF h
<1>6. \A f \in FieldNames : Place(w)[f] = h + 2 + BodyPlace(p)[f]
  BY <1>2, <1>3, <1>4, <1>5 DEF FieldNames
<1>7. DataPlace(w) = h + 2 + BodyData(p)
  BY <1>2, <1>3, <1>4, <1>5 DEF DataPlace, BodyData
<1> QED BY <1>6, <1>7 DEF h

\* What the sender has written is what is read.
LEMMA ReadsBack ==
  ASSUME NEW p, IsPacket(p), NEW w, w = Encoded(p), NEW beyond
  PROVE  FromBinary(w, beyond) = Reading(p)
<1> DEFINE h == HeadLength(p.kind)
           body == BodyOf(p)
<1>1. /\ h \in {1, 2} /\ w \in Seq(Byte) /\ Len(w) = h + 2 + Len(body)
      /\ \A i \in 1..Len(body) : w[h + 2 + i] = body[i]
  BY EncodedFacts
<1>2. /\ body \in Seq(Byte) /\ BodyData(p) \in Nat
      /\ Len(body) = BodyData(p) + Len(p.data)
      /\ \A i \in 1..Len(p.data) : body[BodyData(p) + i] = p.data[i]
      /\ \A f \in FieldNames \intersect p.flags :
           LET n == BodyPlace(p)[f]
           IN n \in Nat /\ n + 2 <= Len(body) /\ NumberOf(body[n + 1], body[n + 2]) = p.num[f]
  BY BodyFacts
<1>3. KindIn(w) = p.kind /\ FlagsIn(w) = p.flags /\ ~Malformed(w)  BY KindReads
<1>4. SumMatches(w)  BY SumReads
<1>5. /\ \A f \in FieldNames : Place(w)[f] = h + 2 + BodyPlace(p)[f]
      /\ DataPlace(w) = h + 2 + BodyData(p)
  BY PlacesRead
<1> HIDE DEF h, body
<1>6. ASSUME NEW f \in FieldNames, f \in p.flags
      PROVE  /\ Place(w)[f] < Len(w)
             /\ NumberOf(At(w, Place(w)[f] + 1, beyond), At(w, Place(w)[f] + 2, beyond))
                  = p.num[f]
  <2> DEFINE n == BodyPlace(p)[f]
  <2>1. n \in Nat /\ n + 2 <= Len(body) /\ NumberOf(body[n + 1], body[n + 2]) = p.num[f]
        /\ Place(w)[f] = h + 2 + n
    BY <1>2, <1>5, <1>6
  <2> HIDE DEF n
  <2>2. Len(body) \in Nat  BY <1>2
  <2>3. n + 1 \in 1..Len(body) /\ n + 2 \in 1..Len(body)  BY <2>1, <2>2
  <2>4. w[h + 2 + (n + 1)] = body[n + 1] /\ w[h + 2 + (n + 2)] = body[n + 2]
    BY <1>1, <2>3
  <2>5. /\ Place(w)[f] + 1 = h + 2 + (n + 1) /\ Place(w)[f] + 2 = h + 2 + (n + 2)
        /\ Place(w)[f] + 2 <= Len(w) /\ Place(w)[f] \in Nat /\ Len(w) \in Nat
    BY <1>1, <2>1, <2>2
  <2>6. Place(w)[f] < Len(w) /\ Place(w)[f] + 1 <= Len(w)  BY <2>5
  <2> QED BY <2>1, <2>4, <2>5, <2>6 DEF At
<1>7. FieldsBegin(w)  BY <1>3, <1>6 DEF FieldsBegin
<1>8. SubSeq(w, DataPlace(w) + 1, Len(w)) = p.data
  <2> DEFINE m == DataPlace(w) + 1
             d == p.data
             n == BodyData(p)
             k == Len(d)
             l == Len(body)
  <2>1. d \in Seq(Byte) /\ k \in Nat /\ l \in Nat /\ n \in Nat
    <3>1. d \in Seq(Byte)  BY DEF IsPacket
    <3> HIDE DEF d
    <3> QED BY <3>1, <1>2
  <2>2. /\ l = n + k /\ m - 1 = h + 2 + n /\ Len(w) = h + 2 + l /\ m = h + 3 + n
        /\ \A i \in 1..k : body[n + i] = d[i]
        /\ \A i \in 1..l : w[h + 2 + i] = body[i]
    <3>1. DataPlace(w) = h + 2 + n /\ n \in Nat /\ h \in Int  BY <1>5, <1>1, <1>2
    <3>2. m - 1 = h + 2 + n /\ m = h + 3 + n
      <4> DEFINE dp == DataPlace(w)
      <4>1. dp = h + 2 + n  BY <3>1
      <4> HIDE DEF n, dp
      <4>2. dp + 1 = h + 3 + n /\ (dp + 1) - 1 = h + 2 + n  BY <4>1, <3>1
      <4> QED BY <4>2 DEF dp
    <3> QED BY <3>2, <1>1, <1>2
  <2> HIDE DEF m, n, k, l, d
  <2>3. m \in Nat \ {0} /\ k = Len(w) + 1 - m  BY <2>1, <2>2, <1>1
  <2>4. \A i \in 1..k : w[m - 1 + i] = d[i]
    <3> TAKE i \in 1..k
    <3>0. i \in Int /\ 1 <= i /\ i <= k /\ h \in Int /\ l = n + k
      BY <2>1, <2>2, <1>1
    <3>1. n + i \in 1..l  BY <2>1, <3>0
    <3>2. m - 1 + i = h + 2 + (n + i)
      <4>1. m - 1 = h + 2 + n /\ m \in Int  BY <2>2, <2>3
      <4> QED BY <4>1, <3>0, <2>1
    <3> QED BY <3>1, <3>2, <2>2
  <2>5. Len(w) \in Nat /\ Len(w) <= Len(w) /\ w \in Seq(Byte)  BY <1>1
  <2>6. Len(d) = Len(w) + 1 - m /\ \A i \in 1..Len(d) : w[m - 1 + i] = d[i]
    BY <2>3, <2>4 DEF k
  <2>7. SubSeq(w, m, Len(w)) = d  BY ONLY <2>1, <2>3, <2>5, <2>6, SubSeqIs
  <2> QED BY <2>7 DEF m, d
<1>9. View(w, beyond) = Reading(p)
  <2>1. [f \in FieldNames |->
              IF f \in FlagsIn(w)
              THEN NumberOf(At(w, Place(w)[f] + 1, beyond), At(w, Place(w)[f] + 2, beyond))
              ELSE 0]
         = [f \in FieldNames |-> IF f \in p.flags THEN p.num[f] ELSE 0]
    BY <1>3, <1>6
  <2> QED BY <2>1, <1>3, <1>8 DEF View, Reading
<1> QED BY <1>3, <1>4, <1>7, <1>9 DEF FromBinary

-----------------------------------------------------------------------------
(* Damage *)

\* A change smaller than the modulus shows in the remainder.
LEMMA RemainderChanges ==
  ASSUME NEW x \in Int, NEW y \in Int, x # y, -65536 < y - x, y - x < 65536
  PROVE  y % 65536 # x % 65536
<1> DEFINE q == x \div 65536
           r == x % 65536
           q2 == y \div 65536
           r2 == y % 65536
<1> SUFFICES r2 # r  OBVIOUS
<1>1. q \in Int /\ r \in Int /\ x = 65536 * q + r  OBVIOUS
<1>2. q2 \in Int /\ r2 \in Int /\ y = 65536 * q2 + r2  OBVIOUS
<1> HIDE DEF q, r, q2, r2
<1> QED BY <1>1, <1>2

SumDiff(head, body, head2, body2) ==
  (HeadSum(head2) + BodySum(body2)) - (HeadSum(head) + BodySum(body))

LEMMA SumShows ==
  ASSUME NEW head \in Seq(Byte), Len(head) \in {1, 2}, NEW body \in Seq(Byte),
         NEW head2 \in Seq(Byte), Len(head2) \in {1, 2}, NEW body2 \in Seq(Byte),
         SumDiff(head, body, head2, body2) # 0,
         -65536 < SumDiff(head, body, head2, body2),
         SumDiff(head, body, head2, body2) < 65536
  PROVE  Checksum(head2, body2) # Checksum(head, body)
<1> DEFINE x == HeadSum(head) + BodySum(body)
           y == HeadSum(head2) + BodySum(body2)
<1>1. x \in Int /\ y \in Int
  <2>1. HeadSum(head) \in Int /\ HeadSum(head2) \in Int  BY HeadSumType
  <2>2. BodySum(body) \in Int /\ BodySum(body2) \in Int  BY BodySumType
  <2> QED BY <2>1, <2>2
<1>2. Checksum(head, body) = x % 65536 /\ Checksum(head2, body2) = y % 65536
  BY DEF Checksum
<1>3. y - x # 0 /\ -65536 < y - x /\ y - x < 65536  BY <1>1 DEF SumDiff
<1> HIDE DEF x, y
<1>4. y % 65536 # x % 65536  BY <1>1, <1>3, RemainderChanges
<1> QED BY <1>2, <1>4

LEMMA HeadSumChanges ==
  ASSUME NEW head \in Seq(Byte), Len(head) \in {1, 2}, NEW i \in 1..Len(head), NEW b \in Byte
  PROVE  HeadSum([head EXCEPT ![i] = b]) = HeadSum(head) + (b - head[i])
<1> DEFINE other == [head EXCEPT ![i] = b]
<1>1. Len(other) = Len(head) /\ other[i] = b
      /\ \A n \in 1..Len(head) : n # i => other[n] = head[n]
  OBVIOUS
<1> HIDE DEF other
<1>2. b \in Int /\ \A n \in 1..Len(head) : head[n] \in Int  BY ByteIsInt
<1>3. HeadSum(other) = HeadSum(head) + (b - head[i])
  <2>1. CASE Len(head) = 1
    <3>1. i = 1 /\ head[1] \in Int  BY <2>1, <1>2
    <3> QED BY <2>1, <3>1, <1>1, <1>2 DEF HeadSum
  <2>2. CASE Len(head) = 2
    <3>1. head[1] \in Int /\ head[2] \in Int /\ i \in {1, 2}  BY <2>2, <1>2
    <3>2. HeadSum(head) = head[1] + head[2] /\ HeadSum(other) = other[1] + other[2]
      BY <2>2, <1>1 DEF HeadSum
    <3>3. CASE i = 1
      <4>1. other[1] = b /\ other[2] = head[2]  BY <3>3, <2>2, <1>1
      <4> QED BY <4>1, <3>1, <3>2, <3>3, <1>2
    <3>4. CASE i = 2
      <4>1. other[2] = b /\ other[1] = head[1]  BY <3>4, <2>2, <1>1
      <4> QED BY <4>1, <3>1, <3>2, <3>4, <1>2
    <3> QED BY <3>1, <3>3, <3>4
  <2> QED BY <2>1, <2>2
<1> QED BY <1>3 DEF other

LEMMA NumberShows ==
  ASSUME NEW high \in Byte, NEW low \in Byte, NEW high2 \in Byte, NEW low2 \in Byte,
         NumberOf(high, low) = NumberOf(high2, low2)
  PROVE  high = high2 /\ low = low2
BY DEF Byte, NumberOf

\* A datagram with one byte changed is rejected if it is still read as the same kind
\* of packet.
LEMMA DamageShows ==
  ASSUME NEW p, IsPacket(p), NEW w, w = Encoded(p), NEW i \in DOMAIN w, NEW b \in Byte,
         b # w[i], NEW v, v = [w EXCEPT ![i] = b], KindIn(v) = p.kind, NEW beyond
  PROVE  FromBinary(v, beyond) = Rejected
<1> DEFINE h == HeadLength(p.kind)
           head == HeadOf(p)
           body == BodyOf(p)
           head2 == SubSeq(v, 1, h)
           body2 == SubSeq(v, h + 3, Len(v))
           sum == NumberOf(w[h + 1], w[h + 2])
           sum2 == NumberOf(v[h + 1], v[h + 2])
<1>1. /\ h \in {1, 2} /\ w \in Seq(Byte) /\ Len(w) = h + 2 + Len(body)
      /\ \A n \in 1..h : w[n] = head[n]
      /\ sum = Checksum(head, body)
      /\ \A n \in 1..Len(body) : w[h + 2 + n] = body[n]
  BY EncodedFacts
<1>2. head \in Seq(Byte) /\ Len(head) = h /\ body \in Seq(Byte)  BY BodyFacts, HeadFacts
<1>3. /\ i \in 1..Len(w) /\ v \in Seq(Byte) /\ Len(v) = Len(w) /\ v[i] = b
      /\ \A n \in 1..Len(w) : n # i => v[n] = w[n]
  BY <1>1
<1> SUFFICES sum2 # Checksum(head2, body2)
  <2>1. ~SumMatches(v)  BY DEF SumMatches
  <2> QED BY <2>1 DEF FromBinary
<1> HIDE DEF h, head, body, sum
<1>4. Len(body) \in Nat /\ Len(w) \in Nat /\ h \in Nat /\ i \in Nat  BY <1>1, <1>2, <1>3
<1>5. b \in Nat /\ b < 256 /\ w[i] \in Nat /\ w[i] < 256
  <2>1. w[i] \in Byte /\ b \in Byte  BY <1>1, <1>3
  <2> QED BY <2>1 DEF Byte
<1>6. ASSUME ~(i <= h)  PROVE head2 = head
  <2>1. h <= Len(v) /\ Len(head) = h + 1 - 1  BY <1>1, <1>2, <1>3, <1>4
  <2>2. \A n \in 1..Len(head) : v[1 - 1 + n] = head[n]
    BY <1>1, <1>2, <1>3, <1>4, <1>6
  <2>3. v \in Seq(Byte) /\ head \in Seq(Byte) /\ 1 \in Nat \ {0} /\ h \in Nat
    BY <1>2, <1>3, <1>4
  <2> QED BY ONLY <2>1, <2>2, <2>3, SubSeqIs
<1>7. ASSUME i <= h + 2  PROVE body2 = body
  <2> DEFINE m == h + 3
  <2>1. m \in Nat \ {0} /\ Len(v) <= Len(v) /\ Len(v) \in Nat /\ Len(body) = Len(v) + 1 - m
    BY <1>1, <1>2, <1>3, <1>4
  <2>2. \A n \in 1..Len(body) : v[m - 1 + n] = body[n]
    <3> TAKE n \in 1..Len(body)
    <3>1. m - 1 + n = h + 2 + n /\ h + 2 + n \in 1..Len(w) /\ h + 2 + n # i
      BY <1>1, <1>4, <1>7
    <3> QED BY <3>1, <1>1, <1>3
  <2> HIDE DEF m
  <2>3. v \in Seq(Byte) /\ body \in Seq(Byte)  BY <1>2, <1>3
  <2>4. SubSeq(v, m, Len(v)) = body  BY ONLY <2>1, <2>2, <2>3, SubSeqIs
  <2> QED BY <2>4 DEF m
<1>8. ASSUME ~(i \in {h + 1, h + 2})  PROVE sum2 = sum
  <2>1. h + 1 \in 1..Len(w) /\ h + 2 \in 1..Len(w) /\ h + 1 # i /\ h + 2 # i
    BY <1>1, <1>4, <1>8
  <2> QED BY <2>1, <1>3 DEF sum
<1>9. CASE i <= h
  <2>1. i \in 1..Len(head) /\ head[i] = w[i]  BY <1>9, <1>1, <1>2, <1>3, <1>4
  <2> DEFINE other == [head EXCEPT ![i] = b]
             d == b - w[i]
  <2>2. other \in Seq(Byte) /\ Len(other) = h
        /\ \A n \in 1..h : other[n] = IF n = i THEN b ELSE head[n]
    BY <1>2, <2>1
  <2>3. HeadSum(other) = HeadSum(head) + (b - head[i])
    BY <1>1, <1>2, <2>1, HeadSumChanges
  <2>4. d \in Int /\ d # 0 /\ -65536 < d /\ d < 65536  BY <1>5
  <2> HIDE DEF other
  <2>5. head2 = other
    <3>1. h <= Len(v) /\ Len(other) = h + 1 - 1  BY <1>1, <1>2, <1>3, <1>4, <2>2
    <3>2. \A n \in 1..Len(other) : v[1 - 1 + n] = other[n]
      <4> TAKE n \in 1..Len(other)
      <4>1. n \in 1..h /\ n \in 1..Len(w) /\ 1 - 1 + n = n  BY <2>2, <1>1, <1>4
      <4>2. v[n] = IF n = i THEN b ELSE head[n]  BY <4>1, <1>1, <1>3
      <4> QED BY <4>1, <4>2, <2>2
    <3> QED BY <3>1, <3>2, <2>2, <1>3, <1>4, SubSeqIs
  <2>6. body2 = body /\ sum2 = sum  BY <1>4, <1>7, <1>8, <1>9
  <2>7. SumDiff(head, body, head2, body) = d
    <3>1. HeadSum(head) \in Int /\ BodySum(body) \in Int
      BY <1>1, <1>2, HeadSumType, BodySumType
    <3>2. HeadSum(head2) = HeadSum(head) + d  BY <2>1, <2>3, <2>5
    <3> HIDE DEF d, head2
    <3> QED BY <3>1, <3>2, <2>4 DEF SumDiff
  <2>8. head2 \in Seq(Byte) /\ Len(head2) \in {1, 2} /\ Len(head) \in {1, 2}
    BY <2>2, <2>5, <1>1, <1>2
  <2> HIDE DEF d, head2, body2, sum2
  <2>9. Checksum(head2, body) # Checksum(head, body)
    <3>1. /\ SumDiff(head, body, head2, body) # 0
          /\ -65536 < SumDiff(head, body, head2, body)
          /\ SumDiff(head, body, head2, body) < 65536
      BY <2>4, <2>7
    <3>2. head \in Seq(Byte) /\ body \in Seq(Byte)  BY <1>2
    <3> QED BY ONLY <2>8, <3>1, <3>2, SumShows
  <2> QED BY <2>6, <2>9, <1>1
<1>10. CASE i \in {h + 1, h + 2}
  <2>1. head2 = head /\ body2 = body  BY <1>4, <1>6, <1>7, <1>10
  <2>2. h + 1 \in 1..Len(w) /\ h + 2 \in 1..Len(w)  BY <1>1, <1>4
  <2>3. w[h + 1] \in Byte /\ w[h + 2] \in Byte /\ v[h + 1] \in Byte /\ v[h + 2] \in Byte
    BY <2>2, <1>1, <1>3
  <2>4. w[h + 1] # v[h + 1] \/ w[h + 2] # v[h + 2]  BY <1>3, <1>10
  <2>5. sum2 # sum  BY <2>3, <2>4, NumberShows DEF sum
  <2> QED BY <2>1, <2>5, <1>1
<1>11. CASE i > h + 2
  <2> DEFINE j == i - (h + 2)
             other == [body EXCEPT ![j] = b]
             d == IF j % 2 = 1 THEN b - w[i] ELSE 256 * (b - w[i])
  <2>1. j \in 1..Len(body) /\ i = h + 2 + j  BY <1>11, <1>1, <1>3, <1>4
  <2> HIDE DEF j
  <2>2. body[j] = w[i]  BY <2>1, <1>1
  <2>3. other \in Seq(Byte) /\ Len(other) = Len(body)
        /\ \A n \in 1..Len(body) : other[n] = IF n = j THEN b ELSE body[n]
    BY <1>2, <2>1
  <2>4. BodySum(other) = BodySum(body) + d  BY <1>2, <2>1, <2>2, BodySumChanges
  <2>5. d \in Int /\ d # 0 /\ -65536 < d /\ d < 65536  BY <1>5
  <2> HIDE DEF other
  <2>6. body2 = other
    <3> DEFINE m == h + 3
    <3>1. m \in Nat \ {0} /\ Len(v) <= Len(v) /\ Len(v) \in Nat
          /\ Len(other) = Len(v) + 1 - m
      BY <1>1, <1>2, <1>3, <1>4, <2>3
    <3>2. \A n \in 1..Len(other) : v[m - 1 + n] = other[n]
      <4> TAKE n \in 1..Len(other)
      <4>1. n \in 1..Len(body) /\ m - 1 + n = h + 2 + n /\ h + 2 + n \in 1..Len(w)
        BY <1>1, <1>4, <2>3
      <4>2. CASE n = j  BY <4>1, <4>2, <2>1, <2>3, <1>3
      <4>3. CASE n # j
        <5>1. h + 2 + n # i  BY <4>1, <4>3, <2>1, <1>4
        <5> QED BY <4>1, <4>3, <5>1, <2>3, <1>1, <1>3
      <4> QED BY <4>2, <4>3
    <3> HIDE DEF m
    <3>3. v \in Seq(Byte) /\ other \in Seq(Byte)  BY <2>3, <1>3
    <3>4. SubSeq(v, m, Len(v)) = other  BY ONLY <3>1, <3>2, <3>3, SubSeqIs
    <3> QED BY <3>4 DEF m
  <2>7. head2 = head /\ sum2 = sum  BY <1>4, <1>6, <1>8, <1>11
  <2>8. SumDiff(head, body, head, body2) = d
    <3>1. HeadSum(head) \in Int /\ BodySum(body) \in Int
      BY <1>1, <1>2, HeadSumType, BodySumType
    <3>2. BodySum(body2) = BodySum(body) + d  BY <2>4, <2>6
    <3> HIDE DEF d, body2
    <3> QED BY <3>1, <3>2, <2>5 DEF SumDiff
  <2>9. body2 \in Seq(Byte) /\ Len(head) \in {1, 2}  BY <2>3, <2>6, <1>1, <1>2
  <2> HIDE DEF d, head2, body2, sum2
  <2>10. Checksum(head, body2) # Checksum(head, body)
    <3>1. /\ SumDiff(head, body, head, body2) # 0
          /\ -65536 < SumDiff(head, body, head, body2)
          /\ SumDiff(head, body, head, body2) < 65536
      BY <2>5, <2>8
    <3>2. head \in Seq(Byte) /\ body \in Seq(Byte)  BY <1>2
    <3> QED BY ONLY <2>9, <3>1, <3>2, SumShows
  <2> QED BY <2>7, <2>10, <1>1
<1> QED BY <1>4, <1>9, <1>10, <1>11

-----------------------------------------------------------------------------
(* Types *)

LEMMA ReadIsView ==
  ASSUME NEW w \in Seq(Byte), NEW beyond \in Byte
  PROVE  FromBinary(w, beyond) \in Views
<1>1. 0 \in Word16 /\ <<>> \in Seq(Byte)  BY DEF Word16
<1>2. Rejected \in Views  BY <1>1 DEF Rejected, Views
<1>3. View(w, beyond) \in Views
  <2>1. \A f : Width(w, f) \in Nat  BY DEF Width
  <2>2. DataPlace(w) \in Nat /\ \A f \in FieldNames : Place(w)[f] \in Nat
    <3>1. HeadLength(KindIn(w)) \in Nat  BY DEF HeadLength
    <3>2. /\ Place(w)["SEQ"] \in Nat /\ Place(w)["ACK"] \in Nat
          /\ Place(w)["MSS"] \in Nat /\ Place(w)["WND"] \in Nat
      <4> DEFINE n == HeadLength(KindIn(w))
                 a == Width(w, "SEQ")
                 b == Width(w, "ACK")
                 c == Width(w, "MSS")
      <4>1. /\ Place(w)["SEQ"] = n + 2 /\ Place(w)["ACK"] = n + 2 + a
            /\ Place(w)["MSS"] = n + 2 + a + b /\ Place(w)["WND"] = n + 2 + a + b + c
        BY DEF Place
      <4>2. n \in Nat /\ a \in Nat /\ b \in Nat /\ c \in Nat  BY <2>1, <3>1
      <4> HIDE DEF n, a, b, c
      <4> QED BY <4>1, <4>2
    <3>3. DataPlace(w) \in Nat  BY <2>1, <3>2 DEF DataPlace
    <3> QED BY <3>2, <3>3 DEF FieldNames
  <2>3. \A i \in Nat \ {0} : At(w, i, beyond) \in Byte
    <3> TAKE i \in Nat \ {0}
    <3>1. CASE i <= Len(w)
      <4>1. i \in 1..Len(w)  BY <3>1
      <4> QED BY <3>1, <4>1 DEF At
    <3>2. CASE ~(i <= Len(w))  BY <3>2 DEF At
    <3> QED BY <3>1, <3>2
  <2> DEFINE num == [f \in FieldNames |->
              IF f \in FlagsIn(w)
              THEN NumberOf(At(w, Place(w)[f] + 1, beyond), At(w, Place(w)[f] + 2, beyond))
              ELSE 0]
  <2>4. num \in [FieldNames -> Word16]
    <3>1. ASSUME NEW f \in FieldNames
          PROVE NumberOf(At(w, Place(w)[f] + 1, beyond), At(w, Place(w)[f] + 2, beyond))
                  \in Word16
      <4>1. Place(w)[f] + 1 \in Nat \ {0} /\ Place(w)[f] + 2 \in Nat \ {0}  BY <2>2
      <4>2. /\ At(w, Place(w)[f] + 1, beyond) \in Byte
            /\ At(w, Place(w)[f] + 2, beyond) \in Byte
        BY <4>1, <2>3
      <4> QED BY <4>2, NumberIsWord
    <3> QED BY <3>1, <1>1
  <2>5. FlagsIn(w) \in SUBSET (CtrlFlags \union DataFlags)
    BY DEF FlagsIn, Unpack, CtrlFlags, DataFlags
  <2> DEFINE m == DataPlace(w) + 1
  <2>6. SubSeq(w, m, Len(w)) \in Seq(Byte)
    <3>1. m \in Nat \ {0} /\ Len(w) \in Nat  BY <2>2
    <3>2. \A i \in m..Len(w) : w[i] \in Byte  BY <3>1
    <3> HIDE DEF m
    <3> QED BY <3>1, <3>2, SubSeqProperties
  <2>7. KindIn(w) \in {"control", "data", "rejected"}  BY DEF KindIn
  <2>8. View(w, beyond) = [kind |-> KindIn(w), flags |-> FlagsIn(w), num |-> num,
                           data |-> SubSeq(w, m, Len(w))]
    BY DEF View
  <2> HIDE DEF num, m
  <2> QED BY <2>4, <2>5, <2>6, <2>7, <2>8 DEF Views
<1> QED BY <1>2, <1>3 DEF FromBinary

\* A packet that the sender may encode: what its cache holds is up to date unless it
\* says that it has changed.
Sendable(p) ==
  /\ p \in Packets /\ p.kind # "none" /\ p.flags \subseteq FlagsOf(p.kind)
  /\ ~p.changed /\ p.raw # <<>> => p.raw = Encoded(p)

LEMMA SendableIsPacket == ASSUME NEW p, Sendable(p) PROVE IsPacket(p)
<1>1. Values \union {0} \subseteq Word16  BY ValuesAssumption DEF Word16
<1>2. Contents \union {<<>>} \subseteq Seq(Byte)
  <2>1. <<>> \in Seq(Byte)  OBVIOUS
  <2> QED BY <2>1, ContentsAssumption
<1>3. p.num \in [FieldNames -> Word16]  BY <1>1 DEF Sendable, Packets
<1> QED BY <1>2, <1>3 DEF Sendable, Packets, IsPacket

LEMMA EncodedType ==
  ASSUME NEW p, IsPacket(p) PROVE Encoded(p) \in Seq(Byte) /\ Encoded(p) # <<>>
<1> DEFINE w == Encoded(p)
           h == HeadLength(p.kind)
           body == BodyOf(p)
<1>1. w \in Seq(Byte) /\ Len(w) = h + 2 + Len(body)  BY EncodedFacts
<1>2. h \in Nat /\ Len(body) \in Nat
  <2>1. body \in Seq(Byte)  BY BodyFacts
  <2> HIDE DEF body
  <2> QED BY <2>1 DEF HeadLength
<1> HIDE DEF w, h, body
<1>3. Len(w) # 0  BY <1>1, <1>2
<1>4. w \in Seq(Byte) /\ w # <<>>  BY <1>1, <1>3
<1> QED BY <1>4 DEF w

\* The cache has no part in the encoding.
LEMMA EncodedOf ==
  ASSUME NEW p, NEW q, p.kind = q.kind, p.flags = q.flags, p.num = q.num, p.data = q.data
  PROVE  Encoded(p) = Encoded(q)
<1>1. HeadOf(p) = HeadOf(q)  BY DEF HeadOf
<1>2. BodyOf(p) = BodyOf(q)  BY DEF BodyOf, PutField
<1> QED BY <1>1, <1>2 DEF Encoded

\* After u_packet_to_binary the packet can be encoded again, and its datagram is the
\* encoding of it as it stands.
LEMMA ToBinaryFacts ==
  ASSUME NEW p, Sendable(p)
  PROVE  Sendable(ToBinary(p)) /\ ToBinary(p).raw = Encoded(ToBinary(p))
<1> DEFINE q == ToBinary(p)
<1>1. CASE ~p.changed /\ p.raw # <<>>  BY <1>1 DEF ToBinary, Sendable
<1>2. CASE ~(~p.changed /\ p.raw # <<>>)
  <2>1. q = [p EXCEPT !.raw = Encoded(p), !.changed = FALSE]  BY <1>2 DEF ToBinary
  <2>2. p \in Packets /\ Encoded(p) \in Seq(Byte)
    BY SendableIsPacket, EncodedType DEF Sendable
  <2>3. /\ q.kind = p.kind /\ q.flags = p.flags /\ q.num = p.num /\ q.data = p.data
        /\ q.raw = Encoded(p) /\ q \in Packets
    <3> DEFINE e == Encoded(p)
    <3>1. q = [p EXCEPT !.raw = e, !.changed = FALSE] /\ e \in Seq(Byte)  BY <2>1, <2>2
    <3> HIDE DEF e, q
    <3>2. /\ q.kind = p.kind /\ q.flags = p.flags /\ q.num = p.num /\ q.data = p.data
          /\ q.raw = e /\ q \in Packets
      BY <2>2, <3>1 DEF Packets
    <3> QED BY <3>2 DEF e
  <2> HIDE DEF q
  <2>4. Encoded(q) = Encoded(p)  BY <2>3, EncodedOf
  <2>5. Sendable(q) /\ q.raw = Encoded(q)  BY <2>3, <2>4 DEF Sendable
  <2> QED BY <2>5 DEF q
<1> QED BY <1>1, <1>2

LEMMA SetFlagsFacts ==
  ASSUME NEW p \in Packets, p.kind # "none", p.flags \subseteq FlagsOf(p.kind),
         NEW flags, flags \subseteq FlagsOf(p.kind)
  PROVE  /\ Sendable(SetFlags(p, flags)) /\ Sendable(ClearFlags(p, flags))
         /\ SetFlags(p, flags).changed /\ SetFlags(p, flags).num = p.num
<1>1. FlagsOf(p.kind) \subseteq CtrlFlags \union DataFlags  BY DEF FlagsOf
<1> DEFINE q == SetFlags(p, flags)
           r == ClearFlags(p, flags)
<1>2. q = [p EXCEPT !.flags = p.flags \union flags, !.changed = TRUE]  BY DEF SetFlags, Packets
<1>3. r = [p EXCEPT !.flags = p.flags \ flags, !.changed = TRUE]  BY DEF ClearFlags, Packets
<1> HIDE DEF q, r
<1>4. /\ q \in Packets /\ q.kind = p.kind /\ q.flags = p.flags \union flags /\ q.changed
      /\ q.num = p.num
  BY <1>1, <1>2 DEF Packets
<1>5. r \in Packets /\ r.kind = p.kind /\ r.flags = p.flags \ flags /\ r.changed
  BY <1>1, <1>3 DEF Packets
<1>6. Sendable(q) /\ Sendable(r) /\ q.changed /\ q.num = p.num  BY <1>4, <1>5 DEF Sendable
<1> QED BY <1>6 DEF q, r

LEMMA SetNumFacts ==
  ASSUME NEW p, Sendable(p), p.changed, NEW num \in [FieldNames -> Values \union {0}]
  PROVE  Sendable([p EXCEPT !.num = num]) /\ [p EXCEPT !.num = num].changed
<1> DEFINE q == [p EXCEPT !.num = num]
<1>1. q = [p EXCEPT !.num = num]  OBVIOUS
<1> HIDE DEF q
<1>2. /\ q \in Packets /\ q.kind = p.kind /\ q.flags = p.flags /\ q.changed
  BY <1>1 DEF Sendable, Packets
<1>3. Sendable(q) /\ q.changed  BY <1>2 DEF Sendable
<1> QED BY <1>3 DEF q

LEMMA NewPacketFacts ==
  ASSUME NEW kind \in {"control", "data"}
  PROVE  /\ NewPacket(kind) \in Packets /\ NewPacket(kind).kind = kind
         /\ NewPacket(kind).flags = {}
         /\ NewPacket(kind).num \in [FieldNames -> Values \union {0}]
<1>1. NoPacket \in Packets
  <2>1. <<>> \in Seq(Byte)  OBVIOUS
  <2> QED BY <2>1 DEF NoPacket, Packets
<1> QED BY <1>1 DEF NewPacket, Packets, NoPacket

-----------------------------------------------------------------------------
(* The inductive invariant *)

\* The packet can be encoded as it stands, and the datagram under way is its encoding
\* but for the byte that was damaged.
WireIs ==
  \/ wire = <<>>
  \/ /\ Sendable(pkt)
     /\ ~damaged => wire = Encoded(pkt)
     /\ damaged => \E i \in DOMAIN Encoded(pkt), b \in Byte :
          b # Encoded(pkt)[i] /\ wire = [Encoded(pkt) EXCEPT ![i] = b]
IInv ==
  /\ pkt = NoPacket \/ Sendable(pkt)
  /\ WireIs
  /\ damaged \in BOOLEAN /\ got \in Views

\* An IInv state is well typed, and both properties hold in it.
LEMMA InvType == ASSUME IInv PROVE TypeOK
<1>1. pkt \in Packets /\ pkt.flags \subseteq FlagsOf(pkt.kind)
  <2>1. CASE Sendable(pkt)  BY <2>1 DEF Sendable
  <2>2. CASE pkt = NoPacket
    <3>1. <<>> \in Seq(Byte)  OBVIOUS
    <3>2. NoPacket \in Packets /\ NoPacket.flags = {}  BY <3>1 DEF NoPacket, Packets
    <3> QED BY <2>2, <3>2
  <2> QED BY <2>1, <2>2 DEF IInv
<1>2. wire \in Seq(Byte)
  <2>1. CASE wire = <<>>  BY <2>1
  <2>2. CASE Sendable(pkt) /\ wire = Encoded(pkt)
    BY <2>2, SendableIsPacket, EncodedType
  <2>3. CASE Sendable(pkt) /\ \E i \in DOMAIN Encoded(pkt), b \in Byte :
               b # Encoded(pkt)[i] /\ wire = [Encoded(pkt) EXCEPT ![i] = b]
    <3> DEFINE e == Encoded(pkt)
    <3>1. e \in Seq(Byte)  BY <2>3, SendableIsPacket, EncodedType
    <3>2. PICK i \in DOMAIN e, b \in Byte : wire = [e EXCEPT ![i] = b]  BY <2>3
    <3> HIDE DEF e
    <3> QED BY <3>1, <3>2
  <2> QED BY <2>1, <2>2, <2>3 DEF IInv, WireIs
<1> QED BY <1>1, <1>2 DEF IInv, TypeOK

LEMMA InvReads == ASSUME IInv PROVE ReadsAsWritten
<1> SUFFICES ASSUME wire # <<>>, ~damaged, NEW beyond \in Noise
             PROVE  FromBinary(wire, beyond) = Reading(pkt)
  BY DEF ReadsAsWritten
<1>1. Sendable(pkt) /\ wire = Encoded(pkt)  BY DEF IInv, WireIs
<1> QED BY <1>1, SendableIsPacket, ReadsBack

LEMMA InvDamage == ASSUME IInv PROVE DamageIsSeen
<1> SUFFICES ASSUME wire # <<>>, damaged, KindIn(wire) = pkt.kind, NEW beyond \in Noise
             PROVE  FromBinary(wire, beyond) = Rejected
  BY DEF DamageIsSeen
<1>1. Sendable(pkt) /\ IsPacket(pkt)  BY SendableIsPacket DEF IInv, WireIs
<1> DEFINE w == Encoded(pkt)
<1>2. PICK i \in DOMAIN w, b \in Byte : b # w[i] /\ wire = [w EXCEPT ![i] = b]
  BY DEF IInv, WireIs
<1>3. w = Encoded(pkt)  OBVIOUS
<1> HIDE DEF w
<1> QED BY <1>1, <1>2, <1>3, DamageShows

-----------------------------------------------------------------------------
(* Every step keeps it *)

LEMMA InvInit == Init => IInv
<1>1. Rejected \in Views
  <2>1. 0 \in Word16 /\ <<>> \in Seq(Byte)  BY DEF Word16
  <2> QED BY <2>1 DEF Rejected, Views
<1> QED BY <1>1 DEF Init, IInv, WireIs

LEMMA MakeKeeps ==
  ASSUME IInv, NEW p, Sendable(p), Make(p)
  PROVE  IInv'
BY DEF IInv, WireIs, Make, Quiet

LEMMA PutKeeps ==
  ASSUME IInv, NEW p, Sendable(p), Put(p)
  PROVE  IInv'
<1> DEFINE q == ToBinary(p)
<1>1. Sendable(q) /\ q.raw = Encoded(q)  BY ToBinaryFacts
<1>2. pkt' = q /\ wire' = q.raw /\ damaged' = FALSE /\ got' = got  BY DEF Put
<1> HIDE DEF q
<1> QED BY <1>1, <1>2 DEF IInv, WireIs

\* The numbers that an action writes are among those that fields take.
LEMMA NumsType ==
  ASSUME NEW num \in [FieldNames -> Values \union {0}], NEW n \in Values
  PROVE  /\ [num EXCEPT !.SEQ = n] \in [FieldNames -> Values \union {0}]
         /\ [num EXCEPT !.ACK = n] \in [FieldNames -> Values \union {0}]
         /\ \A wnd \in Values :
              [num EXCEPT !.ACK = n, !.WND = wnd] \in [FieldNames -> Values \union {0}]
         /\ \A mss, wnd \in Values :
              [num EXCEPT !.SEQ = n, !.MSS = mss, !.WND = wnd]
                \in [FieldNames -> Values \union {0}]
BY DEF FieldNames

LEMMA PacketNums ==
  ASSUME NEW p \in Packets
  PROVE  p.num \in [FieldNames -> Values \union {0}]
BY DEF Packets

LEMMA FlagNames ==
  /\ {"SYN", "SEQ", "MSS", "WND"} \subseteq FlagsOf("control")
  /\ {"FIN", "SEQ"} \subseteq FlagsOf("control") /\ {"ACK"} \subseteq FlagsOf("control")
  /\ {"RST"} \subseteq FlagsOf("control")
  /\ {"SEQ"} \subseteq FlagsOf("data") /\ {"SEQ", "BDR"} \subseteq FlagsOf("data")
  /\ {"ACK", "WND"} \subseteq FlagsOf("data") /\ {"REQWND"} \subseteq FlagsOf("data")
BY DEF FlagsOf, CtrlFlags, DataFlags, CtrlBits1, CtrlBits2, DataBits

\* A new packet with its flags
LEMMA NewFacts ==
  ASSUME NEW kind \in {"control", "data"}, NEW flags, flags \subseteq FlagsOf(kind)
  PROVE  LET q == SetFlags(NewPacket(kind), flags)
         IN /\ Sendable(q) /\ q.changed
            /\ q.num \in [FieldNames -> Values \union {0}]
<1> DEFINE p == NewPacket(kind)
<1>1. /\ p \in Packets /\ p.kind = kind /\ p.flags = {}
      /\ p.num \in [FieldNames -> Values \union {0}]
  BY NewPacketFacts
<1> HIDE DEF p
<1>2. /\ Sendable(SetFlags(p, flags)) /\ SetFlags(p, flags).changed
      /\ SetFlags(p, flags).num = p.num
  BY <1>1, SetFlagsFacts
<1> QED BY <1>1, <1>2 DEF p

LEMMA InvNewControl == ASSUME IInv, NewControl PROVE IInv'
<1>1. PICK n \in Values, mss \in Values, wnd \in Values :
        \/ Make([SetFlags(NewPacket("control"), {"SYN", "SEQ", "MSS", "WND"})
                   EXCEPT !.num = [@ EXCEPT !.SEQ = n, !.MSS = mss, !.WND = wnd]])
        \/ Make([SetFlags(NewPacket("control"), {"FIN", "SEQ"}) EXCEPT !.num.SEQ = n])
  BY DEF NewControl
<1> DEFINE syn == SetFlags(NewPacket("control"), {"SYN", "SEQ", "MSS", "WND"})
           fin == SetFlags(NewPacket("control"), {"FIN", "SEQ"})
           num1 == [syn.num EXCEPT !.SEQ = n, !.MSS = mss, !.WND = wnd]
           num2 == [fin.num EXCEPT !.SEQ = n]
<1>2. /\ Sendable(syn) /\ syn.changed /\ syn.num \in [FieldNames -> Values \union {0}]
      /\ Sendable(fin) /\ fin.changed /\ fin.num \in [FieldNames -> Values \union {0}]
  BY NewFacts, FlagNames
<1>3. \/ Make([syn EXCEPT !.num = num1]) \/ Make([fin EXCEPT !.num = num2])
  <2>1. [syn EXCEPT !.num = [@ EXCEPT !.SEQ = n, !.MSS = mss, !.WND = wnd]]
          = [syn EXCEPT !.num = num1]
    BY <1>2 DEF Sendable, Packets
  <2>2. [fin EXCEPT !.num.SEQ = n] = [fin EXCEPT !.num = num2]
    BY <1>2 DEF Sendable, Packets
  <2> QED BY <1>1, <2>1, <2>2
<1>4. num1 \in [FieldNames -> Values \union {0}] /\ num2 \in [FieldNames -> Values \union {0}]
  BY <1>2, NumsType
<1> HIDE DEF syn, fin, num1, num2
<1>5. Sendable([syn EXCEPT !.num = num1]) /\ Sendable([fin EXCEPT !.num = num2])
  BY <1>2, <1>4, SetNumFacts
<1> QED BY <1>3, <1>5, MakeKeeps

LEMMA InvNewData == ASSUME IInv, NewData PROVE IInv'
<1>1. PICK n \in Values, data \in Contents, flags \in {{"SEQ"}, {"SEQ", "BDR"}} :
        Make([SetFlags(NewPacket("data"), flags) EXCEPT !.num.SEQ = n, !.data = data])
  BY DEF NewData
<1> DEFINE q == SetFlags(NewPacket("data"), flags)
           num == [q.num EXCEPT !.SEQ = n]
           r == [q EXCEPT !.num = num, !.data = data]
<1>2. Sendable(q) /\ q.changed /\ q.num \in [FieldNames -> Values \union {0}]
  BY NewFacts, FlagNames
<1>3. num \in [FieldNames -> Values \union {0}]  BY <1>2, NumsType
<1>4. [q EXCEPT !.num.SEQ = n, !.data = data] = r  BY <1>2 DEF Sendable, Packets
<1>5. Make(r)  BY <1>1, <1>4
<1>6. r = [q EXCEPT !.num = num, !.data = data]  OBVIOUS
<1> HIDE DEF q, num, r
<1>7. r \in Packets /\ r.kind = q.kind /\ r.flags = q.flags /\ r.changed
  BY <1>2, <1>3, <1>6 DEF Sendable, Packets
<1>8. Sendable(r)  BY <1>2, <1>7 DEF Sendable
<1> QED BY <1>5, <1>8, MakeKeeps

LEMMA InvSendControl == ASSUME IInv, SendControl PROVE IInv'
<1>1. Sendable(pkt) /\ pkt.kind = "control"
  <2>1. pkt.kind = "control"  BY DEF SendControl
  <2>2. NoPacket.kind = "none"  BY DEF NoPacket
  <2> QED BY <2>1, <2>2 DEF IInv
<1>2. /\ Sendable(SetFlags(pkt, {"ACK"})) /\ SetFlags(pkt, {"ACK"}).changed
      /\ Sendable(ClearFlags(pkt, {"ACK"}))
  BY <1>1, FlagNames, SetFlagsFacts DEF Sendable
<1>3. ASSUME NEW n \in Values, Put([SetFlags(pkt, {"ACK"}) EXCEPT !.num.ACK = n])
      PROVE  IInv'
  <2> DEFINE q == SetFlags(pkt, {"ACK"})
             num == [q.num EXCEPT !.ACK = n]
  <2>1. Sendable(q) /\ q.changed /\ q.num \in [FieldNames -> Values \union {0}]
    BY <1>2, PacketNums DEF Sendable
  <2>2. [q EXCEPT !.num.ACK = n] = [q EXCEPT !.num = num]  BY <2>1 DEF Sendable, Packets
  <2>3. num \in [FieldNames -> Values \union {0}]  BY <2>1, NumsType
  <2>4. Put([q EXCEPT !.num = num])  BY <1>3, <2>2
  <2> HIDE DEF q, num
  <2>5. Sendable([q EXCEPT !.num = num])  BY <2>1, <2>3, SetNumFacts
  <2> QED BY <2>4, <2>5, PutKeeps
<1>4. CASE Put(ClearFlags(pkt, {"ACK"}))  BY <1>2, <1>4, PutKeeps
<1> QED BY <1>3, <1>4 DEF SendControl

LEMMA InvSendData == ASSUME IInv, SendData PROVE IInv'
<1>1. Sendable(pkt) /\ pkt.kind = "data"
  <2>1. pkt.kind = "data"  BY DEF SendData
  <2>2. NoPacket.kind = "none"  BY DEF NoPacket
  <2> QED BY <2>1, <2>2 DEF IInv
<1>2. /\ Sendable(SetFlags(pkt, {"ACK", "WND"})) /\ SetFlags(pkt, {"ACK", "WND"}).changed
      /\ Sendable(ClearFlags(pkt, {"ACK", "WND"}))
  BY <1>1, FlagNames, SetFlagsFacts DEF Sendable
<1>3. ASSUME NEW n \in Values, NEW wnd \in Values,
             Put([SetFlags(pkt, {"ACK", "WND"})
                    EXCEPT !.num = [@ EXCEPT !.ACK = n, !.WND = wnd]])
      PROVE  IInv'
  <2> DEFINE q == SetFlags(pkt, {"ACK", "WND"})
             num == [q.num EXCEPT !.ACK = n, !.WND = wnd]
  <2>1. Sendable(q) /\ q.changed /\ q.num \in [FieldNames -> Values \union {0}]
    BY <1>2, PacketNums DEF Sendable
  <2>2. [q EXCEPT !.num = [@ EXCEPT !.ACK = n, !.WND = wnd]] = [q EXCEPT !.num = num]
    BY <2>1 DEF Sendable, Packets
  <2>3. num \in [FieldNames -> Values \union {0}]  BY <2>1, NumsType
  <2>4. Put([q EXCEPT !.num = num])  BY <1>3, <2>2
  <2> HIDE DEF q, num
  <2>5. Sendable([q EXCEPT !.num = num])  BY <2>1, <2>3, SetNumFacts
  <2> QED BY <2>4, <2>5, PutKeeps
<1>4. CASE Put(ClearFlags(pkt, {"ACK", "WND"}))  BY <1>2, <1>4, PutKeeps
<1> QED BY <1>3, <1>4 DEF SendData

LEMMA InvSendAlone == ASSUME IInv, SendAlone PROVE IInv'
<1>1. ASSUME NEW n \in Values,
             Put([SetFlags(NewPacket("control"), {"ACK"}) EXCEPT !.num.ACK = n])
      PROVE  IInv'
  <2> DEFINE q == SetFlags(NewPacket("control"), {"ACK"})
             num == [q.num EXCEPT !.ACK = n]
  <2>1. Sendable(q) /\ q.changed /\ q.num \in [FieldNames -> Values \union {0}]
    BY NewFacts, FlagNames
  <2>2. [q EXCEPT !.num.ACK = n] = [q EXCEPT !.num = num]  BY <2>1 DEF Sendable, Packets
  <2>3. num \in [FieldNames -> Values \union {0}]  BY <2>1, NumsType
  <2>4. Put([q EXCEPT !.num = num])  BY <1>1, <2>2
  <2> HIDE DEF q, num
  <2>5. Sendable([q EXCEPT !.num = num])  BY <2>1, <2>3, SetNumFacts
  <2> QED BY <2>4, <2>5, PutKeeps
<1>2. ASSUME NEW n \in Values, NEW wnd \in Values,
             Put([SetFlags(NewPacket("data"), {"ACK", "WND"})
                    EXCEPT !.num = [@ EXCEPT !.ACK = n, !.WND = wnd]])
      PROVE  IInv'
  <2> DEFINE q == SetFlags(NewPacket("data"), {"ACK", "WND"})
             num == [q.num EXCEPT !.ACK = n, !.WND = wnd]
  <2>1. Sendable(q) /\ q.changed /\ q.num \in [FieldNames -> Values \union {0}]
    BY NewFacts, FlagNames
  <2>2. [q EXCEPT !.num = [@ EXCEPT !.ACK = n, !.WND = wnd]] = [q EXCEPT !.num = num]
    BY <2>1 DEF Sendable, Packets
  <2>3. num \in [FieldNames -> Values \union {0}]  BY <2>1, NumsType
  <2>4. Put([q EXCEPT !.num = num])  BY <1>2, <2>2
  <2> HIDE DEF q, num
  <2>5. Sendable([q EXCEPT !.num = num])  BY <2>1, <2>3, SetNumFacts
  <2> QED BY <2>4, <2>5, PutKeeps
<1>3. /\ Sendable(SetFlags(NewPacket("control"), {"RST"}))
      /\ Sendable(SetFlags(NewPacket("data"), {"REQWND"}))
  BY NewFacts, FlagNames
<1>4. CASE Put(SetFlags(NewPacket("control"), {"RST"}))  BY <1>3, <1>4, PutKeeps
<1>5. CASE Put(SetFlags(NewPacket("data"), {"REQWND"}))  BY <1>3, <1>5, PutKeeps
<1> QED BY <1>1, <1>2, <1>4, <1>5 DEF SendAlone

LEMMA InvSendProbeAgain == ASSUME IInv, SendProbeAgain PROVE IInv'
<1>1. Sendable(pkt)  BY DEF SendProbeAgain, IInv, NoPacket
<1> QED BY <1>1, PutKeeps DEF SendProbeAgain

LEMMA InvDamaged == ASSUME IInv, Damage PROVE IInv'
<1>1. PICK i \in DOMAIN wire, b \in Noise : b # wire[i] /\ wire' = [wire EXCEPT ![i] = b]
  BY DEF Damage
<1>2. wire # <<>> /\ ~damaged /\ damaged' = TRUE /\ pkt' = pkt /\ got' = got
  BY DEF Damage
<1>3. Sendable(pkt) /\ wire = Encoded(pkt)  BY <1>2 DEF IInv, WireIs
<1>4. b \in Byte  BY NoiseAssumption
<1>5. WireIs'
  <2>1. i \in DOMAIN Encoded(pkt) /\ b # Encoded(pkt)[i]
        /\ wire' = [Encoded(pkt) EXCEPT ![i] = b]
    BY <1>1, <1>3
  <2>2. \E j \in DOMAIN Encoded(pkt), c \in Byte :
          c # Encoded(pkt)[j] /\ wire' = [Encoded(pkt) EXCEPT ![j] = c]
    BY <2>1, <1>4
  <2> QED BY <2>2, <1>2, <1>3 DEF WireIs
<1> QED BY <1>2, <1>5 DEF IInv

LEMMA InvReceive == ASSUME IInv, Receive PROVE IInv'
<1>1. PICK beyond \in Noise : got' = FromBinary(wire, beyond)  BY DEF Receive
<1>2. wire \in Seq(Byte) /\ beyond \in Byte  BY InvType, NoiseAssumption DEF TypeOK
<1>3. got' \in Views  BY <1>1, <1>2, ReadIsView
<1> QED BY <1>3 DEF Receive, IInv, WireIs

LEMMA InvConsume == ASSUME IInv, Consume PROVE IInv'
<1>1. Rejected \in Views
  <2>1. 0 \in Word16 /\ <<>> \in Seq(Byte)  BY DEF Word16
  <2> QED BY <2>1 DEF Rejected, Views
<1> QED BY <1>1 DEF Consume, IInv, WireIs

LEMMA InvNext == IInv /\ [Next]_vars => IInv'
<1> SUFFICES ASSUME IInv, [Next]_vars PROVE IInv'  OBVIOUS
<1>1. CASE NewControl  BY <1>1, InvNewControl
<1>2. CASE NewData  BY <1>2, InvNewData
<1>3. CASE SendControl  BY <1>3, InvSendControl
<1>4. CASE SendData  BY <1>4, InvSendData
<1>5. CASE SendAlone  BY <1>5, InvSendAlone
<1>6. CASE SendProbeAgain  BY <1>6, InvSendProbeAgain
<1>7. CASE Damage  BY <1>7, InvDamaged
<1>8. CASE Receive  BY <1>8, InvReceive
<1>9. CASE Consume  BY <1>9, InvConsume
<1>10. CASE UNCHANGED vars  BY <1>10 DEF vars, IInv, WireIs
<1> QED BY <1>1, <1>2, <1>3, <1>4, <1>5, <1>6, <1>7, <1>8, <1>9, <1>10 DEF Next

-----------------------------------------------------------------------------
(* The theorems *)

\* Every packet the sender keeps, every datagram and every packet that is read is well
\* formed: bytes stay bytes and numbers stay in 16 bits, however the sender reuses
\* its packet and whatever byte was damaged.
THEOREM CodecTypeCorrect == Spec => []TypeOK
<1>1. Init => IInv  BY InvInit
<1>2. IInv /\ [Next]_vars => IInv'  BY InvNext
<1>3. IInv => TypeOK  BY InvType
<1> QED BY <1>1, <1>2, <1>3, PTL DEF Spec

\* An undamaged datagram reads as the packet stands when it is sent, whatever was
\* encoded before: the cache of u_packet_to_binary is never out of date, each flag and
\* number is found where it was put, and data of any length arrive whole.
THEOREM PacketsReadAsWritten == Spec => []ReadsAsWritten
<1>1. Init => IInv  BY InvInit
<1>2. IInv /\ [Next]_vars => IInv'  BY InvNext
<1>3. IInv => ReadsAsWritten  BY InvReads
<1> QED BY <1>1, <1>2, <1>3, PTL DEF Spec

\* A datagram with one damaged byte is rejected if it is still read as the same kind of
\* packet, wherever the byte is and whatever it has become, in a datagram of any
\* length.
THEOREM DamagedAreRejected == Spec => []DamageIsSeen
<1>1. Init => IInv  BY InvInit
<1>2. IInv /\ [Next]_vars => IInv'  BY InvNext
<1>3. IInv => DamageIsSeen  BY InvDamage
<1> QED BY <1>1, <1>2, <1>3, PTL DEF Spec

=============================================================================
