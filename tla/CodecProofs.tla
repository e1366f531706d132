----------------------------- MODULE CodecProofs -----------------------------
(***************************************************************************)
(* Proofs about Codec: positional notation in any base, and that numbers,  *)
(* words and buffers survive the way to the other side.                    *)
(***************************************************************************)
EXTENDS Codec, Integers, WellFoundedInduction, TLAPS

-----------------------------------------------------------------------------
(***************************************************************************)
(* Induction, from the fact that < is well-founded on the naturals, and    *)
(* division, from the fact that it is unique.                              *)
(***************************************************************************)
LEMMA Induction ==
    ASSUME NEW S, 0 \in S, \A n \in Nat : n \in S => n + 1 \in S
    PROVE  Nat \subseteq S
  <1> DEFINE T == Nat \ S
             less == OpToRel(<, Nat)
  <1>1. SUFFICES ASSUME T # {} PROVE FALSE
    OBVIOUS
  <1>2. IsWellFoundedOn(less, Nat)
    BY NatLessThanWellFounded
  <1>3. \A x, y \in Nat : x < y => <<x, y>> \in less
    BY DEF OpToRel
  <1> HIDE DEF less
  <1>4. PICK x \in T : \A y \in T : ~(<<y, x>> \in less)
    BY <1>1, <1>2, WFMin
  <1>5. x # 0 /\ x - 1 \in Nat /\ x - 1 < x
    BY <1>4
  <1>6. x - 1 \in S
    BY <1>3, <1>4, <1>5
  <1> QED
    BY <1>4, <1>5, <1>6

LEMMA Division ==
    ASSUME NEW a \in Nat, NEW b \in Nat, b > 0
    PROVE  /\ a = b * (a \div b) + (a % b)
           /\ a \div b \in Nat
           /\ a % b \in Nat /\ a % b < b
  OBVIOUS

\* Of two products of b one is at least b larger.
LEMMA Apart ==
    ASSUME NEW b \in Nat, NEW x \in Nat, NEW y \in Nat, x < y
    PROVE  b * x + b <= b * y
  <1>1. y - x >= 1 /\ y - x \in Nat
    OBVIOUS
  <1>2. b * (y - x) >= b
    BY <1>1
  <1> QED
    BY <1>2

LEMMA Quotient ==
    ASSUME NEW b \in Nat, NEW q \in Nat, NEW r \in Nat, r < b
    PROVE  (b * q + r) \div b = q /\ (b * q + r) % b = r
  <1> DEFINE a == b * q + r
             c == a \div b
             d == a % b
  <1>1. a \in Nat /\ a = b * c + d /\ d \in 0..(b - 1) /\ c \in Nat
    OBVIOUS
  <1>2. a = b * q + r
    OBVIOUS
  <1> HIDE DEF a, c, d
  <1>3. ~(c < q) /\ ~(q < c)
    BY <1>1, <1>2, Apart
  <1>4. c = q
    BY <1>1, <1>3
  <1> QED
    BY <1>1, <1>2, <1>4 DEF a, c, d

-----------------------------------------------------------------------------
(***************************************************************************)
(* Power is what its definition says, and never 0.                         *)
(***************************************************************************)
LEMMA BaseType == Base \in Nat /\ Base > 1 /\ Base > 0
  BY CodecAssumption

\* The powers up to the m-th.
PowersTo(f, m) == f \in [0..m -> Nat] /\ f[0] = 1 /\ \A i \in 1..m : f[i] = Base * f[i - 1]

LEMMA PowersExist == \A m \in Nat : \E f : PowersTo(f, m)
  <1> DEFINE S == {m \in Nat : \E f : PowersTo(f, m)}
  <1>1. 0 \in S
    <2>1. PowersTo([i \in 0..0 |-> 1], 0)
      BY DEF PowersTo
    <2> QED
      BY <2>1
  <1>2. ASSUME NEW m \in Nat, m \in S
        PROVE  m + 1 \in S
    <2>1. PICK f : PowersTo(f, m)
      BY <1>2
    <2> DEFINE g == [i \in 0..(m + 1) |-> IF i = m + 1 THEN Base * f[m] ELSE f[i]]
    <2>2. PowersTo(g, m + 1)
      BY <2>1, BaseType DEF PowersTo
    <2> QED
      BY <2>2
  <1> HIDE DEF S
  <1>3. Nat \subseteq S
    BY <1>1, <1>2, Induction
  <1> QED
    BY <1>3 DEF S

LEMMA PowersAgree ==
    ASSUME NEW m \in Nat, NEW n \in Nat, m <= n, NEW f, NEW g, PowersTo(f, m), PowersTo(g, n)
    PROVE  f[m] = g[m]
  <1> DEFINE S == {i \in Nat : i <= m => f[i] = g[i]}
  <1>1. 0 \in S
    BY DEF PowersTo
  <1>2. \A i \in Nat : i \in S => i + 1 \in S
    BY DEF PowersTo
  <1> HIDE DEF S
  <1>3. Nat \subseteq S
    BY <1>1, <1>2, Induction
  <1> QED
    BY <1>3 DEF S

LEMMA PowerFacts ==
    /\ Power[0] = 1
    /\ \A n \in Nat : Power[n] \in Nat \ {0} /\ Power[n + 1] = Base * Power[n]
  <1> DEFINE F(n) == CHOOSE f : PowersTo(f, n)
             h == [n \in Nat |-> F(n)[n]]
  <1>1. \A n \in Nat : PowersTo(F(n), n)
    BY PowersExist
  <1> HIDE DEF F
  <1>2. h[0] = 1
    BY <1>1 DEF PowersTo
  <1>3. ASSUME NEW n \in Nat
        PROVE  h[n + 1] = Base * h[n] /\ h[n] \in Nat
    <2>1. PowersTo(F(n), n) /\ PowersTo(F(n + 1), n + 1)
      BY <1>1
    <2>2. F(n)[n] = F(n + 1)[n]
      BY <2>1, PowersAgree
    <2>3. F(n + 1)[n + 1] = Base * F(n + 1)[n] /\ F(n)[n] \in Nat
      BY <2>1 DEF PowersTo
    <2> QED
      BY <2>2, <2>3
  <1>4. h = [n \in Nat |-> IF n = 0 THEN 1 ELSE Base * h[n - 1]]
    <2>1. \A n \in Nat : h[n] = IF n = 0 THEN 1 ELSE Base * h[n - 1]
      <3> SUFFICES ASSUME NEW n \in Nat, n # 0
                   PROVE  h[n] = Base * h[n - 1]
        BY <1>2
      <3>1. n - 1 \in Nat /\ (n - 1) + 1 = n
        OBVIOUS
      <3> HIDE DEF h
      <3> QED
        BY <3>1, <1>3
    <2> QED
      BY <2>1
  <1> HIDE DEF h
  <1>5. Power = [n \in Nat |-> IF n = 0 THEN 1 ELSE Base * Power[n - 1]]
    BY <1>4 DEF Power
  <1>6. Power[0] = 1
    BY <1>5
  <1>7. \A n \in Nat : Power[n + 1] = Base * Power[n]
    <2> SUFFICES ASSUME NEW n \in Nat
                 PROVE  Power[n + 1] = Base * Power[n]
      OBVIOUS
    <2>1. n + 1 \in Nat /\ n + 1 # 0 /\ (n + 1) - 1 = n
      OBVIOUS
    <2> QED
      BY <1>5, <2>1
  <1> DEFINE S == {n \in Nat : Power[n] \in Nat \ {0}}
  <1>8. 0 \in S
    BY <1>6
  <1>9. ASSUME NEW n \in Nat, n \in S
        PROVE  n + 1 \in S
    <2>1. Power[n] \in Nat /\ Power[n] > 0
      BY <1>9
    <2>2. Base * Power[n] \in Nat /\ Base * Power[n] > 0
      BY <2>1, BaseType
    <2> QED
      BY <1>7, <2>2
  <1> HIDE DEF S
  <1>10. Nat \subseteq S
    BY <1>8, <1>9, Induction
  <1> QED
    BY <1>6, <1>7, <1>10 DEF S

LEMMA PowerSum ==
    ASSUME NEW m \in Nat, NEW n \in Nat
    PROVE  Power[m + n] = Power[m] * Power[n]
  <1> DEFINE S == {i \in Nat : Power[m + i] = Power[m] * Power[i]}
  <1>1. 0 \in S
    BY PowerFacts
  <1>2. ASSUME NEW i \in Nat, i \in S
        PROVE  i + 1 \in S
    <2>1. Power[m + (i + 1)] = Base * Power[m + i]
      <3>1. m + (i + 1) = (m + i) + 1 /\ m + i \in Nat
        OBVIOUS
      <3> QED
        BY <3>1, PowerFacts
    <2>2. Power[i + 1] = Base * Power[i]
      BY PowerFacts
    <2>3. Power[m] \in Nat /\ Power[i] \in Nat /\ Power[m + i] = Power[m] * Power[i]
      BY <1>2, PowerFacts
    <2>4. Base * (Power[m] * Power[i]) = Power[m] * (Base * Power[i])
      BY <2>3, BaseType
    <2> QED
      BY <2>1, <2>2, <2>3, <2>4
  <1> HIDE DEF S
  <1>3. Nat \subseteq S
    BY <1>1, <1>2, Induction
  <1> QED
    BY <1>3 DEF S

-----------------------------------------------------------------------------
(***************************************************************************)
(* A digit more, or fewer, at the lower or at the upper end.               *)
(***************************************************************************)
LEMMA DivideTwice ==
    ASSUME NEW a \in Nat, NEW b \in Nat, NEW c \in Nat, b > 0, c > 0
    PROVE  /\ (a \div b) \div c = a \div (b * c)
           /\ a % (b * c) = b * ((a \div b) % c) + (a % b)
           /\ (a % (b * c)) \div b = (a \div b) % c
           /\ (a % (b * c)) % b = a % b
  <1> DEFINE q == a \div b
             r == a % b
             s == q \div c
             d == q % c
  <1>1. q \in Nat /\ r \in Nat /\ r < b /\ a = b * q + r
    BY Division
  <1>2. s \in Nat /\ d \in Nat /\ d < c /\ q = c * s + d
    BY <1>1, Division
  <1> HIDE DEF q, r, s, d
  <1>3. b * c \in Nat /\ b * d + r \in Nat /\ b * d + r < b * c
    <2>1. b * d + b <= b * c
      BY <1>2, Apart
    <2>2. b * c \in Nat /\ b * d \in Nat
      BY <1>2
    <2> QED
      BY <2>1, <2>2, <1>1
  <1>4. a = (b * c) * s + (b * d + r)
    <2>1. b * (c * s + d) = (b * c) * s + b * d
      BY <1>2
    <2>2. a = b * (c * s + d) + r
      BY <1>1, <1>2
    <2>3. (b * c) * s \in Nat /\ b * d \in Nat
      BY <1>2, <1>3
    <2> QED
      BY <2>1, <2>2, <2>3, <1>1
  <1>5. a \div (b * c) = s /\ a % (b * c) = b * d + r
    BY <1>2, <1>3, <1>4, Quotient
  <1>6. (b * d + r) \div b = d /\ (b * d + r) % b = r
    BY <1>1, <1>2, Quotient
  <1> QED
    BY <1>5, <1>6 DEF q, r, s, d

LEMMA ModuloOfSmall ==
    ASSUME NEW n \in Nat, NEW m \in Nat, n < m
    PROVE  n % m = n
  OBVIOUS

\* The digits of the low end of a number are digits of the number.
LEMMA DigitOfLowEnd ==
    ASSUME NEW n \in Nat, NEW k \in Nat, NEW w \in Nat, k < w
    PROVE  ((n % Power[w]) \div Power[k]) % Base = (n \div Power[k]) % Base
  <1> DEFINE b == Power[k]
             c == Power[w - k - 1]
             m == n \div b
  <1>1. w - k - 1 \in Nat /\ w = k + ((w - k - 1) + 1) /\ (w - k - 1) + 1 \in Nat
    OBVIOUS
  <1>2. Power[(w - k - 1) + 1] = Base * c
    BY <1>1, PowerFacts
  <1>3. Power[w] = b * (Base * c)
    BY <1>1, <1>2, PowerSum
  <1>4. b \in Nat /\ b > 0 /\ c \in Nat /\ c > 0
    BY <1>1, PowerFacts
  <1>5. Base * c \in Nat /\ Base * c > 0
    BY <1>4, BaseType
  <1>6. m \in Nat
    BY <1>4, Division
  <1> HIDE DEF b, c
  <1>7. (n % (b * (Base * c))) \div b = m % (Base * c)
    BY <1>4, <1>5, DivideTwice
  <1> HIDE DEF m
  <1>8. (m % (Base * c)) % Base = m % Base
    <2>1. Base \in Nat /\ Base > 0
      BY BaseType
    <2> QED
      BY <1>4, <1>6, <2>1, DivideTwice
  <1> QED
    BY <1>3, <1>7, <1>8 DEF b, m

\* The digits of what is left above the low end are digits of the number.
LEMMA DigitOfHighEnd ==
    ASSUME NEW n \in Nat, NEW j \in Nat, NEW k \in Nat
    PROVE  (n \div Power[j]) \div Power[k] = n \div Power[j + k]
  <1>1. Power[j] \in Nat /\ Power[j] > 0 /\ Power[k] \in Nat /\ Power[k] > 0
    BY PowerFacts
  <1>2. (n \div Power[j]) \div Power[k] = n \div (Power[j] * Power[k])
    BY <1>1, DivideTwice
  <1> QED
    BY <1>2, PowerSum

-----------------------------------------------------------------------------
(***************************************************************************)
(* FromLe is the sum its definition says, and reads what ToLe wrote.       *)
(***************************************************************************)
\* The first i digits, for every i.
Sums(f, bytes) ==
    f = [i \in 0..Len(bytes) |-> IF i = 0 THEN 0 ELSE f[i - 1] + bytes[i] * Power[i - 1]]

\* Some digits more.
Plus(bytes, i, n) == n + bytes[i] * Power[i - 1]

SumsTo(f, bytes, m) == f = [i \in 0..m |-> IF i = 0 THEN 0 ELSE Plus(bytes, i, f[i - 1])]

LEMMA SumsExist ==
    ASSUME NEW bytes, NEW n \in Nat
    PROVE  \E f : SumsTo(f, bytes, n)
  <1> DEFINE S == {m \in Nat : \E f : SumsTo(f, bytes, m)}
  <1>1. 0 \in S
    <2>1. SumsTo([i \in 0..0 |-> 0], bytes, 0)
      BY DEF SumsTo
    <2> QED
      BY <2>1
  <1>2. ASSUME NEW m \in Nat, m \in S
        PROVE  m + 1 \in S
    <2>1. PICK f : SumsTo(f, bytes, m)
      BY <1>2
    <2> DEFINE g == [i \in 0..(m + 1) |-> IF i = m + 1 THEN Plus(bytes, m + 1, f[m]) ELSE f[i]]
    <2>2. \A i \in 0..(m + 1) : g[i] = IF i = 0 THEN 0 ELSE Plus(bytes, i, g[i - 1])
      <3> SUFFICES ASSUME NEW i \in 0..(m + 1)
                   PROVE  g[i] = IF i = 0 THEN 0 ELSE Plus(bytes, i, g[i - 1])
        OBVIOUS
      <3>1. CASE i = m + 1
        BY <3>1
      <3>2. CASE i \in 0..m
        BY <2>1, <3>2 DEF SumsTo
      <3> QED
        BY <3>1, <3>2
    <2>3. SumsTo(g, bytes, m + 1)
      BY <2>2 DEF SumsTo
    <2> QED
      BY <2>3
  <1> HIDE DEF S
  <1>3. Nat \subseteq S
    BY <1>1, <1>2, Induction
  <1> QED
    BY <1>3 DEF S

LEMMA FromLeIsSum ==
    ASSUME NEW bytes, NEW n \in Nat, Len(bytes) = n
    PROVE  \E f : /\ f[0] = 0
                  /\ \A i \in 1..n : f[i] = f[i - 1] + bytes[i] * Power[i - 1]
                  /\ FromLe(bytes) = f[n]
  <1>1. \E f : Sums(f, bytes)
    BY SumsExist DEF SumsTo, Sums, Plus
  <1>2. \E f : Sums(f, bytes) /\ FromLe(bytes) = f[Len(bytes)]
    BY <1>1 DEF FromLe, Sums
  <1>3. PICK f : Sums(f, bytes) /\ FromLe(bytes) = f[n]
    BY <1>2
  <1>4. f[0] = 0 /\ \A i \in 1..n : f[i] = f[i - 1] + bytes[i] * Power[i - 1]
    BY <1>3 DEF Sums
  <1> QED
    BY <1>3, <1>4

Byte == 0..(Base - 1)

\* As many digits as there are bytes.
LEMMA FromLeType ==
    ASSUME NEW bytes \in Seq(Byte)
    PROVE  FromLe(bytes) \in 0..(Power[Len(bytes)] - 1)
  <1> DEFINE n == Len(bytes)
  <1>1. n \in Nat /\ \A i \in 1..n : bytes[i] \in Byte
    OBVIOUS
  <1>2. PICK f : /\ f[0] = 0
                 /\ \A i \in 1..n : f[i] = f[i - 1] + bytes[i] * Power[i - 1]
                 /\ FromLe(bytes) = f[n]
    BY <1>1, FromLeIsSum
  <1> HIDE DEF n
  <1> DEFINE S == {i \in Nat : i <= n => f[i] \in Nat /\ f[i] < Power[i]}
  <1>3. 0 \in S
    BY <1>2, PowerFacts
  <1>4. ASSUME NEW i \in Nat, i \in S
        PROVE  i + 1 \in S
    <2> SUFFICES ASSUME i + 1 <= n
                 PROVE  f[i + 1] \in Nat /\ f[i + 1] < Power[i + 1]
      OBVIOUS
    <2> DEFINE p == Power[i]
               b == bytes[i + 1]
    <2>1. f[i] \in Nat /\ f[i] < p
      BY <1>1, <1>4
    <2>2. i + 1 \in 1..n /\ (i + 1) - 1 = i
      BY <1>1
    <2>3. f[i + 1] = f[i] + b * p
      BY <1>2, <2>2
    <2>4. b \in Nat /\ b < Base
      BY <1>1, <2>2, BaseType DEF Byte
    <2>5. p \in Nat /\ Power[i + 1] = Base * p
      BY PowerFacts
    <2> HIDE DEF p, b
    <2>6. p * b + p <= p * Base
      BY <2>4, <2>5, BaseType, Apart
    <2>7. p * b = b * p /\ p * Base = Base * p /\ b * p \in Nat /\ Base * p \in Nat
      BY <2>4, <2>5, BaseType
    <2> QED
      BY <2>1, <2>3, <2>5, <2>6, <2>7
  <1> HIDE DEF S
  <1>5. Nat \subseteq S
    BY <1>3, <1>4, Induction
  <1>6. f[n] \in Nat /\ f[n] < Power[n]
    BY <1>1, <1>5 DEF S
  <1>7. Power[n] \in Nat
    BY <1>1, PowerFacts
  <1>8. FromLe(bytes) \in 0..(Power[n] - 1)
    BY <1>2, <1>6, <1>7
  <1> QED
    BY <1>8 DEF n

LEMMA ToLeType ==
    ASSUME NEW n \in Nat, NEW width \in Nat
    PROVE  ToLe(n, width) \in Seq(Byte) /\ Len(ToLe(n, width)) = width
  <1>1. ASSUME NEW i \in 1..width
        PROVE  (n \div Power[i - 1]) % Base \in Byte
    <2>1. Power[i - 1] \in Nat /\ Power[i - 1] > 0
      BY PowerFacts
    <2>2. n \div Power[i - 1] \in Nat
      BY <2>1, Division
    <2> QED
      BY <2>2, BaseType, Division DEF Byte
  <1>2. ToLe(n, width) \in [1..width -> Byte]
    BY <1>1 DEF ToLe
  <1> QED
    BY <1>2

\* What is read of the bytes of a number is the number, as far as they reach.
LEMMA FromLeOfToLe ==
    ASSUME NEW n \in Nat, NEW width \in Nat
    PROVE  FromLe(ToLe(n, width)) = n % Power[width]
  <1> DEFINE bytes == ToLe(n, width)
  <1>1. Len(bytes) = width
    BY ToLeType
  <1>2. PICK f : /\ f[0] = 0
                 /\ \A i \in 1..width : f[i] = f[i - 1] + bytes[i] * Power[i - 1]
                 /\ FromLe(bytes) = f[width]
    BY <1>1, FromLeIsSum
  <1>3. \A i \in 1..width : bytes[i] = (n \div Power[i - 1]) % Base
    BY DEF ToLe
  <1> HIDE DEF bytes
  <1> DEFINE S == {i \in Nat : i <= width => f[i] = n % Power[i]}
  <1>4. 0 \in S
    <2>1. n % 1 = 0
      OBVIOUS
    <2> QED
      BY <1>2, <2>1, PowerFacts
  <1>5. ASSUME NEW i \in Nat, i \in S
        PROVE  i + 1 \in S
    <2> SUFFICES ASSUME i + 1 <= width
                 PROVE  f[i + 1] = n % Power[i + 1]
      OBVIOUS
    <2> DEFINE p == Power[i]
               d == (n \div p) % Base
    <2>1. f[i] = n % p
      BY <1>5
    <2>2. i + 1 \in 1..width /\ (i + 1) - 1 = i
      OBVIOUS
    <2>3. f[i + 1] = f[i] + d * p
      BY <1>2, <1>3, <2>2
    <2>4. p \in Nat /\ p > 0 /\ Power[i + 1] = Base * p
      BY PowerFacts
    <2>5. n % (p * Base) = p * d + (n % p)
      <3>1. Base \in Nat /\ Base > 0
        BY BaseType
      <3>2. p \in Nat /\ p > 0
        BY <2>4
      <3> HIDE DEF p
      <3> QED
        BY <3>1, <3>2, DivideTwice
    <2>6. n \div p \in Nat /\ n % p \in Nat
      BY <2>4, Division
    <2>7. d \in Nat
      BY <2>6, BaseType, Division
    <2> HIDE DEF p, d
    <2>8. p * Base = Base * p /\ p * d = d * p /\ d * p \in Nat
      BY <2>4, <2>7, BaseType
    <2> QED
      BY <2>1, <2>3, <2>4, <2>5, <2>6, <2>8
  <1> HIDE DEF S
  <1>6. Nat \subseteq S
    BY <1>4, <1>5, Induction
  <1> QED
    BY <1>2, <1>6 DEF S, bytes

-----------------------------------------------------------------------------
(***************************************************************************)
(* Words and buffers.                                                      *)
(***************************************************************************)
LEMMA Widths ==
    /\ WordBytes \in Nat /\ WordBytes > 0
    /\ Limbs \in Nat /\ Limbs > 0
    /\ BufferBytes \in Nat
  <1>1. WordBytes \in Nat /\ WordBytes > 0 /\ Limbs \in Nat /\ Limbs > 0
    BY CodecAssumption
  <1> QED
    BY <1>1 DEF BufferBytes

\* A word is read back.
LEMMA FromWordOfToWord ==
    ASSUME NEW n \in Word
    PROVE  FromWord(ToWord(n)) = n
  <1>1. Power[WordBytes] \in Nat /\ n \in Nat /\ n < Power[WordBytes]
    BY Widths, PowerFacts DEF Word
  <1>2. n % Power[WordBytes] = n
    BY <1>1, ModuloOfSmall
  <1> QED
    BY <1>1, <1>2, Widths, FromLeOfToLe DEF FromWord, ToWord

\* Where the i-th byte of a buffer is: byte k of word j.
LEMMA PlaceOfByte ==
    ASSUME NEW i \in 1..BufferBytes
    PROVE  LET j == (i - 1) \div WordBytes
               k == (i - 1) % WordBytes
           IN  /\ j + 1 \in 1..Limbs
               /\ k + 1 \in 1..WordBytes
               /\ k < WordBytes
               /\ WordBytes * j + k = i - 1
               /\ j \in Nat /\ k \in Nat
  <1> DEFINE j == (i - 1) \div WordBytes
             k == (i - 1) % WordBytes
  <1>1. i \in Nat /\ i - 1 \in Nat /\ i - 1 < WordBytes * Limbs
    BY Widths DEF BufferBytes
  <1>2. /\ j \in Nat /\ k \in Nat /\ k < WordBytes
        /\ i - 1 = WordBytes * j + k
    BY <1>1, Widths, Division
  <1> HIDE DEF j, k
  <1>3. ~(Limbs <= j)
    <2> SUFFICES ASSUME Limbs <= j
                 PROVE  FALSE
      OBVIOUS
    <2>1. WordBytes * Limbs <= WordBytes * j
      <3>1. CASE Limbs = j
        BY <3>1, <1>2, Widths
      <3>2. CASE Limbs < j
        BY <3>2, <1>2, Widths, Apart
      <3> QED
        BY <3>1, <3>2, <1>2, Widths
    <2>2. WordBytes * Limbs \in Nat /\ WordBytes * j \in Nat
      BY <1>2, Widths
    <2> QED
      BY <2>1, <2>2, <1>1, <1>2
  <1>4. j + 1 \in 1..Limbs /\ k + 1 \in 1..WordBytes
    BY <1>2, <1>3, Widths
  <1> QED
    BY <1>2, <1>4 DEF j, k

\* The bytes of the words of a number are the bytes of the number.
LEMMA BytesOfLimbs ==
    ASSUME NEW n \in Nat
    PROVE  U64ArrayToU8ArrayLe(LimbsOf(n)) = ToLe(n, BufferBytes)
  <1> DEFINE words == LimbsOf(n)
             Byte_(i) == ToWord(words[((i - 1) \div WordBytes) + 1])[((i - 1) % WordBytes) + 1]
  <1>1. Len(words) = Limbs
    BY Widths DEF LimbsOf
  <1>2. ASSUME NEW j \in 1..Limbs
        PROVE  words[j] = (n \div Power[WordBytes * (j - 1)]) % Power[WordBytes]
    BY DEF LimbsOf
  <1> HIDE DEF words
  <1>3. ASSUME NEW i \in 1..BufferBytes
        PROVE  Byte_(i) = (n \div Power[i - 1]) % Base
    <2> DEFINE j == (i - 1) \div WordBytes
               k == (i - 1) % WordBytes
               m == n \div Power[WordBytes * j]
    <2>1. /\ j + 1 \in 1..Limbs
          /\ k + 1 \in 1..WordBytes
          /\ k < WordBytes
          /\ WordBytes * j + k = i - 1
          /\ j \in Nat /\ k \in Nat
      BY PlaceOfByte
    <2>2. Byte_(i) = ToWord(words[j + 1])[k + 1]
      OBVIOUS
    <2> HIDE DEF j, k, Byte_
    <2>3. words[j + 1] = m % Power[WordBytes]
      <3>1. (j + 1) - 1 = j
        BY <2>1
      <3> QED
        BY <1>2, <2>1, <3>1
    <2>4. WordBytes * j \in Nat
      BY <2>1, Widths
    <2>5. m \in Nat
      BY <2>4, PowerFacts, Division
    <2>6. n \div Power[i - 1] = m \div Power[k]
      <3>1. (n \div Power[WordBytes * j]) \div Power[k] = n \div Power[WordBytes * j + k]
        BY <2>1, <2>4, DigitOfHighEnd
      <3> QED
        BY <2>1, <3>1
    <2> HIDE DEF m
    <2>7. ToWord(words[j + 1])[k + 1] = ((m % Power[WordBytes]) \div Power[k]) % Base
      <3>1. (k + 1) - 1 = k
        BY <2>1
      <3> QED
        BY <2>1, <2>3, <3>1 DEF ToWord, ToLe
    <2>8. ((m % Power[WordBytes]) \div Power[k]) % Base = (m \div Power[k]) % Base
      BY <2>1, <2>5, Widths, DigitOfLowEnd
    <2> QED
      BY <2>2, <2>6, <2>7, <2>8
  <1>4. U64ArrayToU8ArrayLe(words) = [i \in 1..BufferBytes |-> Byte_(i)]
    BY <1>1 DEF U64ArrayToU8ArrayLe, BufferBytes
  <1>5. ToLe(n, BufferBytes) = [i \in 1..BufferBytes |-> (n \div Power[i - 1]) % Base]
    BY DEF ToLe
  <1> HIDE DEF Byte_
  <1> QED
    BY <1>3, <1>4, <1>5 DEF words

LEMMA ReverseTwice ==
    ASSUME NEW S, NEW s \in Seq(S)
    PROVE  /\ Reverse(s) \in Seq(S)
           /\ Len(Reverse(s)) = Len(s)
           /\ Reverse(Reverse(s)) = s
  <1> DEFINE n == Len(s)
             r == Reverse(s)
  <1>1. n \in Nat /\ s \in [1..n -> S]
    OBVIOUS
  <1>2. r = [i \in 1..n |-> s[(n - i) + 1]]
    BY DEF Reverse
  <1> HIDE DEF n
  <1>3. r \in [1..n -> S]
    BY <1>1, <1>2
  <1> HIDE DEF r
  <1>4. r \in Seq(S) /\ Len(r) = n
    BY <1>1, <1>3
  <1>5. Reverse(r) = [i \in 1..n |-> r[(n - i) + 1]]
    BY <1>4 DEF Reverse
  <1>6. \A i \in 1..n : r[(n - i) + 1] = s[i]
    BY <1>1, <1>2
  <1>7. Reverse(r) = s
    BY <1>1, <1>5, <1>6
  <1> QED
    BY <1>4, <1>7 DEF r, n

\* A buffer has its width, and what is put into it comes out.
LEMMA BufferType ==
    ASSUME NEW n \in Nat
    PROVE  To32ByteBuffer(n) \in Seq(Byte) /\ Len(To32ByteBuffer(n)) = BufferBytes
  <1>1. ToLe(n, BufferBytes) \in Seq(Byte) /\ Len(ToLe(n, BufferBytes)) = BufferBytes
    BY Widths, ToLeType
  <1> QED
    BY <1>1, ReverseTwice DEF To32ByteBuffer

LEMMA BufferIsRead ==
    ASSUME NEW n \in Nat, n < R
    PROVE  From32ByteBuffer(To32ByteBuffer(n)) = n
  <1>1. ToLe(n, BufferBytes) \in Seq(Byte)
    BY Widths, ToLeType
  <1>2. Reverse(To32ByteBuffer(n)) = ToLe(n, BufferBytes)
    BY <1>1, ReverseTwice DEF To32ByteBuffer
  <1>3. FromLe(ToLe(n, BufferBytes)) = n % Power[BufferBytes]
    BY Widths, FromLeOfToLe
  <1>4. n % Power[BufferBytes] = n
    BY Widths, PowerFacts, ModuloOfSmall DEF R
  <1> QED
    BY <1>2, <1>3, <1>4 DEF From32ByteBuffer

\* A coordinate is written as a buffer is.
LEMMA FqBytesIsBuffer ==
    ASSUME NEW n \in Nat
    PROVE  FqBytes(n) = To32ByteBuffer(n)
  BY BytesOfLimbs DEF FqBytes, BigintToBytesBe, To32ByteBuffer

-----------------------------------------------------------------------------
(***************************************************************************)
(* Montgomery form, and the commitment.                                    *)
(***************************************************************************)
LEMMA FieldType ==
    /\ P \in Nat /\ P > 1 /\ P < R
    /\ Q \in Nat /\ Q > 1 /\ Q < R
    /\ R \in Nat /\ Ri \in Nat
  <1>1. P \in Nat /\ P > 1 /\ Q \in Nat /\ Q > 1 /\ P < R /\ Q < R
    BY CodecAssumption
  <1>2. Ri \in Nat
    BY CodecAssumption
  <1> QED
    BY <1>1, <1>2, Widths, PowerFacts DEF R

\* A factor may be reduced before it is multiplied by.
LEMMA ModuloOfProduct ==
    ASSUME NEW a \in Nat, NEW b \in Nat, NEW p \in Nat, p > 0
    PROVE  ((a % p) * b) % p = (a * b) % p
  <1> DEFINE q == a \div p
             r == a % p
             u == (r * b) \div p
             v == (r * b) % p
  <1>1. q \in Nat /\ r \in Nat /\ a = p * q + r
    BY Division
  <1>2. r * b \in Nat
    BY <1>1
  <1>3. u \in Nat /\ v \in Nat /\ v < p /\ r * b = p * u + v
    BY <1>2, Division
  <1> HIDE DEF q, r, u, v
  <1>4. a * b = p * (q * b + u) + v
    <2>1. a * b = p * (q * b) + r * b
      BY <1>1
    <2>2. p * (q * b + u) = p * (q * b) + p * u
      BY <1>1, <1>3
    <2>3. p * (q * b) \in Nat /\ p * u \in Nat
      BY <1>1, <1>3
    <2> QED
      BY <2>1, <2>2, <2>3, <1>3
  <1>5. q * b + u \in Nat
    BY <1>1, <1>3
  <1>6. (p * (q * b + u) + v) % p = v
    BY <1>3, <1>5, Quotient
  <1> QED
    BY <1>4, <1>6 DEF r, v

\* Into the Montgomery form and out of it.
LEMMA MontgomeryIsRead ==
    ASSUME NEW z \in Fr
    PROVE  (((z * R) % P) * Ri) % P = z
  <1>1. z \in Nat /\ z < P
    BY FieldType DEF Fr
  <1>2. z * R \in Nat /\ R * Ri \in Nat
    BY <1>1, FieldType
  <1>3. (((z * R) % P) * Ri) % P = ((z * R) * Ri) % P
    <2>1. P \in Nat /\ P > 0 /\ Ri \in Nat
      BY FieldType
    <2> QED
      BY <1>2, <2>1, ModuloOfProduct
  <1>4. (z * R) * Ri = (R * Ri) * z
    BY <1>1, FieldType
  <1>5. ((R * Ri) * z) % P = (((R * Ri) % P) * z) % P
    BY <1>1, <1>2, FieldType, ModuloOfProduct
  <1>6. (R * Ri) % P = 1
    BY CodecAssumption
  <1>7. 1 * z = z /\ z % P = z
    BY <1>1, FieldType, ModuloOfSmall
  <1> QED
    BY <1>3, <1>4, <1>5, <1>6, <1>7

\* For any widths, prime and hash: the bytes that a swap sends as its commitment
\* hold the hash of its minimum and salt, out of the Montgomery form in which
\* the hash lies in memory, and are the bytes the circuits are given for it.
THEOREM CommitmentIsRead ==
    ASSUME NEW min_out \in Word, NEW salt \in Seq(Byte), Len(salt) = WordBytes
    PROVE  /\ CommitmentBytes(min_out, salt) \in Seq(Byte)
           /\ Len(CommitmentBytes(min_out, salt)) = BufferBytes
           /\ From32ByteBuffer(CommitmentBytes(min_out, salt)) =
                  Poseidon(min_out % P, FromWord(salt) % P)
           /\ From32ByteBuffer(CommitmentBytes(min_out, salt)) \in Fr
           /\ CommitmentBytes(min_out, salt) =
                  To32ByteBuffer(Poseidon(min_out % P, FromWord(salt) % P))
  <1> DEFINE z == Poseidon(min_out % P, FromWord(salt) % P)
             m == (z * R) % P
  <1>1. FromWord(salt) \in Word
    BY FromLeType DEF FromWord, Word
  <1>2. z \in Fr
    BY <1>1, CodecAssumption
  <1>3. ComputePoseidonHashWithSalt(min_out, salt) = LimbsOf(m)
    BY DEF ComputePoseidonHashWithSalt
  <1> HIDE DEF z
  <1>4. z \in Nat /\ z < P
    BY <1>2, FieldType DEF Fr
  <1>5. z * R \in Nat
    BY <1>4, FieldType
  <1>6. m \in Nat /\ m < R
    <2>1. m \in Nat /\ m < P
      BY <1>5, FieldType, Division
    <2> QED
      BY <2>1, FieldType
  <1>7. (m * Ri) % P = z
    BY <1>2, MontgomeryIsRead
  <1> HIDE DEF m
  <1>8. FromLe(ToLe(m, BufferBytes)) = m
    <2>1. FromLe(ToLe(m, BufferBytes)) = m % Power[BufferBytes]
      BY <1>6, Widths, FromLeOfToLe
    <2>2. m % Power[BufferBytes] = m
      BY <1>6, Widths, PowerFacts, ModuloOfSmall DEF R
    <2> QED
      BY <2>1, <2>2
  <1>9. BytesToBigint(U64ArrayToU8ArrayLe(LimbsOf(m))) = z
    BY <1>6, <1>7, <1>8, BytesOfLimbs DEF BytesToBigint
  <1>10. CommitmentBytes(min_out, salt) = To32ByteBuffer(z)
    BY <1>3, <1>9 DEF CommitmentBytes
  <1>11. z < R
    BY <1>4, FieldType
  <1> QED
    BY <1>2, <1>4, <1>10, <1>11, BufferType, BufferIsRead DEF z
=============================================================================
