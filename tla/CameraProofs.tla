---------------------------- MODULE CameraProofs ----------------------------
(***************************************************************************)
(* Proofs about the camera and its viewer: that the decoder gives back     *)
(* what the encoder wrote, that no report holds a line copied half, so     *)
(* that every line is shown as it was seen, that the stimulus follows the  *)
(* phase of the cycle, and that a frame taken consists of fresh lines.     *)
(***************************************************************************)
EXTENDS Camera, SequenceTheorems, WellFoundedInduction, TLAPS

-----------------------------------------------------------------------------
(* Induction. *)

\* A non-empty set of natural numbers has a least element.
LEMMA LeastExists ==
  ASSUME NEW S \in SUBSET Nat, S # {}
  PROVE  \E m \in S : \A c \in S : m <= c
<1> DEFINE R == OpToRel(<, Nat)
<1>1. IsWellFoundedOn(R, Nat)
  BY NatLessThanWellFounded, Zenon
<1>2. \A p, q \in Nat : p < q => <<p, q>> \in R
  BY DEF OpToRel
<1>3. PICK m \in S : \A c \in S : ~(<<c, m>> \in R)
  <2> HIDE DEF R
  <2> QED
    BY <1>1, WFMin
<1>4. ASSUME NEW c \in S PROVE m <= c
  <2>1. m \in Nat /\ c \in Nat /\ (c < m => <<c, m>> \in R)
    BY <1>2
  <2> HIDE DEF R
  <2> QED
    BY <1>3, <2>1
<1> QED
  BY <1>4

\* A set that has 0, and the successor of every number it has, has them all.
LEMMA NaturalInduction ==
  ASSUME NEW T, 0 \in T, \A c \in Nat : c \in T => c + 1 \in T
  PROVE  Nat \subseteq T
<1> SUFFICES ASSUME Nat \ T # {} PROVE FALSE
  OBVIOUS
<1>1. PICK c \in Nat \ T : \A m \in Nat \ T : c <= m
  BY LeastExists
<1>2. c # 0 /\ c - 1 \in Nat /\ c - 1 + 1 = c /\ ~(c <= c - 1)
  OBVIOUS
<1>3. c - 1 \in T
  BY <1>1, <1>2
<1> QED
  BY <1>2, <1>3

-----------------------------------------------------------------------------
(* The bits of a number. *)

\* The least element of a set is the one that is chosen.
LEMMA LeastChosen ==
  ASSUME NEW S \in SUBSET Int, NEW m \in S, \A j \in S : m <= j
  PROVE  m = CHOOSE k \in S : \A j \in S : k <= j
<1> DEFINE First(k) == k \in S /\ \A j \in S : k <= j
<1>1. First(m)
  OBVIOUS
<1>2. ASSUME NEW k, First(k) PROVE k = m
  <2>1. k \in Int /\ m \in Int /\ k <= m /\ m <= k
    BY <1>2
  <2> QED
    BY <2>1
<1>3. (CHOOSE k \in S : \A j \in S : k <= j) = CHOOSE k : First(k)
  BY Zenon
<1>4. m = CHOOSE k : First(k)
  <2> HIDE DEF First
  <2> QED
    BY <1>1, <1>2
<1> QED
  BY <1>3, <1>4

\* 1 << c doubles at every c.
LEMMA BitDoubles ==
  /\ Bit[0] = 1
  /\ \A c \in 1 .. 30 : Bit[c] = 2 * Bit[c - 1]
<1> DEFINE Is(f) == f = [c \in 0 .. 30 |-> IF c = 0 THEN 1 ELSE 2 * f[c - 1]]
           Up(m, f) == f = [c \in 0 .. m |-> IF c = 0 THEN 1 ELSE 2 * f[c - 1]]
           T == {m \in Nat : \E f : Up(m, f)}
<1>1. 0 \in T
  <2> DEFINE f0 == [c \in 0 .. 0 |-> 1]
  <2>1. Up(0, f0)
    OBVIOUS
  <2> HIDE DEF Up
  <2> QED
    BY <2>1
<1>2. ASSUME NEW m \in Nat, m \in T PROVE m + 1 \in T
  <2>1. PICK f : Up(m, f)
    BY <1>2
  <2> DEFINE g == [c \in 0 .. m + 1 |-> IF c = m + 1 THEN 2 * f[m] ELSE f[c]]
  <2>2. Up(m + 1, g)
    <3>1. ASSUME NEW c \in 0 .. m + 1 PROVE g[c] = IF c = 0 THEN 1 ELSE 2 * g[c - 1]
      <4>1. CASE c = m + 1
        <5>1. g[c] = 2 * f[m] /\ c - 1 = m /\ m \in 0 .. m + 1 /\ m # m + 1 /\ c # 0
          BY <4>1
        <5>2. g[c - 1] = f[m]
          BY <5>1
        <5> QED
          BY <5>1, <5>2
      <4>2. CASE c = 0
        <5>1. g[c] = f[0] /\ 0 \in 0 .. m
          BY <4>2
        <5>2. f[0] = 1
          BY <2>1, <5>1
        <5> QED
          BY <4>2, <5>1, <5>2
      <4>3. CASE c \in 1 .. m
        <5>1. c \in 0 .. m /\ c # 0 /\ c # m + 1 /\ c - 1 \in 0 .. m + 1 /\ c - 1 # m + 1
          BY <4>3
        <5>2. g[c] = f[c] /\ g[c - 1] = f[c - 1]
          BY <5>1
        <5>3. f[c] = 2 * f[c - 1]
          BY <2>1, <5>1
        <5> QED
          BY <5>1, <5>2, <5>3
      <4> QED
        BY <4>1, <4>2, <4>3
    <3>2. g = [c \in 0 .. m + 1 |-> g[c]]
      OBVIOUS
    <3> HIDE DEF g
    <3> QED
      BY <3>1, <3>2
  <2> HIDE DEF Up
  <2> QED
    BY <2>2
<1>3. \E f : Is(f)
  <2> HIDE DEF T
  <2>1. 30 \in T
    BY <1>1, <1>2, NaturalInduction
  <2> QED
    BY <2>1 DEF T
<1>4. Bit = CHOOSE f : Is(f)
  BY Zenon DEF Bit
<1>5. Is(Bit)
  <2> HIDE DEF Is
  <2> QED
    BY <1>3, <1>4
<1> QED
  BY <1>5

LEMMA BitFacts ==
  /\ \A c \in 0 .. 30 : Bit[c] \in Nat \ {0}
  /\ \A m, c \in 0 .. 30 : m <= c => Bit[m] <= Bit[c]
  /\ Bit[15] = 32768
<1> DEFINE T == {c \in Nat : c <= 30 => Bit[c] \in Nat \ {0}}
<1>1. \A c \in 0 .. 30 : Bit[c] \in Nat \ {0}
  <2>1. 0 \in T
    BY BitDoubles
  <2>2. ASSUME NEW c \in Nat, c \in T PROVE c + 1 \in T
    <3>1. CASE c + 1 <= 30
      <4>1. c + 1 \in 1 .. 30 /\ c + 1 - 1 = c
        BY <3>1
      <4>2. Bit[c] \in Nat \ {0}
        BY <2>2, <4>1
      <4>3. Bit[c + 1] = 2 * Bit[c]
        BY <4>1, BitDoubles
      <4> QED
        BY <4>2, <4>3
    <3> QED
      BY <3>1
  <2> HIDE DEF T
  <2>3. Nat \subseteq T
    BY <2>1, <2>2, NaturalInduction
  <2> QED
    BY <2>3 DEF T
<1>2. ASSUME NEW m \in 0 .. 30, NEW c \in 0 .. 30, m <= c PROVE Bit[m] <= Bit[c]
  <2> DEFINE U == {k \in Nat : m + k <= 30 => Bit[m] <= Bit[m + k]}
  <2>1. 0 \in U
    BY <1>1
  <2>2. ASSUME NEW k \in Nat, k \in U PROVE k + 1 \in U
    <3>1. CASE m + (k + 1) <= 30
      <4>1. m + (k + 1) \in 1 .. 30 /\ m + (k + 1) - 1 = m + k /\ m + k \in 0 .. 30
        BY <3>1
      <4>2. Bit[m + (k + 1)] = 2 * Bit[m + k]
        BY <4>1, BitDoubles
      <4>3. Bit[m] <= Bit[m + k]
        BY <2>2, <4>1
      <4>4. Bit[m] \in Nat /\ Bit[m + k] \in Nat
        BY <1>1, <4>1
      <4> QED
        BY <4>2, <4>3, <4>4
    <3> QED
      BY <3>1
  <2>3. Nat \subseteq U
    <3> HIDE DEF U
    <3> QED
      BY <2>1, <2>2, NaturalInduction
  <2>4. c - m \in Nat /\ m + (c - m) = c /\ c <= 30
    BY <1>2
  <2>5. c - m \in U
    <3> HIDE DEF U
    <3> QED
      BY <2>3, <2>4
  <2>6. m + (c - m) <= 30 => Bit[m] <= Bit[m + (c - m)]
    BY <2>5
  <2> QED
    BY <2>4, <2>6
<1>3. Bit[15] = 32768
  <2>1. Bit[5] = 32
    BY BitDoubles
  <2>2. Bit[10] = 1024
    BY <2>1, BitDoubles
  <2> QED
    BY <2>2, BitDoubles
<1> QED
  BY <1>1, <1>2, <1>3

\* Dropping one bit more halves what is left, rounded down.
LEMMA HalfOfQuotient ==
  ASSUME NEW v \in Nat, NEW q \in Nat \ {0}
  PROVE  v \div q \in Nat /\ v \div (2 * q) = (v \div q) \div 2
<1>1. ASSUME NEW a \in Nat, NEW r \in 0 .. q - 1, v = q * a + r
      PROVE  v \div (2 * q) = a \div 2
  <2>1. PICK b \in Nat, c \in {0, 1} : a = 2 * b + c
    <3>1. a \div 2 \in Nat /\ a % 2 \in {0, 1} /\ a = 2 * (a \div 2) + (a % 2)
      OBVIOUS
    <3> QED
      BY <3>1
  <2>2. v = (2 * q) * b + (q * c + r)
    BY <1>1, <2>1
  <2>3. q * c + r \in 0 .. 2 * q - 1
    <3>1. CASE c = 0
      BY <3>1
    <3>2. CASE c = 1
      BY <3>2
    <3> QED
      BY <3>1, <3>2
  <2>4. \A m \in Nat \ {0}, s \in Nat, k \in Nat : s < m => (m * k + s) \div m = k
    OBVIOUS
  <2>5. v \div (2 * q) = b
    BY <2>2, <2>3, <2>4
  <2>6. a \div 2 = b
    BY <2>1
  <2> QED
    BY <2>5, <2>6
<1>2. v \div q \in Nat /\ v % q \in 0 .. q - 1 /\ v = q * (v \div q) + (v % q)
  OBVIOUS
<1> QED
  BY <1>1, <1>2

\* The highest bit of a number, and how many there are.
LEMMA BitLengthIs ==
  ASSUME NEW v \in Nat, Bit[K] <= v, v < 2 * Bit[30]
  PROVE  BitLength(v) \in K + 1 .. 31 /\ v \div Bit[BitLength(v) - 1] = 1
<1>1. \A c \in 0 .. 30 : Bit[c] \in Nat \ {0}
  BY BitFacts
<1> DEFINE S == {c \in 0 .. 30 : v < 2 * Bit[c]}
<1>2. PICK c \in S : \A m \in S : c <= m
  <2>1. S \in SUBSET Nat /\ 30 \in S
    OBVIOUS
  <2> HIDE DEF S
  <2> QED
    BY <2>1, LeastExists
<1>3. c \in 0 .. 30 /\ v < 2 * Bit[c] /\ Bit[c] \in Nat \ {0}
  BY <1>1
<1>4. Bit[c] <= v
  <2>1. CASE c = 0
    <3>1. Bit[K] \in Nat \ {0} /\ Bit[0] = 1
      BY <1>1, BitDoubles, GolombAssumption
    <3> QED
      BY <2>1, <3>1
  <2>2. CASE c # 0
    <3>1. c - 1 \in 0 .. 30 /\ c \in 1 .. 30 /\ ~(c <= c - 1)
      BY <1>3, <2>2
    <3>2. c - 1 \notin S
      BY <1>2, <3>1
    <3>3. ~(v < 2 * Bit[c - 1]) /\ Bit[c] = 2 * Bit[c - 1] /\ Bit[c - 1] \in Nat
      BY <1>1, <3>1, <3>2, BitDoubles
    <3> QED
      BY <1>3, <3>3
  <2> QED
    BY <2>1, <2>2
<1>5. v \div Bit[c] = 1
  <2>1. \A q \in Nat \ {0} : q <= v /\ v < 2 * q => v \div q = 1
    OBVIOUS
  <2> QED
    BY <1>3, <1>4, <2>1
<1>6. c + 1 \in 1 .. 31 /\ v \div Bit[c + 1 - 1] = 1
  BY <1>3, <1>5
<1>7. BitLength(v) \in 1 .. 31 /\ v \div Bit[BitLength(v) - 1] = 1
  <2> DEFINE P(m) == v \div Bit[m - 1] = 1
  <2>1. \E m \in 1 .. 31 : P(m)
    BY <1>6
  <2>2. BitLength(v) = CHOOSE m \in 1 .. 31 : P(m)
    BY DEF BitLength
  <2>3. BitLength(v) \in 1 .. 31 /\ P(BitLength(v))
    <3> HIDE DEF P
    <3> QED
      BY <2>1, <2>2
  <2> QED
    BY <2>3
<1>8. BitLength(v) > K
  <2> SUFFICES ASSUME NEW l \in 1 .. 31, v \div Bit[l - 1] = 1, l <= K PROVE FALSE
    BY <1>7, GolombAssumption
  <2>2. l \in 1 .. 30 /\ l - 1 \in 0 .. 30 /\ K \in 0 .. 30
    BY GolombAssumption
  <2>3. Bit[l - 1] \in Nat \ {0} /\ Bit[l] \in Nat /\ Bit[K] \in Nat
    BY <1>1, <2>2
  <2>6. Bit[l] = 2 * Bit[l - 1]
    BY <2>2, BitDoubles, Zenon
  <2>5. Bit[l] <= Bit[K]
    BY <2>2, BitFacts
  <2>4. \A q \in Nat \ {0} : 2 * q <= v => v \div q # 1
    OBVIOUS
  <2> QED
    BY <2>3, <2>4, <2>5, <2>6
<1> QED
  BY <1>7, <1>8, GolombAssumption

\* The bits of a number, the highest first, make the number.
LEMMA BitsMakeNumber ==
  ASSUME NEW v \in Nat, NEW c \in 1 .. 31, v \div Bit[c - 1] = 1,
         NEW bits, NEW p \in Nat,
         \A i \in 1 .. c : bits[p + i] = (v \div Bit[c - i]) % 2
  PROVE  NumberAt(bits, p, c) = v
<1> DEFINE w == [i \in 0 .. c |-> IF i = 0 THEN 0 ELSE v \div Bit[c - i]]
           Is(f) == f = [i \in 0 .. c |-> IF i = 0 THEN 0 ELSE 2 * f[i - 1] + bits[p + i]]
<1>1. ASSUME NEW i \in 1 .. c PROVE Bit[c - i] \in Nat \ {0}
  <2>1. c - i \in 0 .. 30
    OBVIOUS
  <2> QED
    BY <2>1, BitFacts
<1>a. \A i \in 1 .. c : i \in 0 .. c /\ i # 0 /\ i - 1 \in 0 .. c
  OBVIOUS
<1>b. 0 \in 0 .. c /\ c \in 0 .. c /\ c # 0 /\ c - c = 0
  OBVIOUS
<1>2. ASSUME NEW i \in 1 .. c PROVE w[i] = 2 * w[i - 1] + bits[p + i]
  <2>1. w[i] = v \div Bit[c - i] /\ i - 1 \in 0 .. c
    BY <1>a, Zenon
  <2>2. CASE i = 1
    <3>1. w[i] = 1 /\ w[i - 1] = 0 /\ bits[p + i] = 1 % 2
      BY <2>1, <2>2
    <3> QED
      BY <3>1
  <2>3. CASE i # 1
    <3>1. c - (i - 1) \in 1 .. 30 /\ c - (i - 1) - 1 = c - i /\ i - 1 # 0
      BY <2>3
    <3>2. Bit[c - (i - 1)] = 2 * Bit[c - i]
      BY <3>1, BitDoubles
    <3>3. w[i - 1] = v \div Bit[c - (i - 1)]
      BY <2>1, <3>1
    <3>4. v \div Bit[c - i] \in Nat /\ w[i - 1] = (v \div Bit[c - i]) \div 2
      BY <1>1, <3>2, <3>3, HalfOfQuotient
    <3>5. \A a \in Nat : a = 2 * (a \div 2) + (a % 2)
      OBVIOUS
    <3>6. bits[p + i] = (v \div Bit[c - i]) % 2
      OBVIOUS
    <3> HIDE DEF w
    <3> QED
      BY <2>1, <3>4, <3>5, <3>6
  <2> QED
    BY <2>2, <2>3
<1>3. w = [i \in 0 .. c |-> w[i]] /\ w[0] = 0
  BY <1>b, Zenon
<1>4. w[c] = v
  <2>1. w[c] = v \div Bit[c - c]
    BY <1>b, Zenon
  <2>2. \A x \in Nat : x \div 1 = x
    OBVIOUS
  <2> HIDE DEF w
  <2> QED
    BY <1>b, <2>1, <2>2, BitDoubles
<1> HIDE DEF w
<1>5. Is(w)
  <2>1. \A i \in 0 .. c : w[i] = IF i = 0 THEN 0 ELSE 2 * w[i - 1] + bits[p + i]
    <3>1. \A i \in 0 .. c : i = 0 \/ i \in 1 .. c
      OBVIOUS
    <3> QED
      BY <1>2, <1>3, <3>1
  <2> QED
    BY <1>3, <2>1
<1>6. ASSUME NEW f, Is(f) PROVE f[c] = v
  <2> DEFINE T == {i \in Nat : i <= c => f[i] = w[i]}
  <2>4. \A i \in 1 .. c : f[i] = 2 * f[i - 1] + bits[p + i]
    BY <1>a, <1>6, Zenon
  <2>1. 0 \in T
    <3>1. 0 \in 0 .. c
      OBVIOUS
    <3>2. f[0] = 0
      BY <1>6, <3>1
    <3> QED
      BY <1>3, <3>2
  <2>2. ASSUME NEW i \in Nat, i \in T PROVE i + 1 \in T
    <3>1. CASE i + 1 <= c
      <4>1. i + 1 \in 1 .. c /\ i + 1 \in 0 .. c /\ i + 1 # 0 /\ i + 1 - 1 = i
        BY <3>1
      <4>2. f[i + 1] = 2 * f[i] + bits[p + (i + 1)]
        BY <2>4, <4>1
      <4>3. w[i + 1] = 2 * w[i] + bits[p + (i + 1)]
        BY <1>2, <4>1
      <4>4. f[i] = w[i]
        BY <2>2, <4>1
      <4> QED
        BY <4>2, <4>3, <4>4
    <3> QED
      BY <3>1
  <2> HIDE DEF T
  <2>3. c \in T
    BY <2>1, <2>2, NaturalInduction
  <2> QED
    BY <1>4, <2>3 DEF T
<1>7. NumberAt(bits, p, c) = (CHOOSE f : Is(f))[c]
  BY Zenon DEF NumberAt
<1> HIDE DEF Is
<1>8. Is(CHOOSE f : Is(f))
  BY <1>5
<1> QED
  BY <1>6, <1>7, <1>8

-----------------------------------------------------------------------------
(* The code of one number. *)

\* br_golomb() gives back the number bw_golomb() was given, for every number.
THEOREM SignedComesBack ==
  ASSUME NEW d \in Int
  PROVE  ToUnsigned(d) \in Nat /\ ToSigned(ToUnsigned(d)) = d
  BY DEF ToUnsigned, ToSigned

\* Adding 2^K before the code is written keeps numbers apart: no two share one.
THEOREM UnsignedApart ==
  ASSUME NEW d \in Int, NEW e \in Int, ToUnsigned(d) = ToUnsigned(e)
  PROVE  d = e
  BY SignedComesBack

\* The number pixels are below, and the differences between two of them.
Top        == 16384
Difference == {d \in Int : -Top < d /\ d < Top}

\* The number the code of d shows, and the bits it takes.
Shifted(d) == ToUnsigned(d) + Bit[K]
Places(d)  == BitLength(Shifted(d))
Zeros(d)   == Places(d) - (K + 1)

\* Sums that the proofs below need.
LEMMA SumsOfCode ==
  /\ \A u, k, t \in Nat : u < t /\ k <= t
       => u + k \in Nat /\ (u + k) - k = u /\ k <= u + k /\ u + k < 2 * t
  /\ \A c, k \in Int : k >= 0 /\ c \in k + 1 .. 31
       => c \in 1 .. 31 /\ c = k + 1 + (c - (k + 1))
  /\ \A p, z, i \in Int : p + (z + i) = p + z + i
  /\ \A z, c, i \in Nat : i \in 1 .. c => z + i \in 1 .. z + c
<1>1. \A u, k, t \in Nat : u < t /\ k <= t
       => u + k \in Nat /\ (u + k) - k = u /\ k <= u + k /\ u + k < 2 * t
  OBVIOUS
<1>2. \A c, k \in Int : k >= 0 /\ c \in k + 1 .. 31
       => c \in 1 .. 31 /\ c = k + 1 + (c - (k + 1))
  OBVIOUS
<1>3. \A p, z, i \in Int : p + (z + i) = p + z + i
  OBVIOUS
<1>4. \A z, c, i \in Nat : i \in 1 .. c => z + i \in 1 .. z + c
  OBVIOUS
<1> QED
  BY <1>1, <1>2, <1>3, <1>4

LEMMA ShiftedFits ==
  ASSUME NEW d \in Difference
  PROVE  /\ Shifted(d) \in Nat /\ Shifted(d) - Bit[K] = ToUnsigned(d)
         /\ Places(d) \in K + 1 .. 31 /\ Zeros(d) \in 0 .. 30
         /\ Shifted(d) \div Bit[Places(d) - 1] = 1
<1>1. ToUnsigned(d) \in Nat /\ ToUnsigned(d) < 32768
  <2>1. d \in Int /\ -16384 < d /\ d < 16384
    BY DEF Difference, Top
  <2>2. ToUnsigned(d) \in Nat
    BY <2>1, SignedComesBack
  <2>3. ToUnsigned(d) = 2 * d - 1 \/ ToUnsigned(d) = -2 * d
    BY DEF ToUnsigned
  <2> QED
    BY <2>1, <2>2, <2>3
<1>2. K \in 0 .. 30 /\ 15 \in 0 .. 30 /\ 30 \in 0 .. 30
  BY GolombAssumption
<1>3. /\ Bit[K] \in Nat /\ Bit[15] \in Nat /\ Bit[30] \in Nat
      /\ Bit[K] <= Bit[30] /\ Bit[15] <= Bit[30] /\ Bit[15] = 32768
  BY <1>2, BitFacts
<1>4. /\ Shifted(d) \in Nat /\ Shifted(d) - Bit[K] = ToUnsigned(d)
      /\ Bit[K] <= Shifted(d) /\ Shifted(d) < 2 * Bit[30]
  <2>1. ToUnsigned(d) < Bit[30]
    BY <1>1, <1>3
  <2> QED
    BY <1>1, <1>3, <2>1, SumsOfCode DEF Shifted
<1>5. Places(d) \in K + 1 .. 31 /\ Shifted(d) \div Bit[Places(d) - 1] = 1
  BY <1>4, BitLengthIs DEF Places
<1> QED
  BY <1>2, <1>4, <1>5 DEF Zeros

\* The zeros in front, and the bits behind them.
LEMMA CodeIs ==
  ASSUME NEW d \in Difference
  PROVE  /\ Code(d) \in Seq({0, 1}) /\ Len(Code(d)) = Zeros(d) + Places(d)
         /\ \A i \in 1 .. Zeros(d) : Code(d)[i] = 0
         /\ \A i \in 1 .. Places(d) :
              Code(d)[Zeros(d) + i] = (Shifted(d) \div Bit[Places(d) - i]) % 2
<1>1. /\ Zeros(d) \in Nat /\ Places(d) \in Nat /\ Places(d) \in 1 .. 31
      /\ Shifted(d) \in Nat
  BY ShiftedFits, GolombAssumption
<1> DEFINE b(i) == (Shifted(d) \div Bit[Places(d) - i]) % 2
           u == [i \in 1 .. Zeros(d) |-> 0]
           w == [i \in 1 .. Places(d) |-> b(i)]
<1>2. ASSUME NEW i \in 1 .. Places(d) PROVE b(i) \in {0, 1}
  <2>1. Places(d) - i \in 0 .. 30
    BY <1>1
  <2>2. Shifted(d) \div Bit[Places(d) - i] \in Nat
    <3>1. Bit[Places(d) - i] \in Nat \ {0}
      BY <2>1, BitFacts
    <3> QED
      BY <1>1, <3>1, HalfOfQuotient
  <2>3. \A a \in Nat : a % 2 \in {0, 1}
    OBVIOUS
  <2> QED
    BY <2>2, <2>3
<1>3. Code(d) = u \o w
  BY DEF Code, Zeros, Places, Shifted
<1> HIDE DEF b
<1>4. u \in Seq({0, 1}) /\ Len(u) = Zeros(d) /\ \A i \in 1 .. Zeros(d) : u[i] = 0
  BY <1>1
<1>5. w \in Seq({0, 1}) /\ Len(w) = Places(d) /\ \A i \in 1 .. Places(d) : w[i] = b(i)
  BY <1>1, <1>2
<1> HIDE DEF u, w
<1>6. /\ Code(d) \in Seq({0, 1}) /\ Len(Code(d)) = Zeros(d) + Places(d)
      /\ \A i \in 1 .. Zeros(d) + Places(d) :
           Code(d)[i] = IF i <= Zeros(d) THEN u[i] ELSE w[i - Zeros(d)]
  BY <1>3, <1>4, <1>5, ConcatProperties
<1>7. ASSUME NEW i \in 1 .. Zeros(d) PROVE Code(d)[i] = 0
  BY <1>1, <1>4, <1>6
<1>8. ASSUME NEW i \in 1 .. Places(d) PROVE Code(d)[Zeros(d) + i] = b(i)
  <2>1. /\ Zeros(d) + i \in 1 .. Zeros(d) + Places(d) /\ ~(Zeros(d) + i <= Zeros(d))
        /\ (Zeros(d) + i) - Zeros(d) = i
    BY <1>1
  <2>2. Code(d)[Zeros(d) + i] = w[(Zeros(d) + i) - Zeros(d)]
    BY <1>6, <2>1, Zenon
  <2> QED
    BY <1>5, <2>1, <2>2
<1> QED
  BY <1>6, <1>7, <1>8 DEF b

\* A number begins at the first bit that is set: i, behind z zeros; it has c bits.
Begins(bits, p, one, i, z, c) ==
  /\ one = {j \in p + 1 .. Readable(bits) : bits[j] = 1} /\ one # {}
  /\ i = CHOOSE k \in one : \A j \in one : k <= j
  /\ z = i - (p + 1) /\ c = (ViewerK + 1 + z) % 256

LEMMA DecodeBegins ==
  ASSUME NEW bits, NEW p, NEW one, NEW i, NEW z, NEW c, Begins(bits, p, one, i, z, c), c # 0
  PROVE  Decode(bits, p) =
           IF p + z + c > Readable(bits) THEN [val |-> 0, at |-> Readable(bits)]
           ELSE [val |-> ToSigned(NumberAt(bits, p + z, c) - Bit[ViewerK]), at |-> p + z + c]
<1>1. Taken(c) = c
  BY DEF Taken
<1>2. Decode(bits, p) =
        IF p + z + Taken(c) > Readable(bits) THEN [val |-> 0, at |-> Readable(bits)]
        ELSE [val |-> ToSigned(NumberAt(bits, p + z, c) - Bit[ViewerK]),
              at |-> p + z + Taken(c)]
  BY Zenon DEF Decode, Begins
<1> QED
  BY <1>1, <1>2, Zenon

LEMMA DecodeNone ==
  ASSUME NEW bits, NEW p, {j \in p + 1 .. Readable(bits) : bits[j] = 1} = {}
  PROVE  Decode(bits, p) = [val |-> 0, at |-> Readable(bits)]
  BY Zenon DEF Decode

\* The sizes of a code, and how many bits the viewer takes the number for.
LEMMA CodeSizes ==
  ASSUME K = ViewerK, NEW d \in Difference
  PROVE  /\ Places(d) \in 1 .. 31 /\ Zeros(d) \in 0 .. 30 /\ Places(d) = ViewerK + 1 + Zeros(d)
         /\ Len(Code(d)) = Zeros(d) + Places(d)
         /\ ViewerK \in 0 .. 30 /\ (ViewerK + 1 + Zeros(d)) % 256 = Places(d)
<1>1. ViewerK \in 0 .. 30 /\ Zeros(d) = Places(d) - (ViewerK + 1)
  BY GolombAssumption DEF Zeros
<1>2. Places(d) \in ViewerK + 1 .. 31 /\ Places(d) \in Int
  BY <1>1, ShiftedFits
<1>3. ViewerK \in Int /\ ViewerK >= 0
  BY <1>1
<1>4. Places(d) \in 1 .. 31 /\ Places(d) = ViewerK + 1 + (Places(d) - (ViewerK + 1))
  BY <1>2, <1>3, SumsOfCode
<1>5. \A c \in 1 .. 31 : c % 256 = c
  OBVIOUS
<1> QED
  BY <1>1, <1>4, <1>5, ShiftedFits, CodeIs

\* The code of d has its first bit that is set behind its zeros.
LEMMA CodeLeads ==
  ASSUME K = ViewerK, NEW d \in Difference
  PROVE  /\ Code(d)[Zeros(d) + 1] = 1
         /\ \A i \in 1 .. Zeros(d) : Code(d)[i] = 0
<1>1. Places(d) \in 1 .. 31
  BY CodeSizes
<1>2. 1 \in 1 .. Places(d)
  BY <1>1
<1>3. Code(d)[Zeros(d) + 1] = (Shifted(d) \div Bit[Places(d) - 1]) % 2
  BY <1>2, CodeIs
<1>4. Shifted(d) \div Bit[Places(d) - 1] = 1
  BY ShiftedFits
<1>5. 1 % 2 = 1
  OBVIOUS
<1> QED
  BY <1>3, <1>4, <1>5, CodeIs

\* Where the zeros of a code and the bit behind them are found, its number begins.
LEMMA CodeBegins ==
  ASSUME K = ViewerK, NEW d \in Difference, NEW bits, Readable(bits) \in Nat, NEW p \in Nat,
         p + Zeros(d) + 1 <= Readable(bits),
         \A i \in 1 .. Zeros(d) + 1 : bits[p + i] = Code(d)[i]
  PROVE  Begins(bits, p, {j \in p + 1 .. Readable(bits) : bits[j] = 1},
                p + Zeros(d) + 1, Zeros(d), Places(d))
<1> DEFINE z == Zeros(d)
           one == {j \in p + 1 .. Readable(bits) : bits[j] = 1}
<1>1. z \in 0 .. 30 /\ (ViewerK + 1 + z) % 256 = Places(d)
  BY CodeSizes
<1>2. /\ \A i \in 1 .. z : bits[p + i] = 0
      /\ bits[p + (z + 1)] = 1
  <2>1. z + 1 \in 1 .. z + 1 /\ \A i \in 1 .. z : i \in 1 .. z + 1
    BY <1>1
  <2> QED
    BY <2>1, CodeLeads
<1> HIDE DEF z
<1>3. p + z + 1 \in one
  <2>1. p + (z + 1) = p + z + 1 /\ p + z + 1 \in p + 1 .. Readable(bits)
    BY <1>1 DEF z
  <2> QED
    BY <1>2, <2>1
<1>4. ASSUME NEW j \in one, ~(p + z + 1 <= j) PROVE FALSE
  <2>1. j - p \in 1 .. z /\ p + (j - p) = j
    BY <1>1, <1>4
  <2>2. bits[j] = 0
    BY <1>2, <2>1
  <2> QED
    BY <1>4, <2>2
<1>5. p + z + 1 = CHOOSE k \in one : \A j \in one : k <= j
  <2>1. one \in SUBSET Int
    OBVIOUS
  <2>2. \A j \in one : p + z + 1 <= j
    BY <1>4
  <2> HIDE DEF one
  <2> QED
    BY <1>3, <2>1, <2>2, LeastChosen
<1>6. z = p + z + 1 - (p + 1)
  BY <1>1
<1>7. one # {}
  BY <1>3
<1> HIDE DEF one
<1>8. Begins(bits, p, one, p + z + 1, z, Places(d))
  <2> DEFINE i == p + z + 1
  <2>1. i = (CHOOSE k \in one : \A j \in one : k <= j)
    BY <1>5
  <2>2. z = i - (p + 1)
    BY <1>1, <1>6
  <2>3. one = {j \in p + 1 .. Readable(bits) : bits[j] = 1}
    BY DEF one
  <2> HIDE DEF i
  <2>4. Begins(bits, p, one, i, z, Places(d))
    BY <1>1, <1>7, <2>1, <2>2, <2>3, Zenon DEF Begins
  <2> QED
    BY <2>4 DEF i
<1> QED
  BY <1>8 DEF one, z

\* Where the zeros and the places of a code of l bits lie that is found at p.
Lies(p, z, c, l) ==
  /\ \A i \in 1 .. z + 1 : i \in 1 .. l
  /\ \A i \in 1 .. c : z + i \in 1 .. l /\ p + (z + i) = p + z + i
  /\ \A r \in Nat : p + l <= r => p + z + 1 <= r /\ ~(p + z + c > r)
  /\ \A s \in Nat : p + z + 1 <= s =>
       p + z + 1 <= s + 1 /\ \A i \in 1 .. z + 1 : p + i <= s
  /\ p + z \in Nat /\ p + l = p + z + c /\ c # 0

LEMMA PlacesOfCode ==
  ASSUME NEW p \in Nat, NEW z \in 0 .. 30, NEW c \in 1 .. 31, NEW l \in Nat, l = z + c
  PROVE  Lies(p, z, c, l)
  BY DEF Lies

\* Where the code of d is found whole, d is what is decoded.
LEMMA CodeDecodes ==
  ASSUME K = ViewerK, NEW d \in Difference, NEW bits, Readable(bits) \in Nat, NEW p \in Nat,
         p + Len(Code(d)) <= Readable(bits),
         \A i \in 1 .. Len(Code(d)) : bits[p + i] = Code(d)[i]
  PROVE  Decode(bits, p) = [val |-> d, at |-> p + Len(Code(d))]
<1>0. PICK z \in 0 .. 30, c \in 1 .. 31, v \in Nat :
        z = Zeros(d) /\ c = Places(d) /\ v = Shifted(d) /\ Len(Code(d)) = z + c
  BY CodeSizes, ShiftedFits
<1>1. /\ c \in 1 .. 31 /\ z \in 0 .. 30 /\ Len(Code(d)) = z + c
      /\ v \in Nat /\ v - Bit[ViewerK] = ToUnsigned(d) /\ v \div Bit[c - 1] = 1
  BY <1>0, ShiftedFits
<1>a. /\ \A i \in 1 .. z + 1 : i \in 1 .. Len(Code(d))
      /\ \A i \in 1 .. c : z + i \in 1 .. Len(Code(d)) /\ p + (z + i) = p + z + i
      /\ p + z + 1 <= Readable(bits) /\ ~(p + z + c > Readable(bits))
      /\ p + z \in Nat /\ p + Len(Code(d)) = p + z + c /\ c # 0
  <2>1. Len(Code(d)) \in Nat
    BY CodeIs
  <2>2. Lies(p, z, c, Len(Code(d)))
    BY <1>0, <2>1, PlacesOfCode
  <2> QED
    BY <2>2, Zenon DEF Lies
<1> DEFINE one == {j \in p + 1 .. Readable(bits) : bits[j] = 1}
<1>2. Begins(bits, p, one, p + z + 1, z, c)
  <2>1. p + z + 1 <= Readable(bits) /\ \A i \in 1 .. z + 1 : i \in 1 .. Len(Code(d))
    BY <1>a
  <2>2. \A i \in 1 .. z + 1 : bits[p + i] = Code(d)[i]
    BY <2>1
  <2> QED
    BY <1>0, <2>1, <2>2, CodeBegins
<1>3. ASSUME NEW i \in 1 .. c PROVE bits[p + z + i] = (v \div Bit[c - i]) % 2
  <2>1. z + i \in 1 .. Len(Code(d)) /\ p + (z + i) = p + z + i
    BY <1>a
  <2>2. bits[p + z + i] = Code(d)[z + i]
    BY <2>1
  <2> QED
    BY <1>0, <2>2, CodeIs
<1> HIDE DEF one
<1>4. p + z \in Nat /\ p + Len(Code(d)) = p + z + c /\ ~(p + z + c > Readable(bits)) /\ c # 0
  BY <1>a
<1>5. NumberAt(bits, p + z, c) = v
  BY <1>1, <1>3, <1>4, BitsMakeNumber
<1>6. ToSigned(v - Bit[ViewerK]) = d
  <2>1. d \in Int
    BY DEF Difference
  <2> QED
    BY <1>1, <2>1, SignedComesBack
<1>7. Decode(bits, p) =
        IF p + z + c > Readable(bits) THEN [val |-> 0, at |-> Readable(bits)]
        ELSE [val |-> ToSigned(NumberAt(bits, p + z, c) - Bit[ViewerK]), at |-> p + z + c]
  BY <1>2, <1>4, DecodeBegins
<1>8. Decode(bits, p) = [val |-> d, at |-> p + z + c]
  BY <1>4, <1>5, <1>6, <1>7, Zenon
<1> QED
  BY <1>4, <1>8, Zenon

\* Whatever the bits are, they make a number.
LEMMA NumberIsInt ==
  ASSUME NEW bits, NEW p \in Nat, NEW c \in Nat, \A i \in 1 .. c : bits[p + i] \in Int
  PROVE  NumberAt(bits, p, c) \in Int
<1> DEFINE Is(m, f) == f = [i \in 0 .. m |-> IF i = 0 THEN 0 ELSE 2 * f[i - 1] + bits[p + i]]
           Up(m, f) == Is(m, f) /\ \A i \in 0 .. m : f[i] \in Int
           T == {m \in Nat : m <= c => \E f : Up(m, f)}
<1>1. 0 \in T
  <2> DEFINE f0 == [i \in 0 .. 0 |-> 0]
  <2>1. Up(0, f0)
    OBVIOUS
  <2> HIDE DEF Up
  <2> QED
    BY <2>1
<1>2. ASSUME NEW m \in Nat, m \in T PROVE m + 1 \in T
  <2> SUFFICES ASSUME m + 1 <= c PROVE \E f : Up(m + 1, f)
    OBVIOUS
  <2>1. PICK f : Up(m, f)
    BY <1>2
  <2> DEFINE w == 2 * f[m] + bits[p + (m + 1)]
             g == [i \in 0 .. m + 1 |-> IF i = m + 1 THEN w ELSE f[i]]
  <2>2. w \in Int
    <3>1. m \in 0 .. m /\ m + 1 \in 1 .. c
      OBVIOUS
    <3>2. f[m] \in Int /\ bits[p + (m + 1)] \in Int
      BY <2>1, <3>1
    <3> QED
      BY <3>2
  <2>3. ASSUME NEW i \in 0 .. m + 1
        PROVE  /\ g[i] = IF i = 0 THEN 0 ELSE 2 * g[i - 1] + bits[p + i]
               /\ g[i] \in Int
    <3>1. CASE i = m + 1
      <4>1. i - 1 = m /\ m \in 0 .. m + 1 /\ m # m + 1 /\ i # 0
        BY <3>1
      <4>2. g[i - 1] = f[m] /\ g[i] = w
        BY <3>1, <4>1, Zenon
      <4> HIDE DEF g, Up
      <4> QED
        BY <2>2, <3>1, <4>1, <4>2
    <3>2. CASE i = 0
      <4>1. g[i] = f[0] /\ 0 \in 0 .. m
        BY <3>2
      <4>2. f[0] = 0
        BY <2>1, <4>1
      <4> HIDE DEF g, Up
      <4> QED
        BY <3>2, <4>1, <4>2
    <3>3. CASE i \in 1 .. m
      <4>1. i \in 0 .. m /\ i # 0 /\ i # m + 1 /\ i - 1 \in 0 .. m + 1 /\ i - 1 # m + 1
        BY <3>3
      <4>2. g[i] = f[i] /\ g[i - 1] = f[i - 1]
        BY <4>1
      <4>3. f[i] = 2 * f[i - 1] + bits[p + i] /\ f[i] \in Int
        BY <2>1, <4>1
      <4> HIDE DEF g, Up
      <4> QED
        BY <4>1, <4>2, <4>3
    <3> QED
      BY <3>1, <3>2, <3>3
  <2>4. Up(m + 1, g)
    <3>1. g = [i \in 0 .. m + 1 |-> g[i]]
      OBVIOUS
    <3> HIDE DEF g
    <3> QED
      BY <2>3, <3>1
  <2> HIDE DEF Up
  <2> QED
    BY <2>4
<1>3. PICK f : Up(c, f)
  <2> HIDE DEF T
  <2>1. c \in T
    BY <1>1, <1>2, NaturalInduction
  <2> QED
    BY <2>1 DEF T
<1>4. ASSUME NEW g, Is(c, g) PROVE g = f
  <2> DEFINE S == {i \in Nat : i <= c => g[i] = f[i]}
  <2>a. /\ \A i \in 1 .. c : g[i] = 2 * g[i - 1] + bits[p + i]
        /\ \A i \in 1 .. c : f[i] = 2 * f[i - 1] + bits[p + i]
        /\ g[0] = 0 /\ f[0] = 0
    <3>1. 0 \in 0 .. c /\ \A i \in 1 .. c : i \in 0 .. c /\ i # 0
      OBVIOUS
    <3> QED
      BY <1>3, <1>4, <3>1, Zenon
  <2>b. g = [i \in 0 .. c |-> g[i]] /\ f = [i \in 0 .. c |-> f[i]]
    BY <1>3, <1>4
  <2> HIDE DEF Up, Is
  <2>1. 0 \in S
    BY <2>a
  <2>2. ASSUME NEW i \in Nat, i \in S PROVE i + 1 \in S
    <3>1. CASE i + 1 <= c
      <4>1. i + 1 \in 1 .. c /\ i + 1 - 1 = i
        BY <3>1
      <4>2. g[i + 1] = 2 * g[i] + bits[p + (i + 1)] /\ f[i + 1] = 2 * f[i] + bits[p + (i + 1)]
        BY <2>a, <4>1
      <4>3. g[i] = f[i]
        BY <2>2, <4>1
      <4> QED
        BY <4>2, <4>3
    <3> QED
      BY <3>1
  <2>3. Nat \subseteq S
    <3> HIDE DEF S
    <3> QED
      BY <2>1, <2>2, NaturalInduction
  <2>4. \A i \in 0 .. c : g[i] = f[i]
    BY <2>3
  <2> QED
    BY <2>b, <2>4, Zenon
<1>5. NumberAt(bits, p, c) = (CHOOSE g : Is(c, g))[c]
  BY Zenon DEF NumberAt
<1>6. Is(c, f) /\ f[c] \in Int
  BY <1>3
<1> HIDE DEF Is, Up
<1>7. (CHOOSE g : Is(c, g)) = f
  BY <1>4, <1>6
<1> QED
  BY <1>5, <1>6, <1>7

\* Sums that the lemma below needs.
LEMMA SmallSums ==
  /\ \A k, y \in 0 .. 30 : (k + 1 + y) % 256 = k + 1 + y
  /\ ToSigned(1 - 1) = 0
<1>1. \A k, y \in 0 .. 30 : (k + 1 + y) % 256 = k + 1 + y
  OBVIOUS
<1>2. ASSUME NEW v \in Nat, v < 1
      PROVE  ToSigned(v) = v
  BY <1>2 DEF ToSigned
<1>3. 1 - 1 \in Nat /\ 1 - 1 = 0 /\ 1 - 1 < 1
  OBVIOUS
<1>4. ToSigned(1 - 1) = 1 - 1
  BY <1>2, <1>3, Zenon
<1> QED
  BY <1>1, <1>3, <1>4, Zenon

LEMMA BitOfViewer == Bit[ViewerK] \in Int
  BY GolombAssumption, BitFacts

\* Where the code of d goes on behind the bits that were sent, of which the decoder
\* reads one more, it comes to the end of the data; it has a number if the code ends
\* there, whatever that bit is, and none if it is longer.
LEMMA CodeCut ==
  ASSUME K = ViewerK, NEW d \in Difference, NEW bits, NEW sent \in Nat,
         Readable(bits) = sent + 1, \A i \in 1 .. sent + 1 : bits[i] \in {0, 1},
         NEW p \in Nat, p <= sent, p + Len(Code(d)) > sent,
         \A i \in 1 .. Len(Code(d)) : p + i <= sent => bits[p + i] = Code(d)[i]
  PROVE  /\ Decode(bits, p).at = sent + 1 /\ Decode(bits, p).val \in Int
         /\ p + Len(Code(d)) > sent + 1 => Decode(bits, p).val = 0
<1> DEFINE one == {j \in p + 1 .. Readable(bits) : bits[j] = 1}
           Ends == Decode(bits, p) = [val |-> 0, at |-> sent + 1]
<1>0. PICK z \in 0 .. 30, c \in 1 .. 31 :
        /\ z = Zeros(d) /\ c = Places(d) /\ Len(Code(d)) = z + c /\ c = ViewerK + 1 + z
        /\ ViewerK \in 0 .. 30
  BY CodeSizes
<1>1. CASE p + z + 1 <= sent
  <2>1. Begins(bits, p, one, p + z + 1, z, c)
    <3>1. p + z + 1 <= Readable(bits)
          /\ Readable(bits) \in Nat
          /\ \A i \in 1 .. z + 1 : i \in 1 .. Len(Code(d)) /\ p + i <= sent
      <4>1. Len(Code(d)) \in Nat /\ sent + 1 \in Nat
        BY CodeIs
      <4>2. Lies(p, z, c, Len(Code(d)))
        BY <1>0, <4>1, PlacesOfCode
      <4> QED
        BY <1>1, <4>1, <4>2 DEF Lies
    <3>2. \A i \in 1 .. z + 1 : bits[p + i] = Code(d)[i]
      BY <1>0, <3>1
    <3> QED
      BY <1>0, <3>1, <3>2, CodeBegins
  <2>2. Decode(bits, p) =
          IF p + z + c > Readable(bits) THEN [val |-> 0, at |-> Readable(bits)]
          ELSE [val |-> ToSigned(NumberAt(bits, p + z, c) - Bit[ViewerK]), at |-> p + z + c]
    <3>1. c # 0
      OBVIOUS
    <3> HIDE DEF one
    <3> QED
      BY <2>1, <3>1, DecodeBegins
  <2>3. CASE p + z + c > sent + 1
    BY <2>2, <2>3
  <2>4. CASE p + z + c = sent + 1
    <3>1. \A i \in 1 .. c : p + z + i \in 1 .. sent + 1
      BY <2>4
    <3>2. p + z \in Nat /\ c \in Nat /\ \A i \in 1 .. c : bits[p + z + i] \in Int
      BY <3>1
    <3>3. NumberAt(bits, p + z, c) \in Int
      BY <3>2, NumberIsInt
    <3>4. Bit[ViewerK] \in Int
      BY BitOfViewer
    <3>5. ToSigned(NumberAt(bits, p + z, c) - Bit[ViewerK]) \in Int
      BY <3>3, <3>4 DEF ToSigned
    <3>6. Decode(bits, p) =
            [val |-> ToSigned(NumberAt(bits, p + z, c) - Bit[ViewerK]), at |-> sent + 1]
      BY <2>2, <2>4
    <3>7. ~(p + Len(Code(d)) > sent + 1)
      BY <1>0, <2>4
    <3> QED
      BY <3>5, <3>6, <3>7
  <2>5. p + z + c > sent + 1 \/ p + z + c = sent + 1
    BY <1>0
  <2> QED
    BY <2>3, <2>4, <2>5
<1>2. CASE ~(p + z + 1 <= sent)
  <2>1. ASSUME NEW j \in p + 1 .. sent PROVE bits[j] # 1
    <3>1. j - p \in 1 .. z /\ j - p \in 1 .. z + c /\ p + (j - p) = j /\ j <= sent
      BY <1>2
    <3>2. bits[j] = Code(d)[j - p]
      BY <1>0, <3>1
    <3>3. Code(d)[j - p] = 0
      BY <1>0, <3>1, CodeLeads
    <3> QED
      BY <3>2, <3>3
  <2>2. CASE bits[sent + 1] # 1
    <3>1. one = {}
      BY <2>1, <2>2
    <3>2. Ends
      BY <3>1, DecodeNone
    <3> QED
      BY <3>2
  <2>3. CASE bits[sent + 1] = 1
    <3>1. PICK y \in 0 .. 30 : y = sent - p
      BY <1>2
    <3>2. PICK m \in Nat : m = ViewerK + 1 + y /\ m # 0
      BY <1>0
    <3>3. Begins(bits, p, one, sent + 1, y, m)
      <4>1. sent + 1 \in one /\ \A j \in one : sent + 1 <= j
        BY <2>1, <2>3
      <4>2. one \in SUBSET Int
        OBVIOUS
      <4>3. one = {j \in p + 1 .. Readable(bits) : bits[j] = 1}
        OBVIOUS
      <4>4. m = (ViewerK + 1 + y) % 256 /\ y = sent + 1 - (p + 1)
        <5>1. m = (ViewerK + 1 + y) % 256
          BY <1>0, <3>2, SmallSums
        <5>2. y = sent + 1 - (p + 1)
          BY <3>1
        <5> QED
          BY <5>1, <5>2
      <4> HIDE DEF one
      <4>5. sent + 1 = CHOOSE k \in one : \A j \in one : k <= j
        BY <4>1, <4>2, LeastChosen
      <4> DEFINE i == sent + 1
      <4>6. i = (CHOOSE k \in one : \A j \in one : k <= j) /\ y = i - (p + 1) /\ one # {}
        BY <4>1, <4>4, <4>5
      <4> HIDE DEF i
      <4>7. Begins(bits, p, one, i, y, m)
        BY <4>3, <4>4, <4>6, Zenon DEF Begins
      <4> QED
        BY <4>7 DEF i
    <3>4. Decode(bits, p) =
            IF p + y + m > Readable(bits) THEN [val |-> 0, at |-> Readable(bits)]
            ELSE [val |-> ToSigned(NumberAt(bits, p + y, m) - Bit[ViewerK]), at |-> p + y + m]
      <4> HIDE DEF one
      <4> QED
        BY <3>2, <3>3, DecodeBegins
    <3>5. CASE p + y + m > sent + 1
      BY <3>4, <3>5
    <3>6. CASE ~(p + y + m > sent + 1)
      <4>1. m = 1 /\ ViewerK = 0 /\ p + y = sent /\ p + y + m = sent + 1
        BY <1>0, <3>1, <3>2, <3>6
      <4>2. Bit[0] = 1
        BY BitFacts, BitDoubles
      <4>3. NumberAt(bits, sent, 1) = 1
        <5>1. 1 \in 1 .. 31 /\ 1 - 1 = 0 /\ 1 \div 1 = 1 /\ 1 % 2 = 1
          OBVIOUS
        <5>2. \A i \in 1 .. 1 : i = 1
          OBVIOUS
        <5>3. \A i \in 1 .. 1 : bits[sent + i] = (1 \div Bit[1 - i]) % 2
          BY <2>3, <4>2, <5>1, <5>2
        <5> QED
          BY <4>2, <5>1, <5>3, BitsMakeNumber
      <4>4. ToSigned(1 - 1) = 0
        BY SmallSums
      <4>5. Ends
        BY <3>4, <4>1, <4>2, <4>3, <4>4
      <4> QED
        BY <4>5
    <3> QED
      BY <3>5, <3>6
  <2> QED
    BY <2>2, <2>3
<1> QED
  BY <1>1, <1>2

-----------------------------------------------------------------------------
(* The code of a line. *)

\* What is coded of pixel i.
Diff(pix, i) == pix[i] - IF i = 1 THEN 0 ELSE pix[i - 1]

LEMMA PixelFacts ==
  ASSUME NEW v \in Pixel
  PROVE  v \in Nat /\ v < Top
<1>1. 2^14 = 16384
  OBVIOUS
<1> QED
  BY <1>1 DEF Pixel, Top

LEMMA DiffFits ==
  ASSUME NEW pix \in [1 .. Width -> Pixel], NEW i \in 1 .. Width
  PROVE  /\ Diff(pix, i) \in Difference
         /\ pix[i] = (IF i = 1 THEN 0 ELSE pix[i - 1]) + Diff(pix, i)
<1>1. ASSUME NEW j \in 1 .. Width PROVE pix[j] \in Nat /\ pix[j] < Top
  <2>1. pix[j] \in Pixel
    OBVIOUS
  <2> QED
    BY <2>1, PixelFacts
<1>2. ASSUME NEW x \in Nat, NEW y \in Nat, x < Top, y < Top
      PROVE  x - y \in Difference
  BY <1>2 DEF Difference, Top
<1>5. \A x, y \in Nat : x = y + (x - y)
  OBVIOUS
<1>3. CASE i = 1
  <2>1. Diff(pix, i) = pix[i] - 0
    BY <1>3 DEF Diff
  <2>2. pix[i] \in Nat /\ pix[i] < Top
    BY <1>1
  <2>3. pix[i] - 0 \in Difference /\ pix[i] = 0 + (pix[i] - 0)
    <3>1. 0 \in Nat /\ 0 < Top
      BY DEF Top
    <3> QED
      BY <1>2, <1>5, <2>2, <3>1, Zenon
  <2> QED
    BY <1>3, <2>1, <2>3, Zenon
<1>4. CASE i # 1
  <2>1. i - 1 \in 1 .. Width
    BY <1>4, GolombAssumption
  <2>2. Diff(pix, i) = pix[i] - pix[i - 1]
    BY <1>4 DEF Diff
  <2>3. /\ pix[i] \in Nat /\ pix[i] < Top
        /\ pix[i - 1] \in Nat /\ pix[i - 1] < Top
    BY <1>1, <2>1
  <2>4. pix[i] - pix[i - 1] \in Difference
        /\ pix[i] = pix[i - 1] + (pix[i] - pix[i - 1])
    BY <1>2, <1>5, <2>3, Zenon
  <2> QED
    BY <1>4, <2>2, <2>4, Zenon
<1> QED
  BY <1>3, <1>4

LEMMA CodedIs ==
  ASSUME NEW pix
  PROVE  /\ Coded(pix)[0] = <<>>
         /\ \A i \in 1 .. Width : Coded(pix)[i] = Coded(pix)[i - 1] \o Code(Diff(pix, i))
<1> DEFINE Up(m, f) == f = [i \in 0 .. m |-> IF i = 0 THEN <<>>
                                              ELSE f[i - 1] \o Code(Diff(pix, i))]
           T == {m \in Nat : \E f : Up(m, f)}
<1>1. 0 \in T
  <2> DEFINE f0 == [i \in 0 .. 0 |-> <<>>]
  <2>1. Up(0, f0)
    OBVIOUS
  <2> HIDE DEF Up
  <2> QED
    BY <2>1
<1>2. ASSUME NEW m \in Nat, m \in T PROVE m + 1 \in T
  <2>1. PICK f : Up(m, f)
    BY <1>2
  <2> DEFINE w == f[m] \o Code(Diff(pix, m + 1))
             g == [i \in 0 .. m + 1 |-> IF i = m + 1 THEN w ELSE f[i]]
  <2>2. Up(m + 1, g)
    <3>1. ASSUME NEW i \in 0 .. m + 1
          PROVE  g[i] = IF i = 0 THEN <<>> ELSE g[i - 1] \o Code(Diff(pix, i))
      <4>1. CASE i = m + 1
        <5>1. i - 1 = m /\ m \in 0 .. m + 1 /\ m # m + 1 /\ i # 0
          BY <4>1
        <5>2. g[i - 1] = f[m] /\ g[i] = w
          BY <4>1, <5>1, Zenon
        <5> QED
          BY <4>1, <5>1, <5>2, Zenon
      <4>2. CASE i = 0
        <5>1. g[i] = f[0] /\ 0 \in 0 .. m
          BY <4>2
        <5>2. f[0] = <<>>
          BY <2>1, <5>1
        <5> QED
          BY <4>2, <5>1, <5>2
      <4>3. CASE i \in 1 .. m
        <5>1. i \in 0 .. m /\ i # 0 /\ i # m + 1 /\ i - 1 \in 0 .. m + 1 /\ i - 1 # m + 1
          BY <4>3
        <5>2. g[i] = f[i] /\ g[i - 1] = f[i - 1]
          BY <5>1
        <5>3. f[i] = f[i - 1] \o Code(Diff(pix, i))
          BY <2>1, <5>1
        <5> QED
          BY <5>1, <5>2, <5>3
      <4> QED
        BY <4>1, <4>2, <4>3
    <3>2. g = [i \in 0 .. m + 1 |-> g[i]]
      OBVIOUS
    <3> HIDE DEF g
    <3> QED
      BY <3>1, <3>2
  <2> HIDE DEF Up
  <2> QED
    BY <2>2
<1>3. \E f : Up(Width, f)
  <2> HIDE DEF T
  <2>1. Width \in T
    BY <1>1, <1>2, NaturalInduction, GolombAssumption
  <2> QED
    BY <2>1 DEF T
<1>4. Coded(pix) = CHOOSE f : Up(Width, f)
  BY Zenon DEF Coded, Diff
<1>5. Up(Width, Coded(pix))
  <2> HIDE DEF Up
  <2> QED
    BY <1>3, <1>4
<1>6. 0 \in 0 .. Width /\ \A i \in 1 .. Width : i \in 0 .. Width /\ i # 0
  BY GolombAssumption
<1> QED
  BY <1>5, <1>6, Zenon

\* The code of the first pixels is where the code of more of them begins.
LEMMA CodedGrows ==
  ASSUME NEW pix \in [1 .. Width -> Pixel]
  PROVE  /\ \A i \in 0 .. Width : Coded(pix)[i] \in Seq({0, 1})
         /\ \A i, j \in 0 .. Width : i <= j =>
              /\ Len(Coded(pix)[i]) <= Len(Coded(pix)[j])
              /\ \A b \in 1 .. Len(Coded(pix)[i]) : Coded(pix)[j][b] = Coded(pix)[i][b]
<1> DEFINE C(i) == Coded(pix)[i]
<1>1. ASSUME NEW i \in 1 .. Width, C(i - 1) \in Seq({0, 1})
      PROVE  /\ C(i) \in Seq({0, 1}) /\ Len(C(i - 1)) <= Len(C(i))
             /\ \A b \in 1 .. Len(C(i - 1)) : C(i)[b] = C(i - 1)[b]
  <2> DEFINE s == C(i - 1)
             t == Code(Diff(pix, i))
  <2>1. C(i) = s \o t
    BY CodedIs
  <2>2. t \in Seq({0, 1})
    <3>1. Diff(pix, i) \in Difference
      BY DiffFits
    <3> QED
      BY <3>1, CodeIs
  <2>3. s \in Seq({0, 1})
    BY <1>1
  <2> HIDE DEF C, s, t
  <2>4. /\ s \o t \in Seq({0, 1}) /\ Len(s) <= Len(s \o t)
        /\ \A b \in 1 .. Len(s) : (s \o t)[b] = s[b]
    BY <2>2, <2>3
  <2> QED
    BY <2>1, <2>4 DEF s
<1>2. \A i \in 0 .. Width : C(i) \in Seq({0, 1})
  <2> DEFINE T == {i \in Nat : i <= Width => C(i) \in Seq({0, 1})}
  <2>1. 0 \in T
    <3>1. C(0) = <<>> /\ <<>> \in Seq({0, 1})
      BY CodedIs
    <3> HIDE DEF C
    <3> QED
      BY <3>1
  <2>2. ASSUME NEW i \in Nat, i \in T PROVE i + 1 \in T
    <3>1. CASE i + 1 <= Width
      <4>1. i + 1 \in 1 .. Width /\ (i + 1) - 1 = i
        BY <3>1, GolombAssumption
      <4>2. C(i) \in Seq({0, 1})
        BY <2>2, <4>1, GolombAssumption
      <4> HIDE DEF C
      <4>3. C(i + 1) \in Seq({0, 1})
        BY <1>1, <4>1, <4>2
      <4> QED
        BY <4>3
    <3> QED
      BY <3>1
  <2> HIDE DEF T
  <2>3. Nat \subseteq T
    BY <2>1, <2>2, NaturalInduction
  <2> QED
    BY <2>3, GolombAssumption DEF T
<1> HIDE DEF C
<1>3. ASSUME NEW i \in 0 .. Width, NEW j \in 0 .. Width, i <= j
      PROVE  Len(C(i)) <= Len(C(j)) /\ \A b \in 1 .. Len(C(i)) : C(j)[b] = C(i)[b]
  <2> DEFINE Before(k) == Len(C(i)) <= Len(C(i + k))
                          /\ \A b \in 1 .. Len(C(i)) : C(i + k)[b] = C(i)[b]
             U == {k \in Nat : i + k <= Width => Before(k)}
  <2>1. 0 \in U
    <3>1. i + 0 = i /\ Len(C(i)) \in Nat
      BY <1>2
    <3> QED
      BY <3>1
  <2>2. ASSUME NEW k \in Nat, k \in U PROVE k + 1 \in U
    <3>1. CASE i + (k + 1) <= Width
      <4>1. i + (k + 1) \in 1 .. Width /\ i + (k + 1) - 1 = i + k /\ i + k \in 0 .. Width
            /\ i + k <= Width
        BY <3>1, GolombAssumption
      <4>2. Before(k)
        BY <2>2, <4>1
      <4>3. /\ Len(C(i + k)) <= Len(C(i + (k + 1)))
            /\ \A b \in 1 .. Len(C(i + k)) : C(i + (k + 1))[b] = C(i + k)[b]
        BY <1>1, <1>2, <4>1
      <4>4. Len(C(i)) \in Nat /\ Len(C(i + k)) \in Nat /\ Len(C(i + (k + 1))) \in Nat
        BY <1>2, <4>1, GolombAssumption
      <4>5. Before(k + 1)
        BY <4>2, <4>3, <4>4
      <4> QED
        BY <4>5
    <3> QED
      BY <3>1
  <2>3. j - i \in Nat /\ i + (j - i) = j /\ j <= Width
    BY <1>3, GolombAssumption
  <2>4. j - i \in U
    <3> HIDE DEF U
    <3> QED
      BY <2>1, <2>2, <2>3, NaturalInduction
  <2>5. Before(j - i)
    BY <2>3, <2>4
  <2> QED
    BY <2>3, <2>5
<1> QED
  BY <1>2, <1>3 DEF C

-----------------------------------------------------------------------------
(* Decoding a line. *)

\* What the viewer knows before the first pixel of a line, and what one more adds.
NoPixels == [pix |-> <<>>, v |-> 0, at |-> 0]

OnePixel(bits, l) ==
  LET d == Decode(bits, l.at)
      v == (l.v + d.val) % 2^16
  IN  [pix |-> Append(l.pix, v), v |-> v, at |-> d.at]

DecodesAs(bits, h) ==
  /\ h[0] = NoPixels
  /\ \A i \in 1 .. Width : h[i] = OnePixel(bits, h[i - 1])

LEMMA DecodedIs ==
  ASSUME NEW bits
  PROVE  \E h : DecodesAs(bits, h) /\ Decoded(bits) = h[Width].pix
<1> DEFINE Up(m, f) == f = [i \in 0 .. m |-> IF i = 0 THEN NoPixels
                                              ELSE OnePixel(bits, f[i - 1])]
           T == {m \in Nat : \E f : Up(m, f)}
<1>1. 0 \in T
  <2> DEFINE f0 == [i \in 0 .. 0 |-> NoPixels]
  <2>1. Up(0, f0)
    OBVIOUS
  <2> HIDE DEF Up
  <2> QED
    BY <2>1
<1>2. ASSUME NEW m \in Nat, m \in T PROVE m + 1 \in T
  <2>1. PICK f : Up(m, f)
    BY <1>2
  <2> DEFINE w == OnePixel(bits, f[m])
             g == [i \in 0 .. m + 1 |-> IF i = m + 1 THEN w ELSE f[i]]
  <2>2. Up(m + 1, g)
    <3>1. ASSUME NEW i \in 0 .. m + 1
          PROVE  g[i] = IF i = 0 THEN NoPixels ELSE OnePixel(bits, g[i - 1])
      <4>1. CASE i = m + 1
        <5>1. i - 1 = m /\ m \in 0 .. m + 1 /\ m # m + 1 /\ i # 0
          BY <4>1
        <5>2. g[i - 1] = f[m] /\ g[i] = w
          BY <4>1, <5>1, Zenon
        <5> QED
          BY <4>1, <5>1, <5>2, Zenon
      <4>2. CASE i = 0
        <5>1. g[i] = f[0] /\ 0 \in 0 .. m
          BY <4>2
        <5>2. f[0] = NoPixels
          BY <2>1, <5>1
        <5> QED
          BY <4>2, <5>1, <5>2
      <4>3. CASE i \in 1 .. m
        <5>1. i \in 0 .. m /\ i # 0 /\ i # m + 1 /\ i - 1 \in 0 .. m + 1 /\ i - 1 # m + 1
          BY <4>3
        <5>2. g[i] = f[i] /\ g[i - 1] = f[i - 1]
          BY <5>1
        <5>3. f[i] = OnePixel(bits, f[i - 1])
          BY <2>1, <5>1
        <5> QED
          BY <5>1, <5>2, <5>3
      <4> QED
        BY <4>1, <4>2, <4>3
    <3>2. g = [i \in 0 .. m + 1 |-> g[i]]
      OBVIOUS
    <3> HIDE DEF g
    <3> QED
      BY <3>1, <3>2
  <2> HIDE DEF Up
  <2> QED
    BY <2>2
<1>3. \E f : Up(Width, f)
  <2> HIDE DEF T
  <2>1. Width \in T
    BY <1>1, <1>2, NaturalInduction, GolombAssumption
  <2> QED
    BY <2>1 DEF T
<1> DEFINE h == CHOOSE f : Up(Width, f)
<1>4. Decoded(bits) = h[Width].pix
  BY Zenon DEF Decoded, NoPixels, OnePixel
<1>5. Up(Width, h)
  <2> HIDE DEF Up
  <2> QED
    BY <1>3
<1>6. 0 \in 0 .. Width /\ \A i \in 1 .. Width : i \in 0 .. Width /\ i # 0
  BY GolombAssumption
<1> HIDE DEF h
<1>7. h[0] = NoPixels /\ \A i \in 1 .. Width : h[i] = OnePixel(bits, h[i - 1])
  BY <1>5, <1>6, Zenon
<1> QED
  BY <1>4, <1>7 DEF DecodesAs

\* The pixels of the line are the values it had one after the other.
LEMMA DecodedPixels ==
  ASSUME NEW bits, NEW h, DecodesAs(bits, h), NEW x \in 1 .. Width
  PROVE  h[Width].pix[x] = h[x].v
<1> DEFINE S == {h[i].v : i \in 0 .. Width}
           Is(i) == /\ h[i].pix \in Seq(S) /\ Len(h[i].pix) = i
                    /\ \A j \in 1 .. i : h[i].pix[j] = h[j].v
           T == {i \in Nat : i <= Width => Is(i)}
<1>1. 0 \in T
  <2>1. h[0].pix = <<>>
    BY DEF DecodesAs, NoPixels
  <2> HIDE DEF S
  <2>2. <<>> \in Seq(S) /\ Len(<<>>) = 0 /\ 1 .. 0 = {}
    OBVIOUS
  <2> QED
    BY <2>1, <2>2
<1>2. ASSUME NEW i \in Nat, i \in T PROVE i + 1 \in T
  <2>1. CASE i + 1 <= Width
    <3>1. i + 1 \in 1 .. Width /\ (i + 1) - 1 = i /\ i + 1 \in 0 .. Width /\ i <= Width
      BY <2>1, GolombAssumption
    <3>2. h[i + 1] = OnePixel(bits, h[i])
      BY <3>1 DEF DecodesAs
    <3>3. h[i + 1].pix = Append(h[i].pix, h[i + 1].v)
      BY <3>2 DEF OnePixel
    <3>4. h[i + 1].v \in S
      BY <3>1
    <3>5. Is(i)
      BY <1>2, <3>1
    <3> HIDE DEF S
    <3>6. Is(i + 1)
      BY <3>3, <3>4, <3>5
    <3> QED
      BY <3>6
  <2> QED
    BY <2>1
<1>3. Width \in T
  <2> HIDE DEF T
  <2> QED
    BY <1>1, <1>2, NaturalInduction, GolombAssumption
<1> HIDE DEF S
<1> QED
  BY <1>3, GolombAssumption

\* At the end of the data nothing more is decoded.
LEMMA DecodeAtEnd ==
  ASSUME NEW bits, Readable(bits) \in Nat
  PROVE  Decode(bits, Readable(bits)) = [val |-> 0, at |-> Readable(bits)]
<1> DEFINE end == Readable(bits)
<1>1. end + 1 .. end = {}
  OBVIOUS
<1>2. {j \in end + 1 .. end : bits[j] = 1} = {}
  BY <1>1
<1> QED
  BY <1>2, DecodeNone

\* A value of the viewer stays as it is when nothing is added.
LEMMA SumsOfPixel ==
  /\ \A a, b \in Int : (a + b) % 65536 \in Nat /\ (a + b) % 65536 < 65536
  /\ \A v \in Nat : v < 65536 => (v + 0) % 65536 = v
  /\ \A v \in Pixel : v % 65536 = v /\ v \in Nat
<1>1. \A a, b \in Int : (a + b) % 65536 \in Nat /\ (a + b) % 65536 < 65536
  OBVIOUS
<1>2. \A v \in Nat : v < 65536 => (v + 0) % 65536 = v
  OBVIOUS
<1>3. ASSUME NEW v \in Pixel PROVE v % 65536 = v /\ v \in Nat
  <2>1. v \in Nat /\ v < 16384
    BY PixelFacts DEF Top
  <2> QED
    BY <2>1
<1> QED
  BY <1>1, <1>2, <1>3

\* The bits of a report: as many of the code of a line as were sent, and one more.
Brings(bits, pix, sent) ==
  /\ sent \in Nat /\ Readable(bits) = sent + 1
  /\ \A i \in 1 .. sent + 1 : bits[i] \in {0, 1}
  /\ \A i \in 1 .. sent : i <= Len(Coded(pix)[Width]) => bits[i] = Coded(pix)[Width][i]

\* Where the decoder is after i pixels, and the value it has then.
Reads(h, pix, sent, i) ==
  LET l == Len(Coded(pix)[i])
  IN  /\ h[i].v \in Nat /\ h[i].v < 65536
      /\ l <= sent => h[i].at = l /\ h[i].v = IF i = 0 THEN 0 ELSE pix[i]
      /\ l > sent => h[i].at = sent + 1
      /\ i # 0 /\ l > sent + 1 => h[i].v = h[i - 1].v

\* One pixel more: its code was sent, or begins among the bits that were, or behind.
LEMMA PixelDecodes ==
  ASSUME K = ViewerK, NEW pix \in [1 .. Width -> Pixel], NEW bits, NEW sent,
         Brings(bits, pix, sent), NEW h, DecodesAs(bits, h),
         NEW i \in Nat, i + 1 <= Width, Reads(h, pix, sent, i)
  PROVE  Reads(h, pix, sent, i + 1)
<1> DEFINE C(j) == Coded(pix)[j]
           d == Diff(pix, i + 1)
           s == C(i)
           t == Code(d)
<1>1. /\ i + 1 \in 1 .. Width /\ i + 1 \in 0 .. Width /\ i \in 0 .. Width
      /\ Width \in 0 .. Width /\ (i + 1) - 1 = i /\ i + 1 # 0 /\ i + 1 <= Width
  BY GolombAssumption
<1>2. C(i + 1) = s \o t
  BY <1>1, CodedIs
<1>3. d \in Difference /\ pix[i + 1] = (IF i + 1 = 1 THEN 0 ELSE pix[(i + 1) - 1]) + d
  BY <1>1, DiffFits, Zenon
<1>4. s \in Seq({0, 1}) /\ t \in Seq({0, 1})
  BY <1>1, <1>3, CodedGrows, CodeIs
<1>5. /\ Len(C(i + 1)) <= Len(C(Width)) /\ Len(C(Width)) \in Nat
      /\ \A b \in 1 .. Len(C(i + 1)) : C(Width)[b] = C(i + 1)[b]
  <2>1. C(Width) \in Seq({0, 1})
    BY <1>1, CodedGrows
  <2>2. Len(C(Width)) \in Nat
    BY <2>1
  <2> QED
    BY <1>1, <2>2, CodedGrows, Zenon
<1>6. /\ sent \in Nat /\ Readable(bits) = sent + 1 /\ Readable(bits) \in Nat
      /\ \A b \in 1 .. sent + 1 : bits[b] \in {0, 1}
      /\ \A b \in 1 .. sent : b <= Len(C(Width)) => bits[b] = C(Width)[b]
  BY DEF Brings
<1> HIDE DEF d, s, t
<1>7. /\ Len(s) \in Nat /\ Len(t) \in Nat /\ Len(C(i + 1)) = Len(s) + Len(t)
      /\ \A b \in 1 .. Len(t) : C(i + 1)[Len(s) + b] = t[b]
  BY <1>2, <1>4
<1>8. PICK m \in Nat, c \in Nat : m = Len(s) /\ c = Len(t) /\ Len(C(i + 1)) = m + c
  BY <1>7
<1>9. ASSUME NEW b \in 1 .. c, m + b <= sent PROVE bits[m + b] = t[b]
  <2>1. m + b \in 1 .. m + c /\ m + b \in 1 .. sent /\ m + b <= Len(C(Width))
    BY <1>5, <1>8, <1>9
  <2>2. bits[m + b] = C(Width)[m + b]
    BY <1>6, <2>1
  <2> QED
    BY <1>5, <1>7, <1>8, <2>1, <2>2
<1>10. /\ h[i + 1] = OnePixel(bits, h[i])
       /\ h[i + 1].at = Decode(bits, h[i].at).at
       /\ h[i + 1].v = (h[i].v + Decode(bits, h[i].at).val) % 65536
  <2>1. 2^16 = 65536
    OBVIOUS
  <2>2. h[i + 1] = OnePixel(bits, h[i])
    BY <1>1 DEF DecodesAs
  <2> QED
    BY <2>1, <2>2 DEF OnePixel
<1>11. /\ h[i].v \in Nat /\ h[i].v < 65536
       /\ m <= sent => h[i].at = m /\ h[i].v = IF i = 0 THEN 0 ELSE pix[i]
       /\ m > sent => h[i].at = sent + 1
  BY <1>8 DEF Reads, s
<1>12. SUFFICES
         /\ h[i + 1].v \in Nat /\ h[i + 1].v < 65536
         /\ m + c <= sent => h[i + 1].at = m + c /\ h[i + 1].v = pix[i + 1]
         /\ m + c > sent => h[i + 1].at = sent + 1
         /\ m + c > sent + 1 => h[i + 1].v = h[i].v
  BY <1>1, <1>8 DEF Reads
<1>13. CASE m > sent
  <2>1. Decode(bits, h[i].at) = [val |-> 0, at |-> sent + 1]
    BY <1>6, <1>11, <1>13, DecodeAtEnd
  <2>2. h[i + 1].at = sent + 1 /\ h[i + 1].v = h[i].v
    BY <1>10, <1>11, <2>1, SumsOfPixel
  <2>3. ~(m + c <= sent)
    BY <1>6, <1>13
  <2> QED
    BY <1>11, <2>2, <2>3
<1>14. CASE m <= sent /\ m + c > sent
  <2>1. /\ Decode(bits, m).at = sent + 1 /\ Decode(bits, m).val \in Int
        /\ m + c > sent + 1 => Decode(bits, m).val = 0
    <3>1. m + Len(Code(d)) > sent /\ m <= sent
      BY <1>8, <1>14 DEF t
    <3>2. \A b \in 1 .. Len(Code(d)) : m + b <= sent => bits[m + b] = Code(d)[b]
      BY <1>8, <1>9 DEF t
    <3>3. /\ Decode(bits, m).at = sent + 1 /\ Decode(bits, m).val \in Int
          /\ m + Len(Code(d)) > sent + 1 => Decode(bits, m).val = 0
      BY <1>3, <1>6, <3>1, <3>2, CodeCut
    <3> QED
      BY <1>8, <3>3 DEF t
  <2>2. h[i + 1].at = sent + 1 /\ h[i + 1].v = (h[i].v + Decode(bits, m).val) % 65536
    BY <1>10, <1>11, <1>14, <2>1
  <2>3. h[i + 1].v \in Nat /\ h[i + 1].v < 65536
    <3>1. h[i].v \in Int
      BY <1>11
    <3> QED
      BY <2>1, <2>2, <3>1, SumsOfPixel
  <2>4. m + c > sent + 1 => h[i + 1].v = h[i].v
    BY <1>11, <2>1, <2>2, SumsOfPixel
  <2>5. ~(m + c <= sent)
    BY <1>6, <1>14
  <2> QED
    BY <2>2, <2>3, <2>4, <2>5
<1>15. CASE m + c <= sent
  <2>1. m <= sent /\ m + c <= sent + 1 /\ ~(m + c > sent) /\ ~(m + c > sent + 1)
    BY <1>6, <1>15
  <2>2. Decode(bits, m) = [val |-> d, at |-> m + c]
    <3>1. m + Len(Code(d)) <= Readable(bits)
      BY <1>6, <1>8, <2>1 DEF t
    <3>2. \A b \in 1 .. Len(Code(d)) : bits[m + b] = Code(d)[b]
      <4>1. \A b \in 1 .. c : m + b <= sent
        BY <1>6, <1>15
      <4> QED
        BY <1>8, <1>9, <4>1 DEF t
    <3> QED
      BY <1>3, <1>6, <1>8, <3>1, <3>2, CodeDecodes DEF t
  <2>3. h[i + 1].at = m + c /\ h[i + 1].v = (h[i].v + d) % 65536
    BY <1>10, <1>11, <2>1, <2>2
  <2>4. h[i].v + d = pix[i + 1]
    BY <1>1, <1>3, <1>11, <2>1
  <2>5. pix[i + 1] % 65536 = pix[i + 1] /\ pix[i + 1] \in Nat /\ pix[i + 1] < 65536
    <3>1. pix[i + 1] \in Pixel
      BY <1>1
    <3>2. pix[i + 1] \in Nat /\ pix[i + 1] < 16384
      BY <3>1, PixelFacts DEF Top
    <3> QED
      BY <3>1, <3>2, SumsOfPixel
  <2> QED
    BY <2>1, <2>3, <2>4, <2>5
<1> QED
  BY <1>6, <1>8, <1>13, <1>14, <1>15

\* A line of which the report has the whole code, or that of the first pixels only:
\* these are decoded as they were encoded, and those behind repeat the one before.
LEMMA LineDecodes ==
  ASSUME K = ViewerK, NEW pix \in [1 .. Width -> Pixel], NEW bits, NEW sent,
         Brings(bits, pix, sent), NEW x \in 1 .. Width
  PROVE  /\ Len(Coded(pix)[x]) <= sent => Decoded(bits)[x] = pix[x]
         /\ Len(Coded(pix)[x]) > sent + 1
              => Decoded(bits)[x] = IF x = 1 THEN 0 ELSE Decoded(bits)[x - 1]
<1>1. PICK h : DecodesAs(bits, h) /\ Decoded(bits) = h[Width].pix
  BY DecodedIs
<1> DEFINE T == {i \in Nat : i <= Width => Reads(h, pix, sent, i)}
<1>2. 0 \in T
  <2>1. h[0] = NoPixels /\ Coded(pix)[0] = <<>>
    BY <1>1, CodedIs DEF DecodesAs
  <2>2. h[0].at = 0 /\ h[0].v = 0 /\ Len(Coded(pix)[0]) = 0
    BY <2>1 DEF NoPixels
  <2>3. sent \in Nat
    BY DEF Brings
  <2>4. Reads(h, pix, sent, 0)
    BY <2>2, <2>3 DEF Reads
  <2> QED
    BY <2>4
<1>3. ASSUME NEW i \in Nat, i \in T PROVE i + 1 \in T
  <2>1. i + 1 <= Width => i <= Width
    BY GolombAssumption
  <2>2. i + 1 <= Width => Reads(h, pix, sent, i + 1)
    BY <1>1, <1>3, <2>1, PixelDecodes
  <2> QED
    BY <2>2
<1>4. \A i \in 0 .. Width : Reads(h, pix, sent, i)
  <2> HIDE DEF T
  <2>1. \A i \in 0 .. Width : i \in T
    BY <1>2, <1>3, NaturalInduction, GolombAssumption
  <2> QED
    BY <2>1, GolombAssumption DEF T
<1>5. /\ x \in 0 .. Width /\ x # 0 /\ x - 1 \in 0 .. Width /\ 0 \in 0 .. Width
      /\ x # 1 => x - 1 \in 1 .. Width
  BY GolombAssumption
<1>6. \A j \in 1 .. Width : Decoded(bits)[j] = h[j].v
  BY <1>1, DecodedPixels
<1>7. h[0].v = 0
  BY <1>1 DEF DecodesAs, NoPixels
<1>8. Len(Coded(pix)[x]) <= sent => h[x].v = pix[x]
  BY <1>4, <1>5 DEF Reads
<1>9. Len(Coded(pix)[x]) > sent + 1 => h[x].v = h[x - 1].v
  BY <1>4, <1>5 DEF Reads
<1>10. h[x - 1].v = IF x = 1 THEN 0 ELSE Decoded(bits)[x - 1]
  <2>1. CASE x = 1
    BY <1>7, <2>1
  <2>2. CASE x # 1
    BY <1>5, <1>6, <2>2
  <2> QED
    BY <2>1, <2>2
<1> QED
  BY <1>6, <1>8, <1>9, <1>10

\* A line of which no number can be decoded is black.
LEMMA NothingDecodes ==
  ASSUME NEW bits, NEW end, \A p \in {0, end} : Decode(bits, p) = [val |-> 0, at |-> end],
         NEW x \in 1 .. Width
  PROVE  Decoded(bits)[x] = 0
<1>1. PICK h : DecodesAs(bits, h) /\ Decoded(bits) = h[Width].pix
  BY DecodedIs
<1> DEFINE Is(i) == h[i].at \in {0, end} /\ h[i].v = 0
           T == {i \in Nat : i <= Width => Is(i)}
<1>2. 0 \in T
  <2>1. h[0] = NoPixels
    BY <1>1 DEF DecodesAs
  <2> QED
    BY <2>1 DEF NoPixels
<1>3. ASSUME NEW i \in Nat, i \in T PROVE i + 1 \in T
  <2>1. CASE i + 1 <= Width
    <3>1. i + 1 \in 1 .. Width /\ (i + 1) - 1 = i /\ i <= Width
      BY <2>1, GolombAssumption
    <3>2. Is(i)
      BY <1>3, <3>1
    <3>3. h[i + 1] = OnePixel(bits, h[i])
      BY <1>1, <3>1 DEF DecodesAs
    <3>4. Decode(bits, h[i].at) = [val |-> 0, at |-> end]
      BY <3>2
    <3>5. h[i + 1].at = end /\ h[i + 1].v = (h[i].v + 0) % 2^16
      BY <3>3, <3>4 DEF OnePixel
    <3>6. 2^16 = 65536 /\ (0 + 0) % 65536 = 0
      OBVIOUS
    <3>7. Is(i + 1)
      BY <3>2, <3>5, <3>6
    <3> QED
      BY <3>7
  <2> QED
    BY <2>1
<1>4. Is(x)
  <2> HIDE DEF T
  <2>1. x \in T
    BY <1>2, <1>3, NaturalInduction
  <2> QED
    BY <2>1, GolombAssumption DEF T
<1> QED
  BY <1>1, <1>4, DecodedPixels

-----------------------------------------------------------------------------
(* What the viewer shows of a line. *)

\* Both halves of a line hold its code, or none does.
Untorn(code) == code.first = code.second

\* The bits of a report, and those the camera sent of them.
Bits(y, code, rest) ==
  LET whole == Written(Coded(scene[y])[Width], rest)
  IN  Received(
        [i \in DOMAIN whole |->
          IF code[IF i <= 4 * LineBytes THEN "first" ELSE "second"]
          THEN whole[i] ELSE 0], rest)

Sent == 8 * (LineBytes - 1)

LEMMA BitsAre ==
  ASSUME NEW y \in Lines, NEW code, Untorn(code), code.first \in BOOLEAN, NEW rest \in {0, 1}
  PROVE  /\ Len(Bits(y, code, rest)) = Sent + 8 /\ Sent \in Nat
         /\ \A i \in 1 .. Sent + 8 : Bits(y, code, rest)[i] \in {0, 1}
         /\ \A i \in 1 .. Sent + 8 : Bits(y, code, rest)[i] =
              IF i > Sent THEN rest ELSE IF code.first
              THEN Written(Coded(scene[y])[Width], rest)[i] ELSE 0
         /\ \A i \in 1 .. Sent + 8 : i <= Len(Coded(scene[y])[Width])
              => Written(Coded(scene[y])[Width], rest)[i] = Coded(scene[y])[Width][i]
<1> DEFINE s == Coded(scene[y])[Width]
           whole == Written(s, rest)
           full == (Len(s) \div 8 + 1) * 8
           half(i) == IF i <= 4 * LineBytes THEN "first" ELSE "second"
           buf == [i \in DOMAIN whole |-> IF code[half(i)] THEN whole[i] ELSE 0]
           bits == Bits(y, code, rest)
<1>1. LineBytes \in Nat \ {0} /\ 8 * LineBytes = Sent + 8 /\ Sent \in Nat
  BY GolombAssumption DEF Sent
<1>2. s \in Seq({0, 1})
  <2>1. scene[y] \in [1 .. Width -> Pixel] /\ Width \in 0 .. Width
    BY CameraAssumption, GolombAssumption
  <2> QED
    BY <2>1, CodedGrows
<1> HIDE DEF s
<1>3. whole = [i \in 1 .. Sent + 8 |->
                 IF i <= Len(s) THEN s[i] ELSE IF i <= full THEN 0 ELSE rest]
  BY <1>1 DEF Written
<1>4. /\ DOMAIN whole = 1 .. Sent + 8
      /\ \A i \in 1 .. Sent + 8 : whole[i] = IF i <= Len(s) THEN s[i]
                                             ELSE IF i <= full THEN 0 ELSE rest
  BY <1>3, Zenon
<1> HIDE DEF full
<1>5. ASSUME NEW i \in 1 .. Sent + 8 PROVE whole[i] \in {0, 1}
  <2>1. Len(s) \in Nat /\ (i <= Len(s) => s[i] \in {0, 1})
    BY <1>1, <1>2
  <2>2. (whole[i] = s[i] /\ i <= Len(s)) \/ whole[i] = 0 \/ whole[i] = rest
    BY <1>4
  <2> QED
    BY <2>1, <2>2
<1> HIDE DEF whole
<1>6. /\ DOMAIN buf = 1 .. Sent + 8
      /\ \A i \in 1 .. Sent + 8 : buf[i] = IF code[half(i)] THEN whole[i] ELSE 0
  BY <1>4, Zenon
<1>7. \A i \in 1 .. Sent + 8 : code[half(i)] = code.first
  BY DEF Untorn
<1>8. \A i \in 1 .. Sent + 8 : buf[i] = IF code.first THEN whole[i] ELSE 0
  BY <1>6, <1>7, Zenon
<1>9. bits = Received(buf, rest)
  BY Zenon DEF Bits, s, whole
<1> HIDE DEF buf, half
<1>10. bits = [i \in 1 .. Sent + 8 |-> IF i <= Sent THEN buf[i] ELSE rest]
  BY <1>6, <1>9, Zenon DEF Received, Sent
<1>11. ASSUME NEW i \in 1 .. Sent + 8
       PROVE  (IF i <= Sent THEN buf[i] ELSE rest) \in {0, 1}
  BY <1>5, <1>8
<1> HIDE DEF bits
<1>12. Len(bits) = Sent + 8
  BY <1>1, <1>10, <1>11
<1>13. ASSUME NEW i \in 1 .. Sent + 8
       PROVE  bits[i] = IF i > Sent THEN rest ELSE IF code.first THEN whole[i] ELSE 0
  <2>1. bits[i] = IF i <= Sent THEN buf[i] ELSE rest
    BY <1>10, Zenon
  <2>2. i <= Sent <=> ~(i > Sent)
    BY <1>1
  <2> QED
    BY <1>8, <2>1, <2>2, Zenon
<1>14. \A i \in 1 .. Sent + 8 : bits[i] \in {0, 1}
  BY <1>10, <1>11, Zenon
<1> QED
  BY <1>1, <1>4, <1>12, <1>13, <1>14 DEF bits, s, whole

\* A line that was copied whole shows what was encoded into it, as far as it was sent,
\* one that was never copied is black, whatever follows in the buffers of the camera
\* and the viewer.
LEMMA UntornShows ==
  ASSUME K = ViewerK,
         NEW y \in Lines, NEW code, Untorn(code), code.first \in BOOLEAN, NEW rest \in {0, 1}
  PROVE  LET got == Shown(y, code, rest)
         IN  \/ /\ \A x \in Fitting(scene[y]) : got[x] = scene[y][x]
                /\ \A x \in Cut(scene[y]) : got[x] = IF x = 1 THEN 0 ELSE got[x - 1]
             \/ \A x \in 1 .. Width : got[x] = 0
<1> DEFINE bits == Bits(y, code, rest)
           pix == scene[y]
<1>1. Shown(y, code, rest) = Decoded(bits)
  BY Zenon DEF Shown, Bits
<1>2. /\ Sent \in Nat /\ Len(bits) = Sent + 8
      /\ \A i \in 1 .. Sent + 8 : bits[i] \in {0, 1}
      /\ \A i \in 1 .. Sent + 8 : bits[i] =
           IF i > Sent THEN rest ELSE IF code.first
           THEN Written(Coded(pix)[Width], rest)[i] ELSE 0
      /\ \A i \in 1 .. Sent + 8 : i <= Len(Coded(pix)[Width])
           => Written(Coded(pix)[Width], rest)[i] = Coded(pix)[Width][i]
  BY BitsAre
<1>3. pix \in [1 .. Width -> Pixel]
  BY CameraAssumption
<1>r. Readable(bits) = Sent + 1
  BY <1>2 DEF Readable
<1> HIDE DEF bits, pix
<1>4. CASE code.first
  <2>1. \A b \in 1 .. Sent : b <= Len(Coded(pix)[Width]) => bits[b] = Coded(pix)[Width][b]
    <3>1. \A b \in 1 .. Sent : b \in 1 .. Sent + 8 /\ ~(b > Sent)
      BY <1>2
    <3> QED
      BY <1>2, <1>4, <3>1, Zenon
  <2>2. Brings(bits, pix, Sent)
    <3>1. \A i \in 1 .. Sent + 1 : bits[i] \in {0, 1}
      BY <1>2
    <3> QED
      BY <1>2, <1>r, <2>1, <3>1 DEF Brings
  <2>3. ASSUME NEW x \in Fitting(pix) PROVE Decoded(bits)[x] = pix[x]
    <3>1. x \in 1 .. Width /\ Len(Coded(pix)[x]) <= Sent
      BY DEF Fitting, Sent
    <3> QED
      BY <1>3, <2>2, <3>1, LineDecodes
  <2>4. ASSUME NEW x \in Cut(pix)
        PROVE  Decoded(bits)[x] = IF x = 1 THEN 0 ELSE Decoded(bits)[x - 1]
    <3>1. x \in 1 .. Width /\ Len(Coded(pix)[x]) > Sent + 1
      BY DEF Cut, Sent
    <3> QED
      BY <1>3, <2>2, <3>1, LineDecodes
  <2> QED
    BY <1>1, <2>3, <2>4 DEF pix
<1>5. CASE ~code.first
  <2> DEFINE one(p) == {j \in p + 1 .. Readable(bits) : bits[j] = 1}
             end == Readable(bits)
  <2>1. \A i \in 1 .. Sent + 8 : bits[i] = IF i > Sent THEN rest ELSE 0
    BY <1>2, <1>5
  <2>2. Decode(bits, end) = [val |-> 0, at |-> end]
    BY <1>2, <1>r, DecodeAtEnd
  <2>3. Decode(bits, 0) = [val |-> 0, at |-> end]
    <3>1. CASE rest = 0
      <4>1. one(0) = {}
        BY <1>2, <1>r, <2>1, <3>1
      <4> QED
        BY <4>1, DecodeNone
    <3>2. CASE rest = 1
      <4> DEFINE c == (ViewerK + 1 + Sent) % 256
      <4>1. Sent + 1 \in one(0) /\ \A j \in one(0) : Sent + 1 <= j
        <5>1. Sent + 1 \in 1 .. Sent + 8 /\ Sent + 1 > Sent /\ Sent + 1 \in 0 + 1 .. end
          BY <1>2, <1>r
        <5>2. bits[Sent + 1] = 1
          BY <2>1, <3>2, <5>1, Zenon
        <5>3. ASSUME NEW j \in one(0), ~(Sent + 1 <= j) PROVE FALSE
          <6>1. j \in 1 .. Sent + 8 /\ ~(j > Sent) /\ bits[j] = 1
            BY <1>2, <1>r, <5>3
          <6> QED
            BY <2>1, <6>1
        <5> QED
          BY <5>1, <5>2, <5>3
      <4>2. Sent + 1 = CHOOSE k \in one(0) : \A j \in one(0) : k <= j
        <5>1. one(0) \in SUBSET Int
          OBVIOUS
        <5> HIDE DEF one
        <5> QED
          BY <4>1, <5>1, LeastChosen
      <4>3. c \in Nat /\ c > 1 /\ c # 0
        <5>1. c > 1
          BY EmptyLineAssumption DEF Sent
        <5>2. ViewerK \in Nat
          BY GolombAssumption
        <5>3. \A a, b \in Nat : (a + 1 + b) % 256 \in Nat
          OBVIOUS
        <5>4. c \in Nat
          BY <1>2, <5>2, <5>3
        <5>5. \A a \in Nat : a > 1 => a # 0
          OBVIOUS
        <5> HIDE DEF c
        <5> QED
          BY <5>1, <5>4, <5>5
      <4>4. Sent = (Sent + 1) - (0 + 1) /\ 0 + Sent + c > end
        <5> HIDE DEF c
        <5> QED
          BY <1>2, <1>r, <4>3
      <4>5. Begins(bits, 0, one(0), Sent + 1, Sent, c)
        BY <4>1, <4>2, <4>4 DEF Begins
      <4> HIDE DEF one, c
      <4> QED
        BY <4>3, <4>4, <4>5, DecodeBegins
    <3> QED
      BY <3>1, <3>2
  <2>4. ASSUME NEW x \in 1 .. Width PROVE Decoded(bits)[x] = 0
    BY <2>2, <2>3, NothingDecodes
  <2> QED
    BY <1>1, <2>4
<1> QED
  BY <1>4, <1>5

-----------------------------------------------------------------------------
(* Types and the stimulus. *)

USE CameraAssumption, GolombAssumption

Halves  == [first : BOOLEAN, second : BOOLEAN]
Reports == [text : BOOLEAN, y : Lines, code : Halves]

LEMMA LinesFacts ==
  /\ Height \in Nat /\ 0 \in Lines /\ Height - 1 \in Lines
  /\ \A y \in Lines : NextLine(y) \in Lines
  BY DEF Lines, NextLine

\* What the two steps of the copy make of img.
LEMMA HalfSet ==
  ASSUME TypeOK, NEW f \in {"first", "second"}
  PROVE  LET new == [img EXCEPT ![id][f] = TRUE]
         IN  /\ new \in [Lines -> Halves]
             /\ \A y \in Lines \ {id} : new[y] = img[y]
             /\ new[id][f] = TRUE
             /\ \A g \in {"first", "second"} \ {f} : new[id][g] = img[id][g]
<1>1. img \in [Lines -> Halves] /\ id \in Lines
  BY DEF TypeOK, Halves
<1>2. ASSUME NEW h \in Halves
      PROVE  [h EXCEPT ![f] = TRUE] \in Halves
  BY DEF Halves
<1> QED
  BY <1>1, <1>2 DEF Halves

\* TypeOK, with what keeps the two halves of a cycle apart, and the stimulus.
Inv == TypeOK /\ cycle >= 2 /\ StimulusFollowsPhase

\* What a step does to the viewer's count and the stimulus keeps them in phase.
LEMMA CountKeeps ==
  ASSUME TypeOK, cycle >= 2, up, StimulusFollowsPhase, CountFrame
  PROVE  /\ n' \in Nat /\ cycle' \in Nat /\ cycle' >= 2 /\ n' < cycle'
         /\ up' \in BOOLEAN /\ on' \in BOOLEAN
         /\ up' => (on' <=> n' < cycle' \div 2)
<1>1. n \in Nat /\ cycle \in Nat /\ n < cycle /\ on \in BOOLEAN /\ up \in BOOLEAN
      /\ cycle' = cycle /\ (on <=> n < cycle \div 2)
  BY DEF TypeOK, StimulusFollowsPhase, CountFrame
<1>2. CASE n + 1 = cycle
  <2>1. n' = 0 /\ up' \in BOOLEAN /\ on' \in BOOLEAN /\ (up' => on' = TRUE)
    BY <1>2 DEF CountFrame, SetStimulus
  <2>2. 0 < cycle \div 2 /\ 0 < cycle
    BY <1>1
  <2> QED
    BY <1>1, <2>1, <2>2
<1>3. CASE n + 1 # cycle
  <2>1. n' = n + 1 /\ n' < cycle
    BY <1>1, <1>3 DEF CountFrame
  <2>2. CASE n + 1 = cycle \div 2
    <3>1. up' \in BOOLEAN /\ on' \in BOOLEAN /\ (up' => on' = FALSE)
      BY <1>3, <2>2 DEF CountFrame, SetStimulus
    <3> QED
      BY <1>1, <2>1, <2>2, <3>1
  <2>3. CASE n + 1 # cycle \div 2
    <3>1. up' = up /\ on' = on
      BY <1>3, <2>3 DEF CountFrame
    <3>2. n < cycle \div 2 <=> n + 1 < cycle \div 2
      BY <1>1, <2>3
    <3> QED
      BY <1>1, <2>1, <3>1, <3>2
  <2> QED
    BY <2>2, <2>3
<1> QED
  BY <1>2, <1>3

LEMMA QueueKeeps ==
  ASSUME TypeOK
  PROVE  /\ queue \in Seq(Reports)
         /\ queue # <<>> => /\ Head(queue) \in Reports /\ Tail(queue) \in Seq(Reports)
                            /\ Len(Tail(queue)) = Len(queue) - 1
         /\ Report \in Reports
         /\ Append(queue, Report) \in Seq(Reports)
         /\ Len(Append(queue, Report)) = Len(queue) + 1
<1>1. queue \in Seq(Reports)
  BY DEF TypeOK, Reports, Halves
<1>2. Report \in Reports
  BY DEF TypeOK, Report, Reports, Halves
<1> QED
  BY <1>1, <1>2

LEMMA InvInit == Init => Inv
<1> SUFFICES ASSUME Init PROVE Inv
  OBVIOUS
<1>1. img \in [Lines -> Halves] /\ id \in Lines /\ line \in Lines
  BY LinesFacts DEF Init, Halves
<1>2. queue \in Seq(Reports) /\ Len(queue) <= QueueMax
  BY DEF Init
<1>3. /\ main \in {"idle", "encoded", "copying"} /\ text \in BOOLEAN
      /\ up \in BOOLEAN /\ on \in BOOLEAN /\ running \in BOOLEAN
      /\ fresh \subseteq Lines /\ cycle \in Nat /\ n \in Nat /\ n < cycle
  <2>1. /\ main = "idle" /\ text = TRUE /\ up = FALSE /\ on \in BOOLEAN
        /\ running = FALSE /\ fresh = {} /\ n = 0 /\ cycle = Cycle
    BY Zenon DEF Init
  <2>2. cycle \in Nat /\ n \in Nat /\ n < cycle
    BY <2>1
  <2>3. /\ main \in {"idle", "encoded", "copying"} /\ text \in BOOLEAN
        /\ up \in BOOLEAN /\ running \in BOOLEAN /\ fresh \subseteq Lines
    BY <2>1, Zenon
  <2> QED
    BY <2>1, <2>2, <2>3, Zenon
<1>4. TypeOK
  BY <1>1, <1>2, <1>3 DEF TypeOK, Reports, Halves
<1> QED
  BY <1>4 DEF Init, Inv, StimulusFollowsPhase

\* Inv is inductive: the firmware and the queue leave the stimulus alone, and
\* each step of the viewer sets it together with the count.
LEMMA InvNext == Inv /\ [Next]_vars => Inv'
<1> SUFFICES ASSUME Inv, [Next]_vars PROVE Inv'
  OBVIOUS
<1> USE DEF Inv
<1>t. TypeOK' <=> /\ img' \in [Lines -> Halves]
                  /\ id' \in Lines /\ main' \in {"idle", "encoded", "copying"}
                  /\ text' \in BOOLEAN /\ line' \in Lines
                  /\ queue' \in Seq(Reports) /\ Len(queue') <= QueueMax
                  /\ up' \in BOOLEAN /\ on' \in BOOLEAN /\ running' \in BOOLEAN
                  /\ fresh' \subseteq Lines
                  /\ cycle' \in Nat /\ n' \in Nat /\ n' < cycle'
  BY DEF TypeOK, Reports, Halves
<1>s. /\ img \in [Lines -> Halves]
      /\ id \in Lines /\ main \in {"idle", "encoded", "copying"}
      /\ text \in BOOLEAN /\ line \in Lines
      /\ queue \in Seq(Reports) /\ Len(queue) <= QueueMax
      /\ up \in BOOLEAN /\ on \in BOOLEAN /\ running \in BOOLEAN
      /\ fresh \subseteq Lines
      /\ cycle \in Nat /\ n \in Nat /\ n < cycle
  BY DEF TypeOK, Reports, Halves
<1>q. queue # <<>> => Tail(queue) \in Seq(Reports) /\ Len(Tail(queue)) <= QueueMax
  <2>1. QueueMax \in Nat /\ Len(queue) \in Nat
    BY <1>s
  <2> QED
    BY <1>s, <2>1, QueueKeeps
<1>f. ASSUME UNCHANGED <<queue, viewer>>,
             img' \in [Lines -> Halves], id' \in Lines,
             main' \in {"idle", "encoded", "copying"}, text' \in BOOLEAN, line' \in Lines
      PROVE  Inv'
  BY <1>f, <1>t, <1>s DEF viewer, StimulusFollowsPhase
<1>1. CASE ReadPacket
  BY <1>1, <1>s, <1>f DEF ReadPacket
<1>2. CASE CopyFirst
  BY <1>2, <1>s, <1>f, HalfSet DEF CopyFirst
<1>3. CASE CopySecond
  BY <1>3, <1>s, <1>f, HalfSet, LinesFacts DEF CopySecond
<1>4. CASE PrintText
  BY <1>4, <1>s, <1>f DEF PrintText
<1>5. CASE GetInReport
  <2>1. queue' \in Seq(Reports) /\ Len(queue') <= QueueMax
    <3>1. Len(queue) < QueueMax /\ QueueMax \in Nat /\ Len(queue) \in Nat
      BY <1>5, <1>s DEF GetInReport
    <3> QED
      BY <1>5, <3>1, QueueKeeps DEF GetInReport
  <2>2. line' \in Lines /\ text' \in BOOLEAN
    BY <1>5, <1>s, LinesFacts DEF GetInReport
  <2> QED
    BY <1>5, <1>t, <1>s, <2>1, <2>2 DEF GetInReport, viewer, StimulusFollowsPhase
<1>6. CASE Start
  <2>1. /\ up' = TRUE /\ on' = TRUE /\ running' = FALSE /\ fresh' = {}
        /\ n' = 0 /\ cycle' = Cycle /\ queue' = <<>> /\ UNCHANGED firmware
    BY <1>6 DEF Start
  <2>2. 0 < Cycle \div 2 /\ 0 < Cycle
    OBVIOUS
  <2>3. queue' \in Seq(Reports) /\ Len(queue') <= QueueMax
    BY <2>1
  <2> QED
    BY <1>t, <1>s, <2>1, <2>2, <2>3 DEF firmware, StimulusFollowsPhase
<1>7. CASE ReadText
  BY <1>7, <1>t, <1>s, <1>q DEF ReadText, firmware, viewer, StimulusFollowsPhase
<1>8. CASE DecodeLine
  BY <1>8, <1>t, <1>s, <1>q DEF DecodeLine, Decoding, firmware, StimulusFollowsPhase
<1>9. CASE DecodeLast
  <2>1. /\ up /\ queue # <<>> /\ fresh' = {} /\ running' = TRUE
        /\ queue' = Tail(queue) /\ UNCHANGED firmware
    BY <1>9 DEF DecodeLast, Decoding
  <2>2. /\ n' \in Nat /\ cycle' \in Nat /\ cycle' >= 2 /\ n' < cycle'
        /\ up' \in BOOLEAN /\ on' \in BOOLEAN
        /\ up' => (on' <=> n' < cycle' \div 2)
    <3>1. CASE running
      BY <1>9, <2>1, <3>1, CountKeeps DEF DecodeLast
    <3>2. CASE ~running
      BY <1>9, <1>s, <2>1, <3>2 DEF DecodeLast, StimulusFollowsPhase
    <3> QED
      BY <3>1, <3>2
  <2> QED
    BY <1>t, <1>s, <1>q, <2>1, <2>2 DEF firmware, StimulusFollowsPhase
<1>10. CASE Reset
  <2>1. PICK c \in {cycle, cycle + Step, cycle - Step} : cycle' = Clamped(c)
    BY <1>10 DEF Reset
  <2>2. cycle' \in Nat /\ cycle' >= 2 /\ 0 < cycle' \div 2
    <3>1. c \in Int
      BY <1>s
    <3>2. cycle' \in Nat /\ cycle' >= 2
      BY <2>1, <3>1 DEF Clamped
    <3>3. \A k \in Nat : k >= 2 => 0 < k \div 2
      OBVIOUS
    <3> QED
      BY <3>2, <3>3
  <2>3. n' = 0 /\ running' = FALSE /\ fresh' = {} /\ UNCHANGED <<firmware, queue>>
    BY <1>10 DEF Reset, CountAfterReset, RunningAfterReset
  <2>4. up' \in BOOLEAN /\ on' \in BOOLEAN /\ (up' => on' = TRUE)
    BY <1>10 DEF Reset, SetStimulus
  <2>5. n' < cycle'
    BY <2>2, <2>3
  <2>6. TypeOK'
    BY <1>t, <1>s, <2>2, <2>3, <2>4, <2>5 DEF firmware
  <2> QED
    BY <2>2, <2>3, <2>4, <2>6 DEF StimulusFollowsPhase
<1>11. CASE Exit
  BY <1>11, <1>t, <1>s DEF Exit, firmware, StimulusFollowsPhase
<1>12. CASE UNCHANGED vars
  BY <1>12, <1>t, <1>s DEF vars, firmware, viewer, StimulusFollowsPhase
<1> QED
  BY <1>1, <1>2, <1>3, <1>4, <1>5, <1>6, <1>7, <1>8, <1>9, <1>10, <1>11, <1>12 DEF Next

LEMMA InvAlways == Spec => []Inv
<1> QED
  BY InvInit, InvNext, PTL DEF Spec

\* The variables stay within their types, and the count within the cycle.
THEOREM CameraTypeOK == Spec => []TypeOK
<1>1. Inv => TypeOK
  BY DEF Inv
<1> QED
  BY <1>1, InvAlways, PTL

\* The stimulus is on in the first half of every cycle and off in the second,
\* for every length of a cycle the keys reach and whatever the script does.
THEOREM StimulusInPhase == Spec => []StimulusFollowsPhase
<1>1. Inv => StimulusFollowsPhase
  BY DEF Inv
<1> QED
  BY <1>1, InvAlways, PTL

-----------------------------------------------------------------------------
(* Fresh lines. *)

\* The line that follows a report.
After(r) == IF r.text THEN r.y ELSE NextLine(r.y)

\* The line of the i-th report in the queue, or the one the firmware is at.
Coming(i) == IF i <= Len(queue) THEN queue[i].y ELSE line

\* The reports in the queue follow each other up to the firmware's next line,
\* and a viewer that takes frames has all lines before the next one.
Ordered == \A i \in 1 .. Len(queue) : Coming(i + 1) = After(queue[i])
Caught  == up /\ running => \A y \in Lines : y < Coming(1) => y \in fresh

FreshInv == Inv /\ Ordered /\ Caught

LEMMA FreshInit == Init => FreshInv
<1>1. Init => queue = <<>> /\ running = FALSE
  BY DEF Init
<1> QED
  BY <1>1, InvInit DEF FreshInv, Ordered, Caught

\* Taking the first report from the queue leaves the others in order.
LEMMA TailOrdered ==
  ASSUME Inv, Ordered, queue # <<>>, queue' = Tail(queue), line' = line
  PROVE  Ordered' /\ Coming(1)' = After(Head(queue))
<1>1. queue \in Seq(Reports) /\ queue' \in Seq(Reports)
      /\ Len(queue) \in Nat /\ Len(queue') = Len(queue) - 1
  BY QueueKeeps DEF Inv
<1>2. \A i \in 1 .. Len(queue') : queue'[i] = queue[i + 1]
  BY <1>1
<1>3. \A i \in Nat \ {0} : Coming(i)' = Coming(i + 1)
  BY <1>1, <1>2 DEF Coming
<1>4. ASSUME NEW i \in 1 .. Len(queue') PROVE Coming(i + 1)' = After(queue'[i])
  <2>1. i + 1 \in 1 .. Len(queue) /\ i + 1 \in Nat \ {0}
    BY <1>1
  <2>2. Coming(i + 1)' = Coming((i + 1) + 1)
    BY <1>3, <2>1
  <2>3. Coming((i + 1) + 1) = After(queue[i + 1])
    BY <2>1 DEF Ordered
  <2> QED
    BY <1>2, <2>2, <2>3
<1>5. Ordered'
  <2>1. \A i \in 1 .. Len(queue') : Coming(i + 1)' = After(queue'[i])
    BY <1>4
  <2> QED
    BY <2>1 DEF Ordered, Coming, After, NextLine
<1>6. Coming(1)' = After(Head(queue))
  <2>1. 1 \in 1 .. Len(queue) /\ 1 \in Nat \ {0} /\ queue[1] = Head(queue)
    BY <1>1
  <2> QED
    BY <1>3, <2>1 DEF Ordered
<1> QED
  BY <1>5, <1>6

LEMMA ReportOrdered ==
  ASSUME Inv, Ordered, GetInReport
  PROVE  Ordered' /\ Coming(1)' = Coming(1)
<1>1. queue \in Seq(Reports) /\ Len(queue) \in Nat
      /\ queue' = Append(queue, Report) /\ Len(queue') = Len(queue) + 1
  BY QueueKeeps DEF Inv, GetInReport
<1>2. /\ \A i \in 1 .. Len(queue) : queue'[i] = queue[i]
      /\ queue'[Len(queue) + 1] = Report
  BY <1>1, QueueKeeps DEF Inv
<1>3. Report.y = line /\ line' = After(Report)
  BY DEF GetInReport, Report, After
<1>4. \A i \in 1 .. Len(queue) + 1 : Coming(i)' = Coming(i)
  BY <1>1, <1>2, <1>3 DEF Coming
<1>5. Coming(Len(queue) + 2)' = After(Report)
  BY <1>1, <1>3 DEF Coming
<1>6. ASSUME NEW i \in 1 .. Len(queue') PROVE Coming(i + 1)' = After(queue'[i])
  <2>1. CASE i = Len(queue) + 1
    BY <1>1, <1>2, <1>3, <2>1 DEF Coming
  <2>2. CASE i # Len(queue) + 1
    <3>1. i \in 1 .. Len(queue) /\ i + 1 \in 1 .. Len(queue) + 1
      BY <1>1, <2>2
    <3> QED
      BY <1>2, <1>4, <3>1 DEF Ordered
  <2> QED
    BY <2>1, <2>2
<1>7. Ordered'
  <2>1. \A i \in 1 .. Len(queue') : Coming(i + 1)' = After(queue'[i])
    BY <1>6
  <2> QED
    BY <2>1 DEF Ordered, Coming, After, NextLine
<1> QED
  BY <1>1, <1>4, <1>7

LEMMA SameOrdered ==
  ASSUME Ordered, queue' = queue, line' = line
  PROVE  Ordered' /\ Coming(1)' = Coming(1)
  BY DEF Ordered, Coming, After, NextLine

LEMMA FreshNext == FreshInv /\ [Next]_vars => FreshInv'
<1> SUFFICES ASSUME FreshInv, [Next]_vars PROVE Ordered' /\ Caught'
  BY InvNext DEF FreshInv
<1> USE DEF FreshInv
<1>s. ASSUME queue' = queue, line' = line, up' => up, running' => running,
             up' /\ running' => fresh' = fresh
      PROVE  Ordered' /\ Caught'
  BY <1>s, SameOrdered DEF Caught
<1>1. CASE ReadPacket
  BY <1>1, <1>s DEF ReadPacket, viewer
<1>2. CASE CopyFirst
  BY <1>2, <1>s DEF CopyFirst, viewer
<1>3. CASE CopySecond
  BY <1>3, <1>s DEF CopySecond, viewer
<1>4. CASE PrintText
  BY <1>4, <1>s DEF PrintText, viewer
<1>5. CASE GetInReport
  <2>1. up' = up /\ running' = running /\ fresh' = fresh
    BY <1>5 DEF GetInReport, viewer
  <2> QED
    BY <1>5, <2>1, ReportOrdered DEF Caught
<1>6. CASE Start
  <2>1. queue' = <<>> /\ running' = FALSE
    BY <1>6 DEF Start
  <2> QED
    BY <2>1 DEF Ordered, Caught
<1>7. CASE ReadText
  <2>1. Ordered' /\ Coming(1)' = After(Head(queue))
    BY <1>7, TailOrdered DEF ReadText, firmware
  <2>2. After(Head(queue)) = Coming(1)
    BY <1>7, QueueKeeps DEF ReadText, After, Coming, Inv
  <2>3. up' = up /\ running' = running /\ fresh' = fresh
    BY <1>7 DEF ReadText, viewer
  <2> QED
    BY <2>1, <2>2, <2>3 DEF Caught
<1>8. CASE DecodeLine
  <2>1. PICK y \in Lines \ {Height - 1} : Decoding(y) /\ fresh' = fresh \cup {y}
    BY <1>8 DEF DecodeLine
  <2>2. queue # <<>> /\ Head(queue).y = y /\ ~Head(queue).text
    BY <2>1 DEF Decoding
  <2>3. Ordered' /\ Coming(1)' = After(Head(queue))
    BY <1>8, <2>2, TailOrdered DEF DecodeLine, firmware
  <2>4. After(Head(queue)) = y + 1 /\ Coming(1) = y
    BY <2>1, <2>2, QueueKeeps DEF After, NextLine, Coming, Inv
  <2>5. up' = up /\ running' = running
    BY <1>8 DEF DecodeLine
  <2> QED
    BY <2>1, <2>3, <2>4, <2>5 DEF Caught, Lines
<1>9. CASE DecodeLast
  <2>1. queue # <<>> /\ Head(queue).y = Height - 1 /\ ~Head(queue).text
    BY <1>9 DEF DecodeLast, Decoding
  <2>2. Ordered' /\ Coming(1)' = After(Head(queue))
    BY <1>9, <2>1, TailOrdered DEF DecodeLast, firmware
  <2>3. After(Head(queue)) = 0
    BY <2>1 DEF After, NextLine
  <2>4. \A y \in Lines : ~(y < 0)
    BY DEF Lines
  <2> QED
    BY <2>2, <2>3, <2>4 DEF Caught
<1>10. CASE Reset
  <2>1. queue' = queue /\ line' = line /\ running' = FALSE
    BY <1>10 DEF Reset, firmware, RunningAfterReset
  <2> QED
    BY <2>1, SameOrdered DEF Caught
<1>11. CASE Exit
  BY <1>11, <1>s DEF Exit, firmware
<1>12. CASE UNCHANGED vars
  BY <1>12, <1>s DEF vars, firmware, viewer
<1> QED
  BY <1>1, <1>2, <1>3, <1>4, <1>5, <1>6, <1>7, <1>8, <1>9, <1>10, <1>11, <1>12 DEF Next

\* A frame that is taken has every line decoded after the frame before it and
\* after the last reset, for any height of a frame and any length of the queue.
THEOREM FramesAreFresh == Spec => FramesFresh
<1>1. FreshInv /\ [Next]_vars
        => [\A y \in {Height - 1} :
              Decoding(y) /\ running /\ queue' # queue => fresh \cup {y} = Lines]_vars
  <2> SUFFICES ASSUME FreshInv, Decoding(Height - 1), running
               PROVE  fresh \cup {Height - 1} = Lines
    OBVIOUS
  <2>1. up /\ Coming(1) = Height - 1
    BY QueueKeeps DEF Decoding, Coming, FreshInv, Inv
  <2>2. fresh \subseteq Lines
    BY DEF FreshInv, Inv, TypeOK
  <2>3. \A y \in Lines : y < Height - 1 => y \in fresh
    BY <2>1 DEF FreshInv, Caught
  <2>4. Height - 1 \in Lines /\ \A y \in Lines : y < Height - 1 \/ y = Height - 1
    BY DEF Lines
  <2> QED
    BY <2>2, <2>3, <2>4, Zenon
<1>2. Spec => []FreshInv
  BY FreshInit, FreshNext, PTL DEF Spec
<1> QED
  BY <1>1, <1>2, PTL DEF Spec, FramesFresh

-----------------------------------------------------------------------------
(* Whole lines. *)

\* Both halves of the code of every line, or none, but for the one being copied.
CopyInv ==
  /\ \A y \in Lines : Untorn(img[y]) \/ (main = "copying" /\ y = id)
  /\ main = "copying" => img[id].first = TRUE

\* No report in the queue holds parts of two lines.
ReportsUntorn == \A i \in DOMAIN queue : Untorn(queue[i].code)

LEMMA CopyNext == Inv /\ CopyInv /\ [Next]_vars => CopyInv'
<1> SUFFICES ASSUME Inv, CopyInv, [Next]_vars PROVE CopyInv'
  OBVIOUS
<1>t. TypeOK /\ id \in Lines /\ img \in [Lines -> Halves]
  BY DEF Inv, TypeOK, Halves
<1>s. ASSUME img' = img, main' = main, id' = id PROVE CopyInv'
  BY <1>s DEF CopyInv, Untorn
<1>1. CASE ReadPacket
  BY <1>1 DEF ReadPacket, CopyInv, Untorn
<1>2. CASE CopyFirst
  <2>1. /\ \A y \in Lines \ {id} : img'[y] = img[y]
        /\ img'[id].first = TRUE /\ main' = "copying" /\ id' = id /\ main = "encoded"
    BY <1>2, <1>t, HalfSet DEF CopyFirst
  <2> QED
    BY <1>t, <2>1 DEF CopyInv, Untorn
<1>3. CASE CopySecond
  <2>1. /\ \A y \in Lines \ {id} : img'[y] = img[y]
        /\ img'[id].second = TRUE /\ img'[id].first = img[id].first
        /\ main' = "idle" /\ main = "copying"
    BY <1>3, <1>t, HalfSet DEF CopySecond
  <2> QED
    BY <1>t, <2>1 DEF CopyInv, Untorn
<1>4. CASE PrintText
  BY <1>4, <1>s DEF PrintText
<1>5. CASE ~(ReadPacket \/ CopyFirst \/ CopySecond \/ PrintText)
  <2>1. img' = img /\ main' = main /\ id' = id
    BY <1>5 DEF Next, vars, firmware, GetInReport, Start, ReadText, DecodeLine,
                DecodeLast, Reset, Exit
  <2> QED
    BY <1>s, <2>1
<1> QED
  BY <1>1, <1>2, <1>3, <1>4, <1>5

\* While the interrupt may come no line is copied half, so the one it takes is
\* whole; the other steps only take reports away.
LEMMA UntornNext ==
  ASSUME Inv, CopyInv, ReportsUntorn, [Next]_vars
  PROVE  ReportsUntorn'
<1>1. queue \in Seq(Reports) /\ Len(queue) \in Nat /\ DOMAIN queue = 1 .. Len(queue)
  BY QueueKeeps DEF Inv
<1>2. CASE queue' = queue
  BY <1>2 DEF ReportsUntorn, Untorn
<1>3. CASE queue' = <<>>
  BY <1>3 DEF ReportsUntorn
<1>4. CASE queue # <<>> /\ queue' = Tail(queue)
  <2>1. Len(queue') = Len(queue) - 1 /\ DOMAIN queue' = 1 .. Len(queue')
        /\ \A i \in 1 .. Len(queue') : queue'[i] = queue[i + 1]
    BY <1>1, <1>4, QueueKeeps DEF Inv
  <2>2. ASSUME NEW i \in DOMAIN queue' PROVE Untorn(queue'[i].code)
    <3>1. i + 1 \in DOMAIN queue /\ queue'[i] = queue[i + 1]
      BY <1>1, <2>1
    <3> QED
      BY <3>1 DEF ReportsUntorn
  <2> QED
    BY <2>2 DEF ReportsUntorn, Untorn
<1>5. CASE GetInReport
  <2>1. line \in Lines /\ main # "copying"
    BY <1>5 DEF GetInReport, IrqOn, Inv, TypeOK
  <2>2. Untorn(Report.code)
    BY <2>1 DEF CopyInv, Report
  <2>3. Len(queue') = Len(queue) + 1 /\ DOMAIN queue' = 1 .. Len(queue')
        /\ queue'[Len(queue) + 1] = Report
        /\ \A i \in 1 .. Len(queue) : queue'[i] = queue[i]
    BY <1>1, <1>5, QueueKeeps DEF GetInReport, Inv
  <2>4. ASSUME NEW i \in DOMAIN queue' PROVE Untorn(queue'[i].code)
    <3>1. CASE i = Len(queue) + 1
      BY <2>2, <2>3, <3>1
    <3>2. CASE i # Len(queue) + 1
      <4>1. i \in DOMAIN queue /\ queue'[i] = queue[i]
        BY <1>1, <2>3, <3>2
      <4> QED
        BY <4>1 DEF ReportsUntorn
    <3> QED
      BY <3>1, <3>2
  <2> QED
    BY <2>4 DEF ReportsUntorn, Untorn
<1> QED
  BY <1>2, <1>3, <1>4, <1>5 DEF Next, vars, viewer, firmware, ReadPacket, CopyFirst,
     CopySecond, PrintText, Start, ReadText, DecodeLine, DecodeLast, Decoding, Reset, Exit

\* No line reaches the viewer as the halves of two copies, for any number of
\* lines and however the interrupt falls between the steps of the main loop.
THEOREM LinesUntorn == Spec => []ReportsUntorn
<1>1. Init => Inv /\ CopyInv /\ ReportsUntorn
  <2> SUFFICES ASSUME Init PROVE CopyInv /\ ReportsUntorn
    BY InvInit
  <2>1. main = "idle" /\ queue = <<>>
        /\ img = [y \in Lines |-> [first |-> FALSE, second |-> FALSE]]
    BY DEF Init
  <2>2. \A y \in Lines : Untorn(img[y])
    BY <2>1 DEF Untorn
  <2>3. DOMAIN queue = {}
    BY <2>1
  <2> QED
    BY <2>1, <2>2, <2>3 DEF CopyInv, ReportsUntorn
<1>2. Inv /\ CopyInv /\ ReportsUntorn /\ [Next]_vars
        => (Inv /\ CopyInv /\ ReportsUntorn)'
  BY InvNext, CopyNext, UntornNext
<1> QED
  BY <1>1, <1>2, PTL DEF Spec

\* As long as camera and viewer agree on the order of the code, every line a report
\* brings shows what the sensor saw there, as far as its code fits, and its last pixel
\* behind that, or nothing yet, for any picture, width, size of the line and order: no
\* report holds a line copied half, and the decoder, which ends one bit behind what
\* was sent, inverts the encoder.
THEOREM LinesAreWhole ==
  ASSUME K = ViewerK
  PROVE  Spec => []LinesWhole
<1>1. Inv /\ ReportsUntorn => LinesWhole
  <2> SUFFICES ASSUME Inv, ReportsUntorn, queue # <<>>, NEW rest \in {0, 1}
               PROVE  LET y   == Last(queue).y
                          got == Shown(y, Last(queue).code, rest)
                      IN  \/ /\ \A x \in Fitting(scene[y]) : got[x] = scene[y][x]
                             /\ \A x \in Cut(scene[y]) :
                                  got[x] = IF x = 1 THEN 0 ELSE got[x - 1]
                          \/ \A x \in 1 .. Width : got[x] = 0
    BY Zenon DEF LinesWhole
  <2>1. Len(queue) \in DOMAIN queue /\ queue[Len(queue)] \in Reports
    BY QueueKeeps DEF Inv
  <2>2. Last(queue) = queue[Len(queue)]
    BY DEF Last
  <2>3. /\ Last(queue).y \in Lines /\ Last(queue).code.first \in BOOLEAN
        /\ Untorn(Last(queue).code)
    BY <2>1, <2>2 DEF ReportsUntorn, Reports, Halves
  <2> QED
    BY <2>3, UntornShows
<1> QED
  BY <1>1, InvAlways, LinesUntorn, PTL
=============================================================================
