-------------------------- MODULE LineEditorProofs --------------------------
(***************************************************************************)
(* Proofs about LineEditor, for buffers of any size, any characters and    *)
(* any number of parts: the line stays a string within its buffer, the     *)
(* editor implements LineEdit, and split() finds the words of every line.  *)
(***************************************************************************)
EXTENDS LineEditor, SequenceTheorems, FiniteSetTheorems, WellFoundedInduction, TLAPS

(***************************************************************************)
(* Induction and recursion over the natural numbers, for sets and          *)
(* functions.                                                              *)
(***************************************************************************)

\* A non-empty set of natural numbers has a least element.
LEMMA LeastExists ==
  ASSUME NEW S \in SUBSET Nat, S # {}
  PROVE  \E m \in S : \A n \in S : m <= n
<1> DEFINE R == OpToRel(<, Nat)
<1>1. IsWellFoundedOn(R, Nat)
  BY NatLessThanWellFounded, Zenon
<1>2. \A p, q \in Nat : p < q => <<p, q>> \in R
  BY DEF OpToRel
<1>3. PICK m \in S : \A n \in S : ~(<<n, m>> \in R)
  <2> HIDE DEF R
  <2> QED
    BY <1>1, WFMin
<1>4. ASSUME NEW n \in S PROVE m <= n
  <2>1. m \in Nat /\ n \in Nat /\ (n < m => <<n, m>> \in R)
    BY <1>2
  <2> HIDE DEF R
  <2> QED
    BY <1>3, <2>1
<1> QED
  BY <1>4

\* A set that has 0, and the successor of every number it has, has them all.
LEMMA NaturalInduction ==
  ASSUME NEW T, 0 \in T, \A n \in Nat : n \in T => n + 1 \in T
  PROVE  Nat \subseteq T
<1> SUFFICES ASSUME Nat \ T # {} PROVE FALSE
  OBVIOUS
<1>1. PICK n \in Nat \ T : \A m \in Nat \ T : n <= m
  BY LeastExists
<1>2. n # 0 /\ n - 1 \in Nat /\ n - 1 + 1 = n /\ ~(n <= n - 1)
  OBVIOUS
<1>3. n - 1 \in T
  BY <1>1, <1>2
<1> QED
  BY <1>2, <1>3

\* f is the function on 0 .. n that starts at c and goes on by step.
Recursion(n, c, step, f) == f[0] = c /\ \A i \in 1 .. n : f[i] = step[<<i, f[i - 1]>>]

\* There is such a function, whatever c and step are: the functions that are right
\* up to m exist for every m.
LEMMA RecursionExists ==
  ASSUME NEW n \in Nat, NEW S, NEW c \in S, NEW step \in [(1 .. n) \X S -> S]
  PROVE  \E f \in [0 .. n -> S] : Recursion(n, c, step, f)
<1> DEFINE Is(m, f) == f[0] = c /\ \A i \in 1 .. m : f[i] = step[<<i, f[i - 1]>>]
           T == {m \in Nat : m <= n => \E f \in [0 .. n -> S] : Is(m, f)}
<1>1. 0 \in T
  <2> DEFINE f0 == [i \in 0 .. n |-> c]
  <2>1. f0 \in [0 .. n -> S] /\ f0[0] = c /\ 1 .. 0 = {}
    OBVIOUS
  <2> QED
    BY <2>1
<1>2. ASSUME NEW m \in Nat, m \in T PROVE m + 1 \in T
  <2>1. CASE m + 1 <= n
    <3>1. PICK f \in [0 .. n -> S] : Is(m, f)
      BY <1>2, <2>1
    <3> DEFINE v == step[<<m + 1, f[m]>>]
               g == [f EXCEPT ![m + 1] = v]
    <3>2. m \in 0 .. n /\ m + 1 \in 1 .. n /\ m + 1 \in 0 .. n /\ f[m] \in S /\ v \in S
      BY <2>1
    <3>3. g \in [0 .. n -> S] /\ g[m + 1] = v /\ \A i \in 0 .. m : g[i] = f[i]
      <4> HIDE DEF v
      <4> QED
        BY <3>2
    <3>4. Is(m + 1, g)
      <4>1. ASSUME NEW i \in 1 .. m + 1 PROVE g[i] = step[<<i, g[i - 1]>>]
        <5> HIDE DEF g
        <5>1. CASE i = m + 1
          BY <5>1, <3>3
        <5>2. CASE i \in 1 .. m
          <6>1. i \in 0 .. m /\ i - 1 \in 0 .. m
            BY <5>2
          <6> QED
            BY <6>1, <5>2, <3>1, <3>3
        <5> QED
          BY <5>1, <5>2
      <4>2. g[0] = c
        BY <3>1, <3>3
      <4> QED
        BY <4>1, <4>2
    <3> HIDE DEF g, Is
    <3> QED
      BY <3>3, <3>4
  <2> QED
    BY <2>1
<1> HIDE DEF T
<1>3. n \in T
  BY <1>1, <1>2, NaturalInduction
<1>4. PICK f \in [0 .. n -> S] : Is(n, f)
  BY <1>3 DEF T
<1> QED
  BY <1>4 DEF Recursion

(***************************************************************************)
(* Sequences.                                                              *)
(***************************************************************************)

\* The sequence s with e at i, by its elements.
Opened(s, i, e) ==
  [j \in 1 .. Len(s) + 1 |-> IF j < i THEN s[j] ELSE IF j = i THEN e ELSE s[j - 1]]

\* What a sequence with one more element at i is made of.
LEMMA InsertAtElements ==
  ASSUME NEW S, NEW s \in Seq(S), NEW i \in 1 .. Len(s) + 1, NEW e \in S
  PROVE  /\ InsertAt(s, i, e) \in Seq(S)
         /\ Len(InsertAt(s, i, e)) = Len(s) + 1
         /\ \A j \in 1 .. Len(s) + 1 : InsertAt(s, i, e)[j] =
              IF j < i THEN s[j] ELSE IF j = i THEN e ELSE s[j - 1]
         /\ InsertAt(s, i, e) = Opened(s, i, e)
<1> DEFINE p == SubSeq(s, 1, i - 1)
           q == SubSeq(s, i, Len(s))
<1>1. /\ p \in Seq(S) /\ Len(p) = i - 1
      /\ \A j \in 1 .. i - 1 : p[j] = s[j]
  BY SubSeqProperties, ElementOfSeq
<1>2. /\ q \in Seq(S) /\ Len(q) = Len(s) - i + 1
      /\ \A j \in 1 .. Len(s) - i + 1 : q[j] = s[i + j - 1]
  BY SubSeqProperties, ElementOfSeq
<1>3. /\ p \o <<e>> \in Seq(S) /\ Len(p \o <<e>>) = i
      /\ \A j \in 1 .. i : (p \o <<e>>)[j] = IF j < i THEN s[j] ELSE e
  <2>1. <<e>> \in Seq(S) /\ Len(<<e>>) = 1 /\ <<e>>[1] = e
    OBVIOUS
  <2> HIDE DEF p
  <2> QED
    BY <1>1, <2>1, ConcatProperties
<1> HIDE DEF p, q
<1>4. InsertAt(s, i, e) = (p \o <<e>>) \o q
  BY DEF InsertAt, p, q
<1> DEFINE u == p \o <<e>>
           t == u \o q
<1>5. /\ t \in Seq(S) /\ Len(t) = Len(s) + 1
      /\ \A j \in 1 .. Len(s) + 1 :
           t[j] = IF j < i THEN s[j] ELSE IF j = i THEN e ELSE s[j - 1]
  <2>1. /\ u \in Seq(S) /\ Len(u) = i
        /\ \A j \in 1 .. i : u[j] = IF j < i THEN s[j] ELSE e
    BY <1>3
  <2> HIDE DEF u
  <2>2. /\ t \in Seq(S) /\ Len(t) = Len(u) + Len(q)
        /\ \A j \in 1 .. Len(u) + Len(q) : t[j] = IF j <= Len(u) THEN u[j] ELSE q[j - Len(u)]
    BY <1>2, <2>1, ConcatProperties
  <2>3. Len(s) \in Nat /\ Len(u) + Len(q) = Len(s) + 1
    BY <1>2, <2>1
  <2>4. ASSUME NEW j \in 1 .. Len(s) + 1
        PROVE  t[j] = IF j < i THEN s[j] ELSE IF j = i THEN e ELSE s[j - 1]
    <3>1. CASE j <= i
      BY <2>1, <2>2, <2>3, <3>1
    <3>2. CASE j > i
      <4>1. t[j] = q[j - i] /\ j - i \in 1 .. Len(s) - i + 1
        BY <1>2, <2>1, <2>2, <2>3, <3>2
      <4>2. q[j - i] = s[i + (j - i) - 1]
        BY <1>2, <4>1
      <4> QED
        BY <3>2, <4>1, <4>2
    <3> QED
      BY <2>3, <3>1, <3>2
  <2> QED
    BY <2>2, <2>3, <2>4
<1> HIDE DEF t
<1>6. t \in [1 .. Len(s) + 1 -> S]
  BY <1>5, LenProperties
<1>7. t = Opened(s, i, e)
  BY <1>5, <1>6 DEF Opened
<1>8. InsertAt(s, i, e) = t
  BY <1>4 DEF t
<1> QED
  BY <1>5, <1>7, <1>8

\* What a sequence without its element at i is made of.
LEMMA RemoveAtElements ==
  ASSUME NEW S, NEW s \in Seq(S), NEW i \in 1 .. Len(s)
  PROVE  /\ RemoveAt(s, i) \in Seq(S)
         /\ Len(RemoveAt(s, i)) = Len(s) - 1
         /\ \A j \in 1 .. Len(s) - 1 : RemoveAt(s, i)[j] =
              IF j < i THEN s[j] ELSE s[j + 1]
<1> DEFINE p == SubSeq(s, 1, i - 1)
           q == SubSeq(s, i + 1, Len(s))
<1>1. /\ p \in Seq(S) /\ Len(p) = i - 1
      /\ \A j \in 1 .. i - 1 : p[j] = s[j]
  BY SubSeqProperties, ElementOfSeq
<1>2. /\ q \in Seq(S) /\ Len(q) = Len(s) - i
      /\ \A j \in 1 .. Len(s) - i : q[j] = s[i + j]
  BY SubSeqProperties, ElementOfSeq
<1> HIDE DEF p, q
<1>3. RemoveAt(s, i) = p \o q
  BY DEF RemoveAt, p, q
<1>4. /\ p \o q \in Seq(S) /\ Len(p \o q) = Len(p) + Len(q)
      /\ \A j \in 1 .. Len(p) + Len(q) :
           (p \o q)[j] = IF j <= Len(p) THEN p[j] ELSE q[j - Len(p)]
  BY <1>1, <1>2, ConcatProperties
<1>5. Len(p) + Len(q) = Len(s) - 1
  BY <1>1, <1>2
<1>6. ASSUME NEW j \in 1 .. Len(s) - 1
      PROVE  (p \o q)[j] = IF j < i THEN s[j] ELSE s[j + 1]
  <2>1. CASE j < i
    BY <2>1, <1>1, <1>4, <1>5
  <2>2. CASE ~(j < i)
    <3> DEFINE k == j - Len(p)
    <3>1. k \in 1 .. Len(s) - i /\ ~(j <= Len(p)) /\ i + k = j + 1
      BY <2>2, <1>1
    <3>2. q[k] = s[i + k]
      BY <3>1, <1>2
    <3>3. (p \o q)[j] = q[k]
      BY <3>1, <1>4, <1>5
    <3> QED
      BY <3>1, <3>2, <3>3, <2>2
  <2> QED
    BY <2>1, <2>2
<1> QED
  BY <1>3, <1>4, <1>5, <1>6

(***************************************************************************)
(* Strings in buffers.                                                     *)
(***************************************************************************)

\* strlen() finds the first terminator, wherever it is.
LEMMA StrLenIs ==
  ASSUME NEW b \in Buffer, NEW n \in Idx, IsString(b, n)
  PROVE  StrLen(b) = n
<1>1. \A m \in Idx : IsString(b, m) => m = n
  BY DEF IsString, Idx
<1> QED
  BY <1>1 DEF StrLen, IsString

\* strcpy() makes the destination the same string.
LEMMA StrCpyIs ==
  ASSUME NEW d \in Buffer, NEW b \in Buffer, NEW n \in Idx, IsString(b, n)
  PROVE  /\ StrCpy(d, b) \in Buffer
         /\ IsString(StrCpy(d, b), n)
         /\ \A i \in 0 .. n - 1 : StrCpy(d, b)[i] = b[i]
<1>1. StrLen(b) = n
  BY StrLenIs
<1>2. StrCpy(d, b) = [i \in Idx |-> IF i <= n THEN b[i] ELSE d[i]]
  BY <1>1 DEF StrCpy
<1>3. StrCpy(d, b) \in Buffer
  BY <1>2 DEF Buffer
<1>4. StrCpy(d, b)[n] = Nul /\ \A i \in 0 .. n - 1 : StrCpy(d, b)[i] = b[i]
  <2>1. n \in Nat /\ \A i \in 0 .. n - 1 : i \in Idx /\ i <= n
    BY SizeAssumption DEF Idx
  <2> QED
    BY <1>2, <2>1 DEF IsString
<1> QED
  BY <1>3, <1>4 DEF IsString

\* move() with the cursor and the tail inside the buffer.
LEMMA MovedIs ==
  ASSUME NEW b \in Buffer, NEW p \in Idx, NEW l \in Idx, NEW d \in {1, -1},
         d = 1 => l + 1 < Size, d = -1 => p > 0
  PROVE  /\ Moved(b, p, l, d) \in Buffer
         /\ \A i \in Idx : Moved(b, p, l, d)[i] =
              IF i >= p + d /\ i < l + d THEN b[i - d] ELSE b[i]
<1>1. \A i \in Idx : i \in p + d .. l + d - 1 <=> i >= p + d /\ i < l + d
  BY DEF Idx
<1>2. \A i \in Idx : i >= p + d /\ i < l + d => i - d \in Idx
  BY SizeAssumption DEF Idx
<1> QED
  BY <1>1, <1>2 DEF Moved, Buffer

(***************************************************************************)
(* The inductive invariant: the line is a string of len characters, and    *)
(* the history a string.  The refinement needs it too, since what is       *)
(* entered or recalled is read up to the terminator, not to len.           *)
(***************************************************************************)
IInv == TypeOK /\ Strings

\* A string in a buffer, as a sequence.
LEMMA StringIsSeq ==
  ASSUME NEW b \in Buffer, NEW n \in Idx, IsString(b, n)
  PROVE  /\ [i \in 1 .. n |-> b[i - 1]] \in Seq(Char)
         /\ Len([i \in 1 .. n |-> b[i - 1]]) = n
<1>1. n \in Nat /\ \A i \in 1 .. n : i - 1 \in Idx /\ i - 1 \in 0 .. n - 1
  BY SizeAssumption DEF Idx
<1>2. \A i \in 1 .. n : b[i - 1] \in Char
  BY <1>1 DEF IsString, Buffer
<1> QED
  BY <1>1, <1>2

\* The line and the history, as sequences and as strings.
LEMMA TextIs ==
  ASSUME IInv
  PROVE  /\ Text \in Seq(Char) /\ Len(Text) = len
         /\ StrLen(buf) = len /\ Str(buf) = Text
         /\ StrLen(hist) \in Idx /\ IsString(hist, StrLen(hist))
         /\ Str(hist) \in Seq(Char) /\ Len(Str(hist)) = StrLen(hist)
<1>1. StrLen(buf) = len
  BY StrLenIs DEF IInv, TypeOK, Strings
<1>2. PICK n \in Idx : IsString(hist, n)
  BY DEF IInv, Strings
<1>3. StrLen(hist) = n
  BY <1>2, StrLenIs DEF IInv, TypeOK
<1>5. Str(buf) = Text
  BY <1>1 DEF Str, Text
<1>6. Text \in Seq(Char) /\ Len(Text) = len
  BY StringIsSeq DEF IInv, TypeOK, Strings, Text
<1>7. Str(hist) \in Seq(Char) /\ Len(Str(hist)) = n
  BY <1>2, <1>3, StringIsSeq DEF IInv, TypeOK, Str
<1> QED
  BY <1>1, <1>2, <1>3, <1>5, <1>6, <1>7

LEMMA InitIInv == Init => IInv /\ Edit!EditInit
<1> SUFFICES ASSUME Init PROVE IInv /\ Edit!EditInit
  OBVIOUS
<1>1. TypeOK
  BY SizeAssumption DEF Init, TypeOK, Buffer, Idx
<1>2. IsString(buf, 0) /\ IsString(hist, 0) /\ 0 \in Idx
  BY SizeAssumption DEF Init, IsString, Idx
<1>3. IInv
  BY <1>1, <1>2 DEF Init, IInv, Strings
<1>4. StrLen(hist) = 0
  BY <1>1, <1>2, StrLenIs DEF TypeOK
<1>5. Text = <<>> /\ Str(hist) = <<>>
  BY <1>4 DEF Text, Str, Init
<1> QED
  BY <1>3, <1>5 DEF Init, Edit!EditInit

\* A printable key.
LEMMA InsertStep ==
  ASSUME IInv, NEW c \in Char, Insert(c)
  PROVE  IInv' /\ Edit!InsertChar
<1> DEFINE m == Moved(buf, pos, len, 1)
           w == [m EXCEPT ![pos] = c]
<1>1. /\ buf \in Buffer /\ pos \in Nat /\ len \in Nat /\ pos <= len
      /\ len + 1 < Size /\ pos \in Idx /\ len \in Idx
  BY SizeAssumption DEF IInv, TypeOK, Insert, Room, Idx
<1>2. /\ m \in Buffer
      /\ \A i \in Idx : m[i] =
           IF i >= pos + 1 /\ i < len + 1 THEN buf[i - 1] ELSE buf[i]
  BY <1>1, MovedIs
<1> HIDE DEF m
<1>3. /\ w \in Buffer
      /\ \A i \in Idx : w[i] = IF i = pos THEN c ELSE m[i]
  BY <1>1, <1>2 DEF Buffer
<1>4. buf' = [w EXCEPT ![len'] = Nul] /\ len' = len + 1 /\ pos' = pos + 1
  BY DEF Insert, Terminated, m
<1> HIDE DEF w
<1>5. /\ buf' \in Buffer /\ len' \in Idx /\ pos' \in 0 .. len'
      /\ buf'[len'] = Nul /\ \A i \in 0 .. len : i \in Idx /\ buf'[i] = w[i]
  <2>1. len' \in Idx /\ pos' \in 0 .. len' /\ \A i \in 0 .. len : i \in Idx /\ i # len'
    BY <1>1, <1>4, SizeAssumption DEF Idx
  <2> QED
    BY <1>3, <1>4, <2>1 DEF Buffer
<1>6. \A i \in 0 .. len : buf'[i] =
        IF i < pos THEN buf[i] ELSE IF i = pos THEN c ELSE buf[i - 1]
  <2>1. \A i \in 0 .. len : i \in Int /\ i < len + 1 /\ (i > pos => i >= pos + 1)
    BY <1>1
  <2> QED
    BY <1>1, <1>2, <1>3, <1>5, <2>1
<1>7. IsString(buf', len')
  BY <1>1, <1>4, <1>5, <1>6, CharAssumption DEF IsString, IInv, Strings
<1>8. IInv'
  BY <1>5, <1>7 DEF IInv, TypeOK, Strings, Insert
<1>9. Text' = InsertAt(Text, pos + 1, c)
  <2>1. Text \in Seq(Char) /\ Len(Text) = len /\ pos + 1 \in 1 .. Len(Text) + 1
    BY <1>1, TextIs
  <2>2. Text' \in Seq(Char) /\ Len(Text') = len + 1
    BY <1>4, <1>5, <1>7, StringIsSeq DEF Text
  <2>3. \A j \in 1 .. len + 1 : Text'[j] =
          IF j < pos + 1 THEN Text[j] ELSE IF j = pos + 1 THEN c ELSE Text[j - 1]
    BY <1>1, <1>4, <1>6 DEF Text
  <2> HIDE DEF Text
  <2>4. /\ InsertAt(Text, pos + 1, c) \in Seq(Char)
        /\ Len(InsertAt(Text, pos + 1, c)) = len + 1
        /\ \A j \in 1 .. len + 1 : InsertAt(Text, pos + 1, c)[j] =
             IF j < pos + 1 THEN Text[j] ELSE IF j = pos + 1 THEN c ELSE Text[j - 1]
    <3>1. ASSUME NEW s \in Seq(Char), NEW i \in 1 .. Len(s) + 1
          PROVE  /\ InsertAt(s, i, c) \in Seq(Char)
                 /\ Len(InsertAt(s, i, c)) = Len(s) + 1
      BY InsertAtElements
    <3>2. ASSUME NEW s \in Seq(Char), NEW i \in 1 .. Len(s) + 1
          PROVE  InsertAt(s, i, c) = Opened(s, i, c)
      BY InsertAtElements
    <3>3. /\ InsertAt(Text, pos + 1, c) \in Seq(Char)
          /\ Len(InsertAt(Text, pos + 1, c)) = Len(Text) + 1
      BY <2>1, <3>1
    <3>4. InsertAt(Text, pos + 1, c) = Opened(Text, pos + 1, c)
      BY <2>1, <3>2
    <3>5. \A j \in 1 .. len + 1 : Opened(Text, pos + 1, c)[j] =
             IF j < pos + 1 THEN Text[j] ELSE IF j = pos + 1 THEN c ELSE Text[j - 1]
      BY <2>1 DEF Opened
    <3> QED
      BY <2>1, <3>3, <3>4, <3>5
  <2> QED
    BY <2>2, <2>3, <2>4, SeqEqual
<1>10. Len(Text) < Size - 1
  <2>1. Len(Text) = len
    BY TextIs
  <2> QED
    BY <1>1, <2>1, SizeAssumption
<1>11. Str(hist)' = Str(hist)
  BY DEF Insert, Str, StrLen
<1>12. outcome' = outcome /\ pos' = pos + 1
  BY DEF Insert
<1>13. Edit!InsertAt(Text, pos + 1, c) = InsertAt(Text, pos + 1, c)
  BY DEF InsertAt, Edit!InsertAt
<1> HIDE DEF Text
<1> QED
  BY <1>8, <1>9, <1>10, <1>11, <1>12, <1>13, Zenon DEF Edit!InsertChar

\* The step of a key that rubs out the character at place p, counted from
\* 1: the line is one shorter and the history as it was.
LEMMA RubOutLine ==
  ASSUME IInv, NEW p \in 1 .. len,
         len' = len - 1, buf' = Terminated(Moved(buf, p, len, -1)), hist' = hist
  PROVE  /\ len' \in Idx /\ buf' \in Buffer /\ Strings'
         /\ Text' = RemoveAt(Text, p)
         /\ Str(hist)' = Str(hist)
<1> DEFINE m == Moved(buf, p, len, -1)
<1>1. buf \in Buffer /\ len \in Idx /\ len \in Nat /\ p \in Nat /\ p > 0 /\ p \in Idx
  BY SizeAssumption DEF IInv, TypeOK, Idx
<1>2. /\ m \in Buffer
      /\ \A i \in Idx : m[i] =
           IF i >= p - 1 /\ i < len - 1 THEN buf[i + 1] ELSE buf[i]
  BY <1>1, MovedIs
<1> HIDE DEF m
<1>3. buf' = [m EXCEPT ![len'] = Nul]
  BY DEF Terminated, m
<1>4. /\ buf' \in Buffer /\ len' \in Idx /\ buf'[len'] = Nul
      /\ \A i \in 0 .. len' - 1 : i \in Idx /\ buf'[i] = m[i]
  <2>1. len' \in Idx /\ \A i \in 0 .. len' - 1 : i \in Idx /\ i # len'
    BY <1>1, SizeAssumption DEF Idx
  <2> QED
    BY <1>2, <1>3, <2>1 DEF Buffer
<1>5. \A i \in 0 .. len' - 1 : buf'[i] = IF i < p - 1 THEN buf[i] ELSE buf[i + 1]
  <2>1. \A i \in 0 .. len' - 1 : i \in Int /\ i < len - 1 /\ (~(i < p - 1) => i >= p - 1)
    BY <1>1
  <2> QED
    BY <1>2, <1>4, <2>1
<1>6. IsString(buf', len')
  <2>1. \A i \in 0 .. len' - 1 : i \in 0 .. len - 1 /\ i + 1 \in 0 .. len - 1
    BY <1>1
  <2> QED
    BY <1>4, <1>5, <2>1 DEF IsString, IInv, Strings
<1>7. Strings'
  BY <1>6 DEF IInv, Strings
<1>8. Text' = RemoveAt(Text, p)
  <2>1. Text \in Seq(Char) /\ Len(Text) = len
    BY TextIs
  <2>2. Text' \in Seq(Char) /\ Len(Text') = len - 1
    BY <1>4, <1>6, StringIsSeq DEF Text
  <2>3. \A j \in 1 .. len - 1 : Text'[j] = IF j < p THEN Text[j] ELSE Text[j + 1]
    <3>1. \A j \in 1 .. len - 1 :
            /\ j - 1 \in 0 .. len' - 1 /\ j \in 1 .. len /\ j + 1 \in 1 .. len
            /\ j < p <=> j - 1 < p - 1
            /\ (j - 1) + 1 = j /\ (j + 1) - 1 = j
      BY <1>1
    <3> QED
      BY <3>1, <1>5 DEF Text
  <2> HIDE DEF Text
  <2>4. /\ RemoveAt(Text, p) \in Seq(Char)
        /\ Len(RemoveAt(Text, p)) = len - 1
        /\ \A j \in 1 .. len - 1 : RemoveAt(Text, p)[j] =
             IF j < p THEN Text[j] ELSE Text[j + 1]
    <3>1. ASSUME NEW s \in Seq(Char), NEW i \in 1 .. Len(s)
          PROVE  /\ RemoveAt(s, i) \in Seq(Char)
                 /\ Len(RemoveAt(s, i)) = Len(s) - 1
      BY RemoveAtElements
    <3>2. ASSUME NEW s \in Seq(Char), NEW i \in 1 .. Len(s), NEW j \in 1 .. Len(s) - 1
          PROVE  RemoveAt(s, i)[j] = IF j < i THEN s[j] ELSE s[j + 1]
      BY RemoveAtElements
    <3> QED
      BY <2>1, <3>1, <3>2
  <2> QED
    BY <2>2, <2>3, <2>4, SeqEqual
<1>9. Str(hist)' = Str(hist)
  BY DEF Str, StrLen
<1> QED
  BY <1>4, <1>7, <1>8, <1>9

LEMMA BackspaceStep ==
  ASSUME IInv, Backspace
  PROVE  IInv' /\ Edit!RubOut
<1>1. pos \in 1 .. len /\ pos - 1 \in 0 .. len - 1
  BY DEF Backspace, IInv, TypeOK, Idx
<1>2. /\ len' \in Idx /\ buf' \in Buffer /\ Strings'
      /\ Text' = RemoveAt(Text, pos) /\ Str(hist)' = Str(hist)
  BY <1>1, RubOutLine DEF Backspace
<1>3. IInv'
  BY <1>1, <1>2 DEF IInv, TypeOK, Backspace
<1>4. Edit!RemoveAt(Text, pos) = RemoveAt(Text, pos)
  BY DEF RemoveAt, Edit!RemoveAt
<1>5. pos > 0 /\ pos' = pos - 1 /\ outcome' = outcome
  BY DEF Backspace
<1> HIDE DEF Text
<1> QED
  BY <1>2, <1>3, <1>4, <1>5, Zenon DEF Edit!RubOut

LEMMA DeleteStep ==
  ASSUME IInv, Delete
  PROVE  IInv' /\ Edit!DeleteChar
<1>1. pos + 1 \in 1 .. len /\ pos \in 0 .. len - 1
  BY DEF Delete, IInv, TypeOK, Idx
<1>2. /\ len' \in Idx /\ buf' \in Buffer /\ Strings'
      /\ Text' = RemoveAt(Text, pos + 1) /\ Str(hist)' = Str(hist)
  BY <1>1, RubOutLine DEF Delete
<1>3. IInv'
  BY <1>1, <1>2 DEF IInv, TypeOK, Delete
<1>4. Edit!RemoveAt(Text, pos + 1) = RemoveAt(Text, pos + 1)
  BY DEF RemoveAt, Edit!RemoveAt
<1>5. pos < Len(Text) /\ pos' = pos /\ outcome' = outcome
  BY TextIs DEF Delete
<1> HIDE DEF Text
<1> QED
  BY <1>2, <1>3, <1>4, <1>5, Zenon DEF Edit!DeleteChar

\* The keys that only move the cursor, or only the escape sequence on.
LEMMA MoveStep ==
  ASSUME IInv, Home \/ End \/ Escape \/ Bracket \/ Right \/ Left
  PROVE  IInv' /\ Edit!MoveCursor
<1>1. /\ UNCHANGED <<buf, hist, len, outcome>>
      /\ pos' \in 0 .. len /\ state' \in 0 .. 2
  BY DEF Home, End, Escape, Bracket, Right, Left, IInv, TypeOK, Idx
<1>2. IInv'
  BY <1>1 DEF IInv, TypeOK, Strings
<1>3. Text' = Text /\ Str(hist)' = Str(hist) /\ outcome' = outcome
  BY <1>1 DEF Text, Str, StrLen
<1>4. pos' \in 0 .. Len(Text)
  BY <1>1, TextIs
<1> HIDE DEF Text
<1> QED
  BY <1>2, <1>3, <1>4, Zenon DEF Edit!MoveCursor

\* A line made empty.
LEMMA EmptyLine ==
  ASSUME NEW b \in Buffer
  PROVE  [b EXCEPT ![0] = Nul] \in Buffer /\ IsString([b EXCEPT ![0] = Nul], 0)
  BY SizeAssumption DEF Buffer, Idx, IsString

LEMMA EnterStep ==
  ASSUME IInv, Enter
  PROVE  IInv' /\ Edit!EnterLine
<1> DEFINE cut == Cut(buf)
<1>1. cut \in Buffer
  BY DEF IInv, TypeOK, Cut, Buffer
<1>2. buf' = [cut EXCEPT ![0] = Nul] /\ len' = 0 /\ pos' = 0 /\ state' = state
  BY DEF Enter, Terminated
<1> HIDE DEF cut
<1>3. buf' \in Buffer /\ IsString(buf', len')
  BY <1>1, <1>2, EmptyLine
<1>4. /\ hist' \in Buffer /\ IsString(hist', len)
      /\ \A i \in 0 .. len - 1 : hist'[i] = buf[i]
  BY StrCpyIs DEF Enter, IInv, TypeOK, Strings
<1>5. IInv'
  <2>1. len' \in Idx /\ pos' \in 0 .. len' /\ len \in Idx
    BY <1>2, SizeAssumption DEF IInv, TypeOK, Idx
  <2> QED
    BY <1>2, <1>3, <1>4, <2>1 DEF IInv, TypeOK, Strings
<1>6. Str(hist)' = Text
  <2>1. StrLen(hist') = len /\ len \in Nat
    BY <1>4, StrLenIs DEF IInv, TypeOK, Idx
  <2>2. Str(hist') = [i \in 1 .. len |-> hist'[i - 1]]
    BY <2>1 DEF Str
  <2>3. \A i \in 1 .. len : hist'[i - 1] = buf[i - 1]
    BY <1>4, <2>1
  <2> QED
    BY <2>2, <2>3 DEF Text
<1>7. Text' = <<>>
  BY <1>2 DEF Text
<1>8. outcome' = HandleCmd(Text)
  BY TextIs DEF Enter
<1> HIDE DEF Text
<1> QED
  BY <1>2, <1>5, <1>6, <1>7, <1>8, Zenon DEF Edit!EnterLine

LEMMA UpStep ==
  ASSUME IInv, Up
  PROVE  IInv' /\ Edit!RecallLine
<1> DEFINE n == StrLen(hist)
           w == StrCpy(buf, hist)
<1>1. buf \in Buffer /\ hist \in Buffer /\ n \in Idx /\ n \in Nat /\ IsString(hist, n)
  BY TextIs, SizeAssumption DEF IInv, TypeOK, Idx
<1>2. w \in Buffer /\ IsString(w, n) /\ \A i \in 0 .. n - 1 : w[i] = hist[i]
  BY <1>1, StrCpyIs
<1>3. buf' = [w EXCEPT ![n] = Nul] /\ len' = n /\ pos' = n /\ state' = 0
      /\ hist' = hist /\ outcome' = outcome
  BY DEF Up, Terminated
<1> HIDE DEF n, w
<1>4. buf' = w
  BY <1>1, <1>2, <1>3 DEF IsString, Buffer
<1>5. IInv'
  <2>1. n \in 0 .. n
    BY <1>1
  <2> QED
    BY <1>1, <1>2, <1>3, <1>4, <2>1 DEF IInv, TypeOK, Strings
<1>6. Text' = Str(hist)
  <2>1. \A i \in 1 .. n : w[i - 1] = hist[i - 1]
    BY <1>1, <1>2
  <2> QED
    BY <1>3, <1>4, <2>1 DEF Text, Str, n
<1>7. Str(hist)' = Str(hist) /\ pos' = Len(Str(hist))
  BY <1>3, TextIs DEF Str, StrLen, n
<1> HIDE DEF Text
<1> QED
  BY <1>3, <1>5, <1>6, <1>7, Zenon DEF Edit!RecallLine

LEMMA DownStep ==
  ASSUME IInv, Down
  PROVE  IInv' /\ Edit!ClearLine
<1>1. buf' = [buf EXCEPT ![0] = Nul] /\ len' = 0 /\ pos' = 0 /\ state' = 0
      /\ hist' = hist /\ outcome' = outcome
  BY DEF Down, Terminated
<1>2. buf' \in Buffer /\ IsString(buf', len')
  BY <1>1, EmptyLine DEF IInv, TypeOK
<1>3. IInv'
  <2>1. len' \in Idx /\ pos' \in 0 .. len'
    BY <1>1, SizeAssumption DEF Idx
  <2> QED
    BY <1>1, <1>2, <2>1 DEF IInv, TypeOK, Strings
<1>4. Text' = <<>> /\ Str(hist)' = Str(hist)
  BY <1>1 DEF Text, Str, StrLen
<1> HIDE DEF Text
<1> QED
  BY <1>1, <1>3, <1>4, Zenon DEF Edit!ClearLine

\* Every key keeps the invariant and is an operation of LineEdit.
LEMMA NextIInv ==
  ASSUME IInv, Next
  PROVE  IInv' /\ Edit!EditNext
<1>1. CASE \E c \in Char : Insert(c)
  BY <1>1, InsertStep DEF Edit!EditNext
<1>2. CASE Backspace
  BY <1>2, BackspaceStep DEF Edit!EditNext
<1>3. CASE Delete
  BY <1>3, DeleteStep DEF Edit!EditNext
<1>4. CASE Home \/ End \/ Escape \/ Bracket \/ Right \/ Left
  BY <1>4, MoveStep DEF Edit!EditNext
<1>5. CASE Enter
  BY <1>5, EnterStep DEF Edit!EditNext
<1>6. CASE Up
  BY <1>6, UpStep DEF Edit!EditNext
<1>7. CASE Down
  BY <1>7, DownStep DEF Edit!EditNext
<1> QED
  BY <1>1, <1>2, <1>3, <1>4, <1>5, <1>6, <1>7 DEF Next

LEMMA StutterIInv ==
  ASSUME IInv, UNCHANGED vars
  PROVE  IInv' /\ UNCHANGED Edit!editVars
<1>1. IInv'
  BY DEF vars, IInv, TypeOK, Strings
<1>2. Text' = Text /\ Str(hist)' = Str(hist)
  BY DEF vars, Text, Str, StrLen
<1> QED
  BY <1>1, <1>2 DEF vars, Edit!editVars

LEMMA Invariance == Spec => []IInv
<1>1. Init => IInv
  BY InitIInv
<1>2. IInv /\ [Next]_vars => IInv'
  BY NextIInv, StutterIInv
<1> QED
  BY <1>1, <1>2, PTL DEF Spec

(***************************************************************************)
(* The results.                                                            *)
(***************************************************************************)

\* The cursor stays in the line and the line in its buffer, whatever keys
\* handle_char() is fed.
THEOREM EditorTypeOK == Spec => []TypeOK
<1>1. IInv => TypeOK
  BY DEF IInv
<1> QED
  BY Invariance, <1>1, PTL

\* The line and the history are terminated strings after every key.
THEOREM EditorStrings == Spec => []Strings
<1>1. IInv => Strings
  BY DEF IInv
<1> QED
  BY Invariance, <1>1, PTL

\* The line editor of cmd.c implements LineEdit, for lines of any length.
THEOREM EditorImplements == Spec => ImplementsLineEdit
<1>1. Init => Edit!EditInit
  BY InitIInv
<1>2. IInv /\ [Next]_vars => [Edit!EditNext]_Edit!editVars
  BY NextIInv, StutterIInv
<1> QED
  BY Invariance, <1>1, <1>2, PTL DEF Spec, ImplementsLineEdit, Edit!EditSpec

(***************************************************************************)
(* What split() finds in a line.                                           *)
(***************************************************************************)

\* f looks for the first stop from its argument on, up to n + 1: the loops of
\* WordEnd, where the stops are the blanks, and AfterBlanks, where they are not.
Seeks(f, i, n, stop) ==
  f = [j \in i .. n + 1 |-> IF j > n \/ j \in stop THEN j ELSE f[j + 1]]

\* e is the first stop from j on, or beyond the end of the string.
FirstStop(e, j, n, stop) ==
  /\ e \in j .. n + 1
  /\ e <= n => e \in stop
  /\ \A x \in j .. e - 1 : x \notin stop

\* A loop that looks for a stop finds the first, and there is such a loop.
LEMMA SeekFinds ==
  ASSUME NEW n \in Nat, NEW i \in 1 .. n + 1, NEW stop
  PROVE  /\ \E f : Seeks(f, i, n, stop)
         /\ \A f : Seeks(f, i, n, stop) => FirstStop(f[i], i, n, stop)
<1> DEFINE Stops(j) == {e \in j .. n + 1 : e = n + 1 \/ e \in stop}
           Least(j) == CHOOSE e \in Stops(j) : \A x \in Stops(j) : e <= x
<1>1. ASSUME NEW j \in i .. n + 1
      PROVE  Least(j) \in Stops(j) /\ \A x \in Stops(j) : Least(j) <= x
  <2>1. n + 1 \in Stops(j) /\ Stops(j) \in SUBSET Nat
    OBVIOUS
  <2> HIDE DEF Stops
  <2>2. \E e \in Stops(j) : \A x \in Stops(j) : e <= x
    BY <2>1, LeastExists
  <2> QED
    BY <2>2
<1>2. \E f : Seeks(f, i, n, stop)
  <2> DEFINE f == [j \in i .. n + 1 |-> Least(j)]
  <2>1. ASSUME NEW j \in i .. n + 1
        PROVE  f[j] = IF j > n \/ j \in stop THEN j ELSE f[j + 1]
    <3>1. CASE j > n
      <4>1. Stops(j) = {j}
        BY <3>1
      <4>2. Least(j) = j
        BY <1>1, <4>1
      <4> QED
        BY <3>1, <4>2
    <3>2. CASE j \in stop /\ ~(j > n)
      <4>1. j \in Stops(j) /\ \A x \in Stops(j) : j <= x /\ x \in Int
        BY <3>2
      <4>2. Least(j) \in Stops(j) /\ Least(j) <= j
        BY <1>1, <4>1
      <4> HIDE DEF Least, Stops
      <4>3. Least(j) = j
        BY <4>1, <4>2
      <4> QED
        BY <3>2, <4>3
    <3>3. CASE ~(j > n) /\ j \notin stop
      <4>1. j + 1 \in i .. n + 1 /\ Stops(j) = Stops(j + 1)
        BY <3>3
      <4>2. Least(j) = Least(j + 1)
        BY <4>1
      <4> HIDE DEF Least
      <4> QED
        BY <3>3, <4>1, <4>2
    <3> QED
      BY <3>1, <3>2, <3>3
  <2>2. f = [j \in i .. n + 1 |-> f[j]]
    OBVIOUS
  <2> HIDE DEF f
  <2>3. Seeks(f, i, n, stop)
    BY <2>1, <2>2 DEF Seeks
  <2> QED
    BY <2>3
<1>3. ASSUME NEW f, Seeks(f, i, n, stop)
      PROVE  FirstStop(f[i], i, n, stop)
  <2> DEFINE T == {d \in Nat : \A j \in i .. n + 1 :
                                 j + d = n + 1 => FirstStop(f[j], j, n, stop)}
  <2>1. \A j \in i .. n + 1 : f[j] = IF j > n \/ j \in stop THEN j ELSE f[j + 1]
    BY <1>3, Zenon DEF Seeks
  <2>2. 0 \in T
    <3>1. ASSUME NEW j \in i .. n + 1, j + 0 = n + 1 PROVE FirstStop(f[j], j, n, stop)
      <4>1. j > n /\ f[j] = j
        BY <2>1, <3>1
      <4> QED
        BY <4>1 DEF FirstStop
    <3> QED
      BY <3>1
  <2>3. ASSUME NEW d \in Nat, d \in T PROVE d + 1 \in T
    <3>1. ASSUME NEW j \in i .. n + 1, j + (d + 1) = n + 1
          PROVE  FirstStop(f[j], j, n, stop)
      <4>1. CASE j \in stop
        <5>1. f[j] = j
          BY <2>1, <4>1
        <5> QED
          BY <4>1, <5>1 DEF FirstStop
      <4>2. CASE j \notin stop
        <5>1. ~(j > n) /\ j + 1 \in i .. n + 1 /\ (j + 1) + d = n + 1 /\ j \in Int
          BY <3>1
        <5>2. f[j] = f[j + 1]
          BY <2>1, <4>2, <5>1
        <5>3. FirstStop(f[j + 1], j + 1, n, stop)
          BY <2>3, <5>1
        <5>4. f[j] \in j + 1 .. n + 1 /\ (f[j] <= n => f[j] \in stop)
              /\ \A x \in j + 1 .. f[j] - 1 : x \notin stop
          BY <5>2, <5>3 DEF FirstStop
        <5>5. f[j] \in j .. n + 1 /\ \A x \in j .. f[j] - 1 : x = j \/ x \in j + 1 .. f[j] - 1
          BY <5>1, <5>4
        <5> QED
          BY <4>2, <5>4, <5>5 DEF FirstStop
      <4> QED
        BY <4>1, <4>2
    <3> QED
      BY <3>1
  <2> HIDE DEF T
  <2>4. n + 1 - i \in T /\ i + (n + 1 - i) = n + 1 /\ i \in i .. n + 1
    BY <2>2, <2>3, NaturalInduction
  <2> QED
    BY <2>4 DEF T
<1> QED
  BY <1>2, <1>3

\* The word that starts at i ends at the first blank, or at the end of the line.
LEMMA WordEndIs ==
  ASSUME NEW s \in Seq(Char), NEW i \in 1 .. Len(s) + 1
  PROVE  FirstStop(WordEnd(s, i), i, Len(s), {j \in Nat : s[j] = Blank})
<1> DEFINE n == Len(s)
           stop == {j \in Nat : s[j] = Blank}
           Is(f) == f = [j \in i .. n + 1 |-> IF j > n \/ s[j] = Blank THEN j ELSE f[j + 1]]
<1>1. n \in Nat /\ \A j \in i .. n + 1 : j \in stop <=> s[j] = Blank
  OBVIOUS
<1>2. \A f : Is(f) <=> Seeks(f, i, n, stop)
  <2> HIDE DEF stop, n
  <2> QED
    BY <1>1 DEF Seeks
<1>3. WordEnd(s, i) = (CHOOSE f : Is(f))[i]
  BY Zenon DEF WordEnd
<1> HIDE DEF stop, Is
<1>4. PICK f : Is(f)
  BY <1>1, <1>2, SeekFinds
<1>5. Is(CHOOSE g : Is(g))
  BY <1>4
<1>6. Seeks(CHOOSE g : Is(g), i, n, stop)
  BY <1>2, <1>5
<1>7. FirstStop((CHOOSE g : Is(g))[i], i, n, stop)
  BY <1>1, <1>6, SeekFinds
<1> QED
  BY <1>3, <1>7 DEF stop

\* The next word starts at the first character that is no blank.
LEMMA AfterBlanksIs ==
  ASSUME NEW s \in Seq(Char), NEW i \in 1 .. Len(s) + 1
  PROVE  FirstStop(AfterBlanks(s, i), i, Len(s), {j \in Nat : s[j] # Blank})
<1> DEFINE n == Len(s)
           stop == {j \in Nat : s[j] # Blank}
           Is(f) == f = [j \in i .. n + 1 |-> IF j > n \/ s[j] # Blank THEN j ELSE f[j + 1]]
<1>1. n \in Nat /\ \A j \in i .. n + 1 : j \in stop <=> s[j] # Blank
  OBVIOUS
<1>2. \A f : Is(f) <=> Seeks(f, i, n, stop)
  <2> HIDE DEF stop, n
  <2> QED
    BY <1>1 DEF Seeks
<1>3. AfterBlanks(s, i) = (CHOOSE f : Is(f))[i]
  BY Zenon DEF AfterBlanks
<1> HIDE DEF stop, Is
<1>4. PICK f : Is(f)
  BY <1>1, <1>2, SeekFinds
<1>5. Is(CHOOSE g : Is(g))
  BY <1>4
<1>6. Seeks(CHOOSE g : Is(g), i, n, stop)
  BY <1>2, <1>5
<1>7. FirstStop((CHOOSE g : Is(g))[i], i, n, stop)
  BY <1>1, <1>6, SeekFinds
<1> QED
  BY <1>3, <1>7 DEF stop

\* One turn of the loop of split() from i on: the word there, and where the next is.
WordAt(s, i) == SubSeq(s, i, WordEnd(s, i) - 1)

NextWord(s, i) ==
  IF WordEnd(s, i) > Len(s) THEN WordEnd(s, i) ELSE AfterBlanks(s, WordEnd(s, i) + 1)

\* from[<<i, k>>] is what the loop adds from i on, with k - 1 words found before.
FromHere(s, from, i, k) ==
  IF k = MaxParts THEN << SubSeq(s, i, Len(s)) >>
  ELSE IF NextWord(s, i) > Len(s) THEN << WordAt(s, i) >>
  ELSE << WordAt(s, i) >> \o from[<<NextWord(s, i), k + 1>>]

LEMMA NextWordType ==
  ASSUME NEW s \in Seq(Char), NEW i \in 1 .. Len(s) + 1
  PROVE  /\ WordEnd(s, i) \in i .. Len(s) + 1 /\ NextWord(s, i) \in i .. Len(s) + 1
         /\ WordAt(s, i) \in Seq(Char) /\ SubSeq(s, i, Len(s)) \in Seq(Char)
<1> DEFINE n == Len(s)
           e == WordEnd(s, i)
<1>1. n \in Nat /\ e \in i .. n + 1
  BY WordEndIs DEF FirstStop
<1>2. NextWord(s, i) \in i .. n + 1
  <2>1. CASE e > n
    BY <1>1, <2>1 DEF NextWord
  <2>2. CASE ~(e > n)
    <3>1. e + 1 \in 1 .. n + 1
      BY <1>1, <2>2
    <3>2. AfterBlanks(s, e + 1) \in e + 1 .. n + 1
      BY <3>1, AfterBlanksIs DEF FirstStop
    <3> HIDE DEF e
    <3>3. AfterBlanks(s, e + 1) \in i .. n + 1
      BY <1>1, <3>2
    <3> QED
      BY <2>2, <3>3 DEF NextWord, e
  <2> QED
    BY <2>1, <2>2
<1>3. \A a \in 1 .. n + 1, b \in 0 .. n : SubSeq(s, a, b) \in Seq(Char)
  BY SubSeqProperties
<1>4. i \in 1 .. n + 1 /\ n \in 0 .. n /\ e - 1 \in 0 .. n
  BY <1>1
<1> HIDE DEF e, n
<1> QED
  BY <1>1, <1>2, <1>3, <1>4 DEF WordAt, e, n

\* The loop of split() as a function, which there is.
LEMMA SplitLoop ==
  ASSUME NEW s \in Seq(Char), s # <<>>
  PROVE  \E from : /\ \A i \in 1 .. Len(s) + 1, k \in 1 .. MaxParts :
                        from[<<i, k>>] = FromHere(s, from, i, k)
                   /\ Split(s) = from[<<1, 1>>]
<1> DEFINE n == Len(s)
           S == [1 .. n + 1 -> Seq(Seq(Char))]
           base == [i \in 1 .. n + 1 |-> << SubSeq(s, i, n) >>]
           turn(row) == [i \in 1 .. n + 1 |->
                           IF NextWord(s, i) > n THEN << WordAt(s, i) >>
                           ELSE << WordAt(s, i) >> \o row[NextWord(s, i)]]
           step == [x \in (1 .. MaxParts) \X S |-> turn(x[2])]
           P == (1 .. n + 1) \X (1 .. MaxParts)
           Is(f) == f = [p \in P |-> FromHere(s, f, p[1], p[2])]
<1>1. n \in Nat /\ MaxParts \in Nat /\ MaxParts >= 1
  BY SizeAssumption
<1>2. base \in S
  <2>1. \A i \in 1 .. n + 1 : << SubSeq(s, i, n) >> \in Seq(Seq(Char))
    BY NextWordType
  <2> QED
    BY <2>1
<1>3. \A row \in S : turn(row) \in S
  <2> SUFFICES ASSUME NEW row \in S, NEW i \in 1 .. n + 1
               PROVE  (IF NextWord(s, i) > n THEN << WordAt(s, i) >>
                       ELSE << WordAt(s, i) >> \o row[NextWord(s, i)]) \in Seq(Seq(Char))
    OBVIOUS
  <2>1. NextWord(s, i) \in 1 .. n + 1 /\ << WordAt(s, i) >> \in Seq(Seq(Char))
    BY <1>1, NextWordType
  <2>2. row[NextWord(s, i)] \in Seq(Seq(Char))
    BY <2>1
  <2> QED
    BY <2>1, <2>2
<1>4. step \in [(1 .. MaxParts) \X S -> S]
  <2> HIDE DEF S, turn
  <2> QED
    BY <1>3
<1>5. PICK g \in [0 .. MaxParts -> S] : Recursion(MaxParts, base, step, g)
  <2> HIDE DEF S, base, step
  <2> QED
    BY <1>1, <1>2, <1>4, RecursionExists
<1>6. g[0] = base /\ \A j \in 1 .. MaxParts : g[j] = turn(g[j - 1])
  <2>1. ASSUME NEW j \in 1 .. MaxParts PROVE g[j] = turn(g[j - 1])
    <3>1. j - 1 \in 0 .. MaxParts /\ g[j] = step[<<j, g[j - 1]>>]
      <4> HIDE DEF step, S, base
      <4> QED
        BY <1>1, <1>5 DEF Recursion
    <3>2. <<j, g[j - 1]>> \in (1 .. MaxParts) \X S
      BY <3>1
    <3> HIDE DEF S, turn
    <3> QED
      BY <3>1, <3>2
  <2> QED
    BY <1>5, <2>1 DEF Recursion
<1> DEFINE f == [p \in P |-> g[MaxParts - p[2]][p[1]]]
<1>7. \A i \in 1 .. n + 1, k \in 1 .. MaxParts : f[<<i, k>>] = g[MaxParts - k][i]
  OBVIOUS
<1>8. ASSUME NEW i \in 1 .. n + 1, NEW k \in 1 .. MaxParts
      PROVE  f[<<i, k>>] = FromHere(s, f, i, k)
  <2>1. CASE k = MaxParts
    <3>1. MaxParts - k = 0 /\ base[i] = << SubSeq(s, i, n) >>
      BY <2>1, <1>1
    <3> HIDE DEF f, base
    <3> QED
      BY <2>1, <3>1, <1>6, <1>7 DEF FromHere
  <2>2. CASE k # MaxParts
    <3>1. /\ k + 1 \in 1 .. MaxParts /\ MaxParts - k \in 1 .. MaxParts
          /\ MaxParts - k - 1 = MaxParts - (k + 1)
      BY <2>2, <1>1
    <3>2. g[MaxParts - k] = turn(g[MaxParts - (k + 1)])
      BY <3>1, <1>6
    <3>3. f[<<i, k>>] = IF NextWord(s, i) > n THEN << WordAt(s, i) >>
                    ELSE << WordAt(s, i) >> \o g[MaxParts - (k + 1)][NextWord(s, i)]
      BY <3>2, <1>7
    <3>4. NextWord(s, i) \in 1 .. n + 1
      BY <1>1, NextWordType
    <3>5. f[<<NextWord(s, i), k + 1>>] = g[MaxParts - (k + 1)][NextWord(s, i)]
      BY <3>1, <3>4, <1>7
    <3> HIDE DEF f
    <3> QED
      BY <2>2, <3>3, <3>5 DEF FromHere
  <2> QED
    BY <2>1, <2>2
<1>9. Is(f)
  <2>1. f = [p \in P |-> f[p]]
    OBVIOUS
  <2> HIDE DEF f
  <2>2. \A p \in P : f[p] = FromHere(s, f, p[1], p[2])
    <3>1. \A p \in P : p = <<p[1], p[2]>> /\ p[1] \in 1 .. n + 1 /\ p[2] \in 1 .. MaxParts
      OBVIOUS
    <3> QED
      BY <3>1, <1>8
  <2> QED
    BY <2>1, <2>2
<1>10. Split(s) = (CHOOSE h : Is(h))[<<1, 1>>]
  BY Zenon DEF Split, FromHere, NextWord, WordAt
<1> HIDE DEF f, Is
<1> DEFINE h == CHOOSE u : Is(u)
<1>11. Is(h)
  BY <1>9
<1> HIDE DEF h
<1>12. \A i \in 1 .. n + 1, k \in 1 .. MaxParts : h[<<i, k>>] = FromHere(s, h, i, k)
  <2>1. \A p \in P : h[p] = FromHere(s, h, p[1], p[2])
    BY <1>11, Zenon DEF Is
  <2>2. \A i \in 1 .. n + 1, k \in 1 .. MaxParts :
          <<i, k>> \in P /\ <<i, k>>[1] = i /\ <<i, k>>[2] = k
    OBVIOUS
  <2> HIDE DEF P
  <2> QED
    BY <2>1, <2>2
<1> QED
  BY <1>10, <1>12 DEF h

(***************************************************************************)
(* The words of a line, by where they start.                               *)
(***************************************************************************)

Starts(s) == {i \in 1 .. Len(s) : i = 1 \/ (s[i] # Blank /\ s[i - 1] = Blank)}
Number(s, i) == Cardinality({j \in Starts(s) : j <= i})
EndsOf(s, i) ==
  {e \in i .. Len(s) : s[e] = Blank /\ Number(s, i) < MaxParts} \cup {Len(s) + 1}
StartOf(s, k) == CHOOSE i \in Starts(s) : Number(s, i) = k
WordNo(s, k) == SubSeq(s, StartOf(s, k), Min(EndsOf(s, StartOf(s, k))) - 1)
WordCount(s) == Min({MaxParts, Cardinality(Starts(s))})

LEMMA WordsOfIs ==
  ASSUME NEW s
  PROVE  WordsOf(s) = [k \in 1 .. WordCount(s) |-> WordNo(s, k)]
  BY Zenon DEF WordsOf, Starts, Number, EndsOf, StartOf, WordNo, WordCount

LEMMA MinOfTwo ==
  ASSUME NEW a \in Int, NEW b \in Int
  PROVE  Min({a, b}) = IF a <= b THEN a ELSE b
<1> DEFINE m == IF a <= b THEN a ELSE b
<1>1. m \in {a, b} /\ \A y \in {a, b} : m <= y
  OBVIOUS
<1>2. \A x \in {a, b} : (\A y \in {a, b} : x <= y) => x = m
  OBVIOUS
<1> HIDE DEF m
<1>3. Min({a, b}) = m
  BY <1>1, <1>2 DEF Min
<1> QED
  BY <1>3 DEF m

\* The starts up to one of them are a finite set; there are more up to a later one.
LEMMA NumberFacts ==
  ASSUME NEW s \in Seq(Char)
  PROVE  /\ IsFiniteSet(Starts(s)) /\ Cardinality(Starts(s)) \in Nat
         /\ \A i \in Starts(s) :
              Number(s, i) \in Nat /\ Number(s, i) <= Cardinality(Starts(s))
         /\ \A i, j \in Starts(s) : i < j => Number(s, i) < Number(s, j)
         /\ \A i, j \in Starts(s) : Number(s, i) = Number(s, j) => i = j
<1> DEFINE U(i) == {j \in Starts(s) : j <= i}
<1>1. Len(s) \in Nat /\ Starts(s) \subseteq 1 .. Len(s)
  BY DEF Starts
<1>2. IsFiniteSet(Starts(s))
  <2>1. IsFiniteSet(1 .. Len(s))
    BY <1>1, FS_Interval
  <2> QED
    BY <1>1, <2>1, FS_Subset
<1>3. Cardinality(Starts(s)) \in Nat
  BY <1>2, FS_CardinalityType
<1>4. ASSUME NEW i \in Starts(s)
      PROVE  /\ IsFiniteSet(U(i)) /\ Number(s, i) = Cardinality(U(i))
             /\ Number(s, i) \in Nat /\ Number(s, i) <= Cardinality(Starts(s))
  <2>1. U(i) \in SUBSET Starts(s)
    OBVIOUS
  <2>2. IsFiniteSet(U(i)) /\ Cardinality(U(i)) <= Cardinality(Starts(s))
    BY <1>2, <2>1, FS_Subset
  <2>3. Cardinality(U(i)) \in Nat
    BY <2>2, FS_CardinalityType
  <2> QED
    BY <2>2, <2>3 DEF Number
<1>5. ASSUME NEW i \in Starts(s), NEW j \in Starts(s), i < j
      PROVE  Number(s, i) < Number(s, j)
  <2>1. i \in Int /\ j \in Int /\ \A x \in Starts(s) : x \in Int
    BY <1>1
  <2>2. U(i) \in SUBSET U(j) /\ j \in U(j) /\ j \notin U(i)
    <3>1. /\ \A x \in Starts(s) : x <= i => x <= j
          /\ j <= j /\ ~(j <= i)
      <4>1. \A x, y, z \in Int : y < z => (x <= y => x <= z) /\ z <= z /\ ~(z <= y)
        OBVIOUS
      <4> QED
        BY <1>5, <2>1, <4>1
    <3> QED
      BY <1>5, <3>1
  <2>3. IsFiniteSet(U(j)) /\ Number(s, i) = Cardinality(U(i)) /\ Number(s, j) = Cardinality(U(j))
    BY <1>4
  <2>4. Number(s, i) \in Nat /\ Number(s, j) \in Nat
    BY <1>4
  <2> HIDE DEF U
  <2>5. Cardinality(U(i)) <= Cardinality(U(j)) /\ Cardinality(U(j)) # Cardinality(U(i))
    BY <2>2, <2>3, FS_Subset
  <2> QED
    BY <2>3, <2>4, <2>5
<1>6. ASSUME NEW i \in Starts(s), NEW j \in Starts(s), Number(s, i) = Number(s, j)
      PROVE  i = j
  <2>1. i \in Int /\ j \in Int /\ Number(s, i) \in Nat
    <3>1. \A x \in Starts(s) : x \in Int
      BY <1>1
    <3>2. \A x \in Starts(s) : Number(s, x) \in Nat
      BY <1>4
    <3> QED
      BY <3>1, <3>2
  <2>2. ~(i < j) /\ ~(j < i)
    BY <1>5, <1>6, <2>1
  <2> QED
    BY <2>1, <2>2
<1> QED
  BY <1>2, <1>3, <1>4, <1>5, <1>6

\* Behind the word that starts at i the next start is where the loop goes on.
LEMMA NextStart ==
  ASSUME NEW s \in Seq(Char), NEW i \in Starts(s)
  PROVE  LET next == NextWord(s, i)
         IN  /\ next > Len(s) => \A j \in Starts(s) : j <= i
             /\ next <= Len(s) => /\ next \in Starts(s) /\ i < next
                                  /\ \A j \in Starts(s) : j <= next => j <= i \/ j = next
<1> DEFINE n == Len(s)
           e == WordEnd(s, i)
           next == NextWord(s, i)
<1>1. n \in Nat /\ i \in 1 .. n
  BY DEF Starts
<1>2. e \in i .. n + 1 /\ (e <= n => s[e] = Blank) /\ \A x \in i .. e - 1 : s[x] # Blank
  <2>1. FirstStop(e, i, n, {j \in Nat : s[j] = Blank})
    BY <1>1, WordEndIs
  <2> HIDE DEF e, n
  <2>2. \A x \in i .. e - 1 : x \in Nat
    BY <1>1
  <2> QED
    BY <2>1, <2>2 DEF FirstStop
<1> HIDE DEF e
\* No word starts within the word.
<1>3. ASSUME NEW j \in Starts(s), i < j PROVE e < j
  <2>1. j \in 1 .. n /\ j # 1 /\ s[j - 1] = Blank
    BY <1>1, <1>3 DEF Starts
  <2>2. ~(j - 1 \in i .. e - 1)
    BY <1>2, <2>1
  <2> QED
    BY <1>1, <1>2, <1>3, <2>1, <2>2
<1>4. CASE e > n
  <2>1. next = e
    BY <1>4 DEF NextWord, e
  <2>2. \A j \in Starts(s) : j \in Int /\ j <= n
    BY <1>1 DEF Starts
  <2>3. \A j \in Starts(s) : ~(i < j)
    BY <1>1, <1>2, <1>3, <1>4, <2>2
  <2> HIDE DEF next
  <2>4. \A j \in Starts(s) : j <= i
    BY <1>1, <2>2, <2>3
  <2>5. next > n /\ ~(next <= n)
    BY <1>1, <1>2, <1>4, <2>1
  <2> QED
    BY <2>4, <2>5 DEF next
<1>5. CASE ~(e > n)
  <2>1. next = AfterBlanks(s, e + 1) /\ e + 1 \in 1 .. n + 1 /\ s[e] = Blank
    BY <1>1, <1>2, <1>5 DEF NextWord, e
  <2> HIDE DEF next
  <2>2. /\ next \in e + 1 .. n + 1 /\ (next <= n => s[next] # Blank)
        /\ \A x \in e + 1 .. next - 1 : s[x] = Blank
    <3>1. FirstStop(next, e + 1, n, {j \in Nat : s[j] # Blank})
      BY <2>1, AfterBlanksIs
    <3> HIDE DEF n
    <3>2. \A x \in e + 1 .. next - 1 : x \in Nat
      BY <2>1
    <3> QED
      BY <3>1, <3>2 DEF FirstStop
  \* Nor does one start at a blank.
  <2>3. ASSUME NEW j \in Starts(s), i < j PROVE next <= j
    <3>1. j \in 1 .. n /\ j # 1 /\ s[j] # Blank /\ e < j
      BY <1>1, <1>3, <2>3 DEF Starts
    <3>2. ~(j \in e + 1 .. next - 1)
      BY <2>2, <3>1
    <3> QED
      BY <1>1, <1>2, <2>2, <3>1, <3>2
  <2>4. \A j \in Starts(s) : j \in Int /\ j <= n
    BY <1>1 DEF Starts
  <2>5. next > n => \A j \in Starts(s) : j <= i
    BY <1>1, <2>2, <2>3, <2>4
  <2>6. ASSUME next <= n
        PROVE  /\ next \in Starts(s) /\ i < next
               /\ \A j \in Starts(s) : j <= next => j <= i \/ j = next
    <3>1. next \in 1 .. n /\ s[next] # Blank /\ i < next /\ next - 1 \in e .. next - 1
      BY <1>1, <1>2, <2>2, <2>6
    <3>2. s[next - 1] = Blank
      <4>1. next - 1 = e \/ next - 1 \in e + 1 .. next - 1
        BY <3>1, <1>2, <1>1
      <4> QED
        BY <4>1, <2>1, <2>2
    <3>3. next \in Starts(s)
      BY <3>1, <3>2 DEF Starts
    <3>4. \A j \in Starts(s) : j <= next => j <= i \/ j = next
      BY <1>1, <2>3, <2>4, <3>1
    <3> QED
      BY <3>1, <3>3, <3>4
  <2> QED
    BY <2>5, <2>6 DEF next
<1> QED
  BY <1>4, <1>5

\* So the loop counts the starts.
LEMMA NumberOfNext ==
  ASSUME NEW s \in Seq(Char), NEW i \in Starts(s)
  PROVE  /\ NextWord(s, i) > Len(s) => Cardinality(Starts(s)) = Number(s, i)
         /\ NextWord(s, i) <= Len(s) => Number(s, NextWord(s, i)) = Number(s, i) + 1
<1> DEFINE next == NextWord(s, i)
           U(j) == {x \in Starts(s) : x <= j}
<1>1. Starts(s) \in SUBSET Nat /\ i \in Nat
  BY DEF Starts
<1>2. ASSUME next > Len(s) PROVE Cardinality(Starts(s)) = Number(s, i)
  <2>1. U(i) = Starts(s)
    BY <1>2, NextStart
  <2> QED
    BY <2>1 DEF Number
<1>3. ASSUME next <= Len(s) PROVE Number(s, next) = Number(s, i) + 1
  <2>1. /\ next \in Starts(s) /\ i < next
        /\ \A j \in Starts(s) : j <= next => j <= i \/ j = next
    BY <1>3, NextStart
  <2> HIDE DEF next
  <2>2. U(next) = U(i) \cup {next} /\ next \notin U(i)
    BY <1>1, <2>1
  <2>3. IsFiniteSet(U(i))
    <3>1. IsFiniteSet(Starts(s)) /\ U(i) \in SUBSET Starts(s)
      BY NumberFacts
    <3> HIDE DEF U
    <3> QED
      BY <3>1, FS_Subset
  <2>4. Cardinality(U(next)) = Cardinality(U(i)) + 1
    <3> HIDE DEF U
    <3> QED
      BY <2>2, <2>3, FS_AddElement
  <2> QED
    BY <2>4 DEF Number
<1> QED
  BY <1>2, <1>3

\* Word number k is what the loop cuts off at the k-th start.
LEMMA WordNoIs ==
  ASSUME NEW s \in Seq(Char), NEW i \in Starts(s)
  PROVE  WordNo(s, Number(s, i)) =
           IF Number(s, i) < MaxParts THEN WordAt(s, i) ELSE SubSeq(s, i, Len(s))
<1> DEFINE n == Len(s)
           e == WordEnd(s, i)
           k == Number(s, i)
<1>1. n \in Nat /\ i \in 1 .. n
  BY DEF Starts
<1>2. StartOf(s, k) = i
  BY NumberFacts DEF StartOf
<1>3. WordNo(s, k) = SubSeq(s, i, Min(EndsOf(s, i)) - 1)
  BY <1>2 DEF WordNo
<1>4. CASE k < MaxParts
  <2>1. e \in i .. n + 1 /\ (e <= n => s[e] = Blank) /\ \A x \in i .. e - 1 : s[x] # Blank
    <3>1. FirstStop(e, i, n, {j \in Nat : s[j] = Blank})
      BY <1>1, WordEndIs
    <3> HIDE DEF e, n
    <3>2. \A x \in i .. e - 1 : x \in Nat
      BY <1>1
    <3> QED
      BY <3>1, <3>2 DEF FirstStop
  <2> HIDE DEF e
  <2>2. EndsOf(s, i) = {x \in i .. n : s[x] = Blank} \cup {n + 1}
    BY <1>4 DEF EndsOf
  <2>3. e \in EndsOf(s, i)
    BY <1>1, <2>1, <2>2
  <2>4. \A x \in EndsOf(s, i) : x \in Int /\ e <= x
    <3>1. ASSUME NEW x \in i .. n, s[x] = Blank PROVE e <= x
      <4>1. ~(x \in i .. e - 1)
        BY <2>1, <3>1
      <4> QED
        BY <1>1, <2>1, <3>1, <4>1
    <3> QED
      BY <1>1, <2>1, <2>2, <3>1
  <2>5. Min(EndsOf(s, i)) = e
    <3>1. \A x \in EndsOf(s, i) : (\A y \in EndsOf(s, i) : x <= y) => x = e
      <4>1. e \in Int
        BY <1>1, <2>1
      <4> QED
        BY <2>3, <2>4, <4>1
    <3> QED
      BY <2>3, <2>4, <3>1 DEF Min
  <2> QED
    BY <1>3, <1>4, <2>5 DEF WordAt, e
<1>5. CASE ~(k < MaxParts)
  <2>1. EndsOf(s, i) = {n + 1}
    BY <1>5 DEF EndsOf
  <2>2. Min(EndsOf(s, i)) = n + 1
    <3>1. n + 1 <= n + 1
      BY <1>1
    <3> QED
      BY <2>1, <3>1 DEF Min
  <2>3. Min(EndsOf(s, i)) - 1 = n
    BY <1>1, <2>2
  <2> QED
    BY <1>3, <1>5, <2>3
<1> QED
  BY <1>4, <1>5

\* From the k-th start on the loop adds the words from number k on.
LEMMA LoopAddsWords ==
  ASSUME NEW s \in Seq(Char), NEW from,
         \A i \in 1 .. Len(s) + 1, k \in 1 .. MaxParts :
           from[<<i, k>>] = FromHere(s, from, i, k),
         NEW i0 \in Starts(s), Number(s, i0) \in 1 .. MaxParts
  PROVE  from[<<i0, Number(s, i0)>>] =
           [j \in 1 .. WordCount(s) - Number(s, i0) + 1 |-> WordNo(s, Number(s, i0) + j - 1)]
<1> DEFINE c == Cardinality(Starts(s))
           Words(k) == [j \in 1 .. WordCount(s) - k + 1 |-> WordNo(s, k + j - 1)]
           T == {d \in Nat : \A i \in Starts(s) :
                    Number(s, i) \in 1 .. MaxParts /\ Number(s, i) + d = MaxParts
                      => from[<<i, Number(s, i)>>] = Words(Number(s, i))}
<1>1. /\ c \in Nat /\ MaxParts \in Nat /\ MaxParts >= 1 /\ Len(s) \in Nat
      /\ \A i \in Starts(s) : i \in 1 .. Len(s) + 1 /\ Number(s, i) \in Nat /\ Number(s, i) <= c
  <2>1. c \in Nat /\ \A i \in Starts(s) : Number(s, i) \in Nat /\ Number(s, i) <= c
    BY NumberFacts
  <2>2. Len(s) \in Nat /\ \A i \in Starts(s) : i \in 1 .. Len(s) + 1
    BY DEF Starts
  <2> QED
    BY <2>1, <2>2, SizeAssumption
<1>2. WordCount(s) = IF MaxParts <= c THEN MaxParts ELSE c
  BY <1>1, MinOfTwo DEF WordCount
<1> HIDE DEF c
<1>3. ASSUME NEW i \in Starts(s), Number(s, i) = MaxParts
      PROVE  from[<<i, MaxParts>>] = Words(MaxParts)
  <2>1. from[<<i, MaxParts>>] = << SubSeq(s, i, Len(s)) >>
    <3>1. i \in 1 .. Len(s) + 1 /\ MaxParts \in 1 .. MaxParts
      BY <1>1
    <3>2. from[<<i, MaxParts>>] = FromHere(s, from, i, MaxParts)
      BY <3>1
    <3> QED
      BY <3>2, Zenon DEF FromHere
  <2>2. WordNo(s, MaxParts) = SubSeq(s, i, Len(s))
    BY <1>1, <1>3, WordNoIs
  <2>3. WordCount(s) = MaxParts
    BY <1>1, <1>2, <1>3
  <2>4. /\ 1 .. WordCount(s) - MaxParts + 1 = {1}
        /\ \A j \in {1} : MaxParts + j - 1 = MaxParts
    BY <1>1, <2>3
  <2>5. Words(MaxParts) = [j \in {1} |-> WordNo(s, MaxParts)]
    BY <2>4
  <2>6. \A w : <<w>> = [j \in {1} |-> w]
    <3>1. 1 .. 1 = {1}
      OBVIOUS
    <3> QED
      BY <3>1
  <2> HIDE DEF Words
  <2> QED
    BY <2>1, <2>2, <2>5, <2>6
<1>4. 0 \in T
  <2>1. ASSUME NEW i \in Starts(s), Number(s, i) \in 1 .. MaxParts, Number(s, i) + 0 = MaxParts
        PROVE  from[<<i, Number(s, i)>>] = Words(Number(s, i))
    <3>1. Number(s, i) = MaxParts
      BY <2>1
    <3> HIDE DEF Words
    <3> QED
      BY <3>1, <1>3
  <2> QED
    BY <2>1
<1>5. ASSUME NEW d \in Nat, d \in T PROVE d + 1 \in T
  <2>1. ASSUME NEW i \in Starts(s), NEW k \in 1 .. MaxParts,
               k = Number(s, i), k + (d + 1) = MaxParts
        PROVE  from[<<i, k>>] = Words(k)
    <3> DEFINE next == NextWord(s, i)
    <3>1. k < MaxParts /\ k # MaxParts /\ k + 1 \in 1 .. MaxParts /\ (k + 1) + d = MaxParts
      BY <1>1, <2>1
    <3>2. from[<<i, k>>] = IF next > Len(s) THEN << WordAt(s, i) >>
                           ELSE << WordAt(s, i) >> \o from[<<next, k + 1>>]
      BY <1>1, <3>1 DEF FromHere
    <3>3. WordNo(s, k) = WordAt(s, i)
      BY <2>1, <3>1, WordNoIs
    <3>4. CASE next > Len(s)
      <4>1. c = k
        BY <2>1, <3>4, NumberOfNext DEF c
      <4>2. WordCount(s) = k
        BY <1>1, <1>2, <3>1, <4>1
      <4>3. 1 .. WordCount(s) - k + 1 = {1} /\ \A j \in {1} : k + j - 1 = k
        BY <4>2
      <4>4. Words(k) = [j \in {1} |-> WordNo(s, k)]
        BY <4>3
      <4>5. \A w : <<w>> = [j \in {1} |-> w]
        <5>1. 1 .. 1 = {1}
          OBVIOUS
        <5> QED
          BY <5>1
      <4> HIDE DEF Words
      <4> QED
        BY <3>2, <3>3, <3>4, <4>4, <4>5
    <3>5. CASE ~(next > Len(s))
      <4>1. next \in 1 .. Len(s) + 1 /\ next <= Len(s)
        <5>1. i \in 1 .. Len(s) + 1
          BY <1>1
        <5>2. next \in i .. Len(s) + 1
          BY <5>1, NextWordType
        <5> HIDE DEF next
        <5> QED
          BY <1>1, <3>5, <5>1, <5>2
      <4>2. next \in Starts(s) /\ Number(s, next) = k + 1
        BY <2>1, <4>1, NextStart, NumberOfNext
      <4>3. from[<<next, k + 1>>] = Words(k + 1)
        <5> HIDE DEF Words, next
        <5> QED
          BY <1>5, <3>1, <4>2
      <4>4. from[<<i, k>>] = << WordNo(s, k) >> \o Words(k + 1)
        <5> HIDE DEF Words, next
        <5> QED
          BY <3>2, <3>3, <3>5, <4>3
      <4> DEFINE m == WordCount(s) - k
                 rest == Words(k + 1)
      <4>5. WordCount(s) \in Nat /\ k + 1 <= c /\ m \in Nat /\ m >= 1 /\ WordCount(s) - (k + 1) + 1 = m
        <5>1. k + 1 <= c
          BY <1>1, <4>2
        <5> QED
          BY <1>1, <1>2, <3>1, <5>1
      <4> HIDE DEF m
      <4>6. rest = [j \in 1 .. m |-> WordNo(s, (k + 1) + j - 1)]
        BY <4>5
      <4> DEFINE E == {WordNo(s, j) : j \in 1 .. WordCount(s) + 1}
      <4>7. rest \in Seq(E) /\ Len(rest) = m /\ \A j \in 1 .. m : rest[j] = WordNo(s, k + j)
        <5>1. \A j \in 1 .. m : (k + 1) + j - 1 = k + j /\ k + j \in 1 .. WordCount(s) + 1
          BY <4>5 DEF m
        <5>2. \A j \in 1 .. m : WordNo(s, (k + 1) + j - 1) \in E
          BY <5>1
        <5> HIDE DEF rest, E
        <5> QED
          BY <4>5, <4>6, <5>1, <5>2
      <4>8. <<WordNo(s, k)>> \in Seq(E)
        <5>1. k \in 1 .. WordCount(s) + 1
          BY <4>5, <2>1 DEF m
        <5> QED
          BY <5>1
      <4> DEFINE w == WordNo(s, k)
                 t == <<w>> \o rest
      <4>9. \A q \in Seq(E), u \in E :
              /\ <<u>> \o q \in [1 .. Len(q) + 1 -> E]
              /\ (<<u>> \o q)[1] = u
              /\ \A j \in 1 .. Len(q) : (<<u>> \o q)[j + 1] = q[j]
        <5> HIDE DEF E
        <5> SUFFICES ASSUME NEW q \in Seq(E), NEW u \in E
                     PROVE  /\ <<u>> \o q \in [1 .. Len(q) + 1 -> E]
                            /\ (<<u>> \o q)[1] = u
                            /\ \A j \in 1 .. Len(q) : (<<u>> \o q)[j + 1] = q[j]
          OBVIOUS
        <5>1. <<u>> \in Seq(E) /\ Len(<<u>>) = 1 /\ <<u>>[1] = u /\ Len(q) \in Nat
          OBVIOUS
        <5>2. <<u>> \o q \in Seq(E) /\ Len(<<u>> \o q) = 1 + Len(q)
          BY <5>1, ConcatProperties
        <5>3. \A j \in 1 .. 1 + Len(q) :
                (<<u>> \o q)[j] = IF j <= 1 THEN <<u>>[j] ELSE q[j - 1]
          BY <5>1, ConcatProperties
        <5>4. \A j \in 1 .. Len(q) :
                /\ j + 1 \in 1 .. 1 + Len(q) /\ ~(j + 1 <= 1) /\ (j + 1) - 1 = j
          BY <5>1
        <5>5. 1 \in 1 .. 1 + Len(q) /\ 1 <= 1
          BY <5>1
        <5>6. <<u>> \o q \in [1 .. Len(q) + 1 -> E]
          <6>1. \A v \in Seq(E) : v \in [1 .. Len(v) -> E]
            OBVIOUS
          <6>2. 1 + Len(q) = Len(q) + 1
            BY <5>1
          <6> QED
            BY <5>2, <6>1, <6>2
        <5>7. (<<u>> \o q)[1] = u
          BY <5>1, <5>3, <5>5
        <5>8. ASSUME NEW j \in 1 .. Len(q) PROVE (<<u>> \o q)[j + 1] = q[j]
          BY <5>3, <5>4
        <5> QED
          BY <5>6, <5>7, <5>8
      <4>10. w \in E
        <5>1. k \in 1 .. WordCount(s) + 1
          BY <4>5, <2>1 DEF m
        <5> QED
          BY <5>1
      <4> HIDE DEF E, rest
      <4>11. /\ t \in [1 .. m + 1 -> E] /\ t[1] = WordNo(s, k)
             /\ \A j \in 1 .. m : t[j + 1] = WordNo(s, k + j)
        BY <4>7, <4>9, <4>10
      <4> HIDE DEF t
      <4>12. ASSUME NEW j \in 1 .. m + 1 PROVE t[j] = WordNo(s, k + j - 1)
        <5>1. CASE j = 1
          <6>1. k + j - 1 = k
            BY <5>1
          <6> QED
            BY <4>11, <5>1, <6>1
        <5>2. CASE j # 1
          <6>1. j - 1 \in 1 .. m /\ (j - 1) + 1 = j /\ k + (j - 1) = k + j - 1
            BY <4>5, <5>2
          <6>2. t[(j - 1) + 1] = WordNo(s, k + (j - 1))
            BY <4>11, <6>1
          <6> QED
            BY <6>1, <6>2
        <5> QED
          BY <5>1, <5>2
      <4>13. Words(k) = [j \in 1 .. m + 1 |-> WordNo(s, k + j - 1)]
        <5>1. WordCount(s) - k + 1 = m + 1
          BY DEF m
        <5> QED
          BY <5>1
      <4> HIDE DEF Words
      <4> QED
        BY <4>4, <4>11, <4>12, <4>13 DEF t, w, rest
    <3> QED
      BY <3>4, <3>5
  <2> HIDE DEF Words
  <2>2. ASSUME NEW i \in Starts(s), Number(s, i) \in 1 .. MaxParts,
               Number(s, i) + (d + 1) = MaxParts
        PROVE  from[<<i, Number(s, i)>>] = Words(Number(s, i))
    BY <2>1, <2>2
  <2> QED
    BY <2>2
<1> DEFINE k0 == Number(s, i0)
<1>6. MaxParts - k0 \in Nat /\ k0 + (MaxParts - k0) = MaxParts
  BY <1>1
<1>7. MaxParts - k0 \in T
  <2> HIDE DEF T, k0
  <2> QED
    BY <1>4, <1>5, <1>6, NaturalInduction
<1>8. from[<<i0, k0>>] = Words(k0)
  <2> HIDE DEF Words
  <2> QED
    BY <1>6, <1>7
<1> QED
  BY <1>8

\* split() finds the words of a line, whatever the line.
LEMMA SplitFindsWords ==
  ASSUME NEW s \in Seq(Char)
  PROVE  Split(s) = WordsOf(s)
<1>1. CASE s = <<>>
  <2>1. Starts(s) = {}
    BY <1>1 DEF Starts
  <2>2. WordCount(s) = 0
    BY <2>1, FS_EmptySet, MinOfTwo, SizeAssumption DEF WordCount
  <2>3. WordsOf(s) = [k \in 1 .. 0 |-> WordNo(s, k)]
    BY <2>2, WordsOfIs
  <2>4. WordsOf(s) = <<>>
    BY <2>3
  <2>5. Split(s) = <<>>
    BY <1>1, Zenon DEF Split
  <2> QED
    BY <2>4, <2>5
<1>2. CASE s # <<>>
  <2>1. PICK from : /\ \A i \in 1 .. Len(s) + 1, k \in 1 .. MaxParts :
                         from[<<i, k>>] = FromHere(s, from, i, k)
                    /\ Split(s) = from[<<1, 1>>]
    BY <1>2, SplitLoop
  <2>2. Len(s) \in Nat /\ Len(s) >= 1
    BY <1>2
  <2>3. 1 \in Starts(s) /\ \A j \in Starts(s) : j <= 1 <=> j = 1
    BY <2>2 DEF Starts
  <2>4. Number(s, 1) = 1
    <3>1. {j \in Starts(s) : j <= 1} = {1}
      BY <2>3
    <3> QED
      BY <3>1, FS_Singleton DEF Number
  <2>5. 1 \in 1 .. MaxParts
    BY SizeAssumption
  <2>6. from[<<1, 1>>] = [j \in 1 .. WordCount(s) - 1 + 1 |-> WordNo(s, 1 + j - 1)]
    BY <2>1, <2>3, <2>4, <2>5, LoopAddsWords
  <2>7. WordCount(s) \in Nat
    <3>1. Cardinality(Starts(s)) \in Nat
      BY NumberFacts
    <3> QED
      BY <3>1, MinOfTwo, SizeAssumption DEF WordCount
  <2>8. /\ WordCount(s) - 1 + 1 = WordCount(s)
        /\ \A j \in 1 .. WordCount(s) : 1 + j - 1 = j
    BY <2>7
  <2>9. from[<<1, 1>>] = [j \in 1 .. WordCount(s) |-> WordNo(s, j)]
    BY <2>6, <2>8
  <2> QED
    BY <2>1, <2>9, WordsOfIs
<1> QED
  BY <1>1, <1>2

\* Every line that is typed is split into its words: split(), which walks the line
\* once, finds exactly the words that start at the beginning or behind a blank, in
\* a line of any length with any runs of blanks, for any number of parts.
THEOREM EditorSplits == Spec => []SplitsIntoWords
<1>1. IInv => SplitsIntoWords
  BY TextIs, SplitFindsWords DEF SplitsIntoWords
<1> QED
  BY Invariance, <1>1, PTL

=============================================================================
