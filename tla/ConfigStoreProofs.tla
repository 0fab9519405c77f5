-------------------------- MODULE ConfigStoreProofs --------------------------
(***************************************************************************)
(* Proofs about ConfigStore, for any size of store, page and fill, any     *)
(* keys and values and any checksum.                                       *)
(***************************************************************************)
EXTENDS ConfigStore, SequenceTheorems, WellFoundedInduction, TLAPS

(***************************************************************************)
(* Induction and recursion over the natural numbers, for sets and          *)
(* functions.                                                              *)
(***************************************************************************)

\* A non-empty set of natural numbers has a least element.
LEMMA LeastExists ==
  ASSUME NEW S \in SUBSET Nat, S # {}
  PROVE  \E m \in S : \A n \in S : m <= n
<1> DEFINE R == OpToRel(<, Nat)
<1>1. IsWellFoundedOn(R, Nat)
  BY NatLessThanWellFounded, Zenon
<1>2. \A p, q \in Nat : p < q => <<p, q>> \in R
  BY DEF OpToRel
<1>3. PICK m \in S : \A n \in S : ~(<<n, m>> \in R)
  <2> HIDE DEF R
  <2> QED
    BY <1>1, WFMin
<1>4. ASSUME NEW n \in S PROVE m <= n
  <2>1. m \in Nat /\ n \in Nat /\ (n < m => <<n, m>> \in R)
    BY <1>2
  <2> HIDE DEF R
  <2> QED
    BY <1>3, <2>1
<1> QED
  BY <1>4

\* A set that has 0, and the successor of every number it has, has them all.
LEMMA NaturalInduction ==
  ASSUME NEW T, 0 \in T, \A n \in Nat : n \in T => n + 1 \in T
  PROVE  Nat \subseteq T
<1> SUFFICES ASSUME Nat \ T # {} PROVE FALSE
  OBVIOUS
<1>1. PICK n \in Nat \ T : \A m \in Nat \ T : n <= m
  BY LeastExists
<1>2. n # 0 /\ n - 1 \in Nat /\ n - 1 + 1 = n /\ ~(n <= n - 1)
  OBVIOUS
<1>3. n - 1 \in T
  BY <1>1, <1>2
<1> QED
  BY <1>2, <1>3

\* f is the function on 0 .. n that starts at c and goes on by step.
Recursion(n, c, step, f) == f[0] = c /\ \A i \in 1 .. n : f[i] = step[<<i, f[i - 1]>>]

\* There is such a function, whatever c and step are: the functions that are right
\* up to m exist for every m.
LEMMA RecursionExists ==
  ASSUME NEW n \in Nat, NEW S, NEW c \in S, NEW step \in [(1 .. n) \X S -> S]
  PROVE  \E f \in [0 .. n -> S] : Recursion(n, c, step, f)
<1> DEFINE Is(m, f) == f[0] = c /\ \A i \in 1 .. m : f[i] = step[<<i, f[i - 1]>>]
           T == {m \in Nat : m <= n => \E f \in [0 .. n -> S] : Is(m, f)}
<1>1. 0 \in T
  <2> DEFINE f0 == [i \in 0 .. n |-> c]
  <2>1. f0 \in [0 .. n -> S] /\ f0[0] = c /\ 1 .. 0 = {}
    OBVIOUS
  <2> QED
    BY <2>1
<1>2. ASSUME NEW m \in Nat, m \in T PROVE m + 1 \in T
  <2>1. CASE m + 1 <= n
    <3>1. PICK f \in [0 .. n -> S] : Is(m, f)
      BY <1>2, <2>1
    <3> DEFINE v == step[<<m + 1, f[m]>>]
               g == [f EXCEPT ![m + 1] = v]
    <3>2. m \in 0 .. n /\ m + 1 \in 1 .. n /\ m + 1 \in 0 .. n /\ f[m] \in S /\ v \in S
      BY <2>1
    <3>3. g \in [0 .. n -> S] /\ g[m + 1] = v /\ \A i \in 0 .. m : g[i] = f[i]
      <4> HIDE DEF v
      <4> QED
        BY <3>2
    <3>4. Is(m + 1, g)
      <4>1. ASSUME NEW i \in 1 .. m + 1 PROVE g[i] = step[<<i, g[i - 1]>>]
        <5> HIDE DEF g
        <5>1. CASE i = m + 1
          BY <5>1, <3>3
        <5>2. CASE i \in 1 .. m
          <6>1. i \in 0 .. m /\ i - 1 \in 0 .. m
            BY <5>2
          <6> QED
            BY <6>1, <5>2, <3>1, <3>3
        <5> QED
          BY <5>1, <5>2
      <4>2. g[0] = c
        BY <3>1, <3>3
      <4> QED
        BY <4>1, <4>2
    <3> HIDE DEF g, Is
    <3> QED
      BY <3>3, <3>4
  <2> QED
    BY <2>1
<1> HIDE DEF T
<1>3. n \in T
  BY <1>1, <1>2, NaturalInduction
<1>4. PICK f \in [0 .. n -> S] : Is(n, f)
  BY <1>3 DEF T
<1> QED
  BY <1>4 DEF Recursion

(***************************************************************************)
(* Pages.                                                                  *)
(***************************************************************************)

LEMMA PageOf ==
  ASSUME NEW a \in Nat
  PROVE  LET q == a \div PageSize
         IN  q \in Nat /\ q * PageSize <= a /\ a < (q + 1) * PageSize
  BY SizeAssumption

LEMMA NextPage ==
  ASSUME NEW p \in Int, NEW q \in Int, p < q
  PROVE  /\ p * PageSize \in Int /\ q * PageSize \in Int /\ (p + 1) * PageSize \in Int
         /\ (p + 1) * PageSize = p * PageSize + PageSize
         /\ (p + 1) * PageSize <= q * PageSize
  BY SizeAssumption

\* The pages that are to be programmed write what is missing, behind the first t
\* cells, of the cells rec at address a.
ToDo(pages, a, rec, t) ==
  /\ pages \in Seq(Page) /\ t \in 0 .. Len(rec)
  /\ \A i \in DOMAIN pages :
       LET x == pages[i].addr - a
           l == Len(pages[i].cells)
       IN  /\ x \in 0 .. Len(rec) /\ l \in 1 .. Len(rec) - x
           /\ \A j \in 1 .. l : pages[i].cells[j] = rec[x + j]
           /\ i = 1 => x = t
           /\ i < Len(pages) => pages[i + 1].addr = pages[i].addr + l
           /\ i = Len(pages) => x + l = Len(rec)
  /\ pages = <<>> => t = Len(rec)

\* eeprom_write() of some cells programs them all, in order.
LEMMA PagesToDo ==
  ASSUME NEW a \in Nat, NEW c \in Seq(Cells), Len(c) >= 1, a + Len(c) <= End,
         NEW header \in BOOLEAN
  PROVE  /\ ToDo(Pages(a, c, header), a, c, 0)
         /\ Pages(a, c, header) # <<>>
         /\ \A i \in DOMAIN Pages(a, c, header) :
              /\ header /\ Pages(a, c, header)[i].addr # a => Pages(a, c, header)[i].cut
              /\ Pages(a, c, header)[i].addr >= a
<1> DEFINE L == Len(c)
           first == a \div PageSize
           last  == (a + L - 1) \div PageSize
           n == last - first + 1
           from(p) == IF p * PageSize > a THEN p * PageSize ELSE a
           to(p) == IF (p + 1) * PageSize < a + L THEN (p + 1) * PageSize ELSE a + L
           page(i) == [addr |-> from(first + i - 1),
                       cells |-> SubSeq(c, from(first + i - 1) - a + 1, to(first + i - 1) - a),
                       cut |-> header /\ i > 1]
<1>1. L \in Nat /\ a + L - 1 \in Nat
  OBVIOUS
<1>2. /\ first \in Nat /\ first * PageSize <= a /\ a < (first + 1) * PageSize
      /\ last \in Nat /\ last * PageSize <= a + L - 1 /\ a + L - 1 < (last + 1) * PageSize
  <2>1. \A x \in Nat : LET q == x \div PageSize
                       IN  q \in Nat /\ q * PageSize <= x /\ x < (q + 1) * PageSize
    BY PageOf
  <2> QED
    BY <1>1, <2>1
<1> HIDE DEF first, last
<1>3. first <= last
  <2> SUFFICES ASSUME last < first PROVE FALSE
    BY <1>2
  <2>1. (last + 1) * PageSize <= first * PageSize
    BY <1>2, NextPage
  <2> QED
    BY <1>1, <1>2, <2>1, NextPage
<1>4. ASSUME NEW i \in 1 .. n, NEW p, p = first + i - 1
      PROVE  /\ p \in Nat /\ p * PageSize \in Int /\ (p + 1) * PageSize \in Int
             /\ i = 1 => from(p) = a
             /\ i > 1 => from(p) = p * PageSize /\ p * PageSize > a
             /\ i < n => to(p) = (p + 1) * PageSize
             /\ i = n => to(p) = a + L
             /\ a <= from(p) /\ from(p) < to(p) /\ to(p) <= a + L
  <2>1. p \in Nat /\ n \in Nat /\ p <= last /\ first <= p
    BY <1>2, <1>3, <1>4
  <2>2. /\ p * PageSize \in Int /\ (p + 1) * PageSize \in Int
        /\ (p + 1) * PageSize = p * PageSize + PageSize
    BY <2>1, NextPage
  <2>3. i = 1 => p = first
    BY <1>2, <1>4
  <2>4. i > 1 => p * PageSize > a
    <3>1. ASSUME i > 1 PROVE (first + 1) * PageSize <= p * PageSize
      <4>1. first < p
        BY <1>2, <1>4, <3>1
      <4> QED
        BY <1>2, <2>1, <4>1, NextPage
    <3>2. (first + 1) * PageSize \in Int
      BY <1>2, <1>3, NextPage
    <3> QED
      BY <1>2, <2>2, <3>1, <3>2
  <2>5. i < n => (p + 1) * PageSize < a + L
    <3>1. ASSUME i < n PROVE (p + 1) * PageSize <= last * PageSize
      <4>1. p < last
        BY <1>2, <1>4, <2>1, <3>1
      <4>2. p \in Int /\ last \in Int
        BY <1>2, <2>1
      <4> HIDE DEF from, to, page, n
      <4> QED
        BY <4>1, <4>2, NextPage
    <3>2. last * PageSize \in Int
      BY <1>2, NextPage
    <3> QED
      BY <1>1, <1>2, <2>2, <3>1, <3>2
  <2>6. i = n => p = last
    BY <1>2, <1>4
  <2>7. p * PageSize <= last * PageSize /\ last * PageSize \in Int
    <3>1. CASE p = last
      BY <1>2, <3>1, NextPage
    <3>2. CASE p < last
      BY <1>2, <2>1, <2>2, <3>2, NextPage, SizeAssumption
    <3> QED
      BY <1>2, <2>1, <3>1, <3>2
  <2>8. (last + 1) * PageSize \in Int
    BY <1>2, NextPage
  <2>9. /\ i = 1 => from(p) = a
        /\ i > 1 => from(p) = p * PageSize
        /\ i < n => to(p) = (p + 1) * PageSize
        /\ i = n => to(p) = a + L
    BY <1>1, <1>2, <2>1, <2>2, <2>3, <2>4, <2>5, <2>6, <2>8
  <2>10. a <= from(p) /\ from(p) < to(p) /\ to(p) <= a + L
    <3>1. a < (p + 1) * PageSize
      <4>1. CASE i = 1
        BY <1>2, <2>3, <4>1
      <4>2. CASE i > 1
        BY <2>2, <2>4, <4>2, SizeAssumption
      <4> QED
        BY <4>1, <4>2
    <3>2. p * PageSize < a + L
      BY <1>1, <1>2, <2>2, <2>7
    <3> QED
      BY <1>1, <2>2, <3>1, <3>2, SizeAssumption
  <2> QED
    BY <2>1, <2>2, <2>4, <2>9, <2>10

<1> DEFINE pages == Pages(a, c, header)
           f(i) == from(first + i - 1)
           t(i) == to(first + i - 1)
<1>5. n \in Nat /\ n >= 1
  BY <1>2, <1>3
<1>6. pages = [i \in 1 .. n |-> page(i)]
  BY DEF Pages, first, last
<1>7. ASSUME NEW i \in 1 .. n
      PROVE  /\ f(i) \in Nat /\ t(i) \in Nat
             /\ i = 1 => f(i) = a
             /\ i > 1 => f(i) > a
             /\ i < n => t(i) = f(i + 1)
             /\ i = n => t(i) = a + L
             /\ a <= f(i) /\ f(i) < t(i) /\ t(i) <= a + L
  <2> DEFINE p == first + i - 1
  <2>1. p \in Nat /\ i \in Nat /\ p + 1 = first + (i + 1) - 1
    BY <1>2
  <2>2. /\ p * PageSize \in Int /\ (p + 1) * PageSize \in Int
        /\ i = 1 => from(p) = a
        /\ i > 1 => from(p) = p * PageSize /\ p * PageSize > a
        /\ i < n => to(p) = (p + 1) * PageSize
        /\ i = n => to(p) = a + L
        /\ a <= from(p) /\ from(p) < to(p) /\ to(p) <= a + L
    BY <1>4
  <2>3. ASSUME i < n PROVE from(p + 1) = (p + 1) * PageSize
    <3>1. i + 1 \in 1 .. n /\ i + 1 > 1
      BY <1>5, <2>1, <2>3
    <3> HIDE DEF from, to
    <3> QED
      BY <1>4, <2>1, <3>1
  <2>4. from(p) \in Int /\ to(p) \in Int
    BY <1>1, <2>2
  <2> HIDE DEF from, to
  <2> QED
    BY <1>1, <2>1, <2>2, <2>3, <2>4
<1> HIDE DEF from, to
<1>8. ASSUME NEW i \in 1 .. n
      PROVE  /\ page(i) \in Page /\ page(i).addr = f(i) /\ Len(page(i).cells) = t(i) - f(i)
             /\ \A j \in 1 .. t(i) - f(i) : page(i).cells[j] = c[f(i) - a + j]
             /\ page(i).cut = (header /\ i > 1)
  <2> DEFINE k == SubSeq(c, f(i) - a + 1, t(i) - a)
  <2>1. f(i) - a + 1 \in 1 .. L + 1 /\ t(i) - a \in 0 .. L
        /\ t(i) - a - (f(i) - a + 1) + 1 = t(i) - f(i)
    BY <1>1, <1>7
  <2>2. k \in Seq(Cells) /\ Len(k) = t(i) - f(i)
        /\ \A j \in 1 .. t(i) - f(i) : k[j] = c[f(i) - a + j]
    <3> HIDE DEF f, t
    <3>1. /\ k \in Seq(Cells)
          /\ Len(k) = IF f(i) - a + 1 <= t(i) - a THEN t(i) - a - (f(i) - a + 1) + 1 ELSE 0
          /\ \A j \in 1 .. t(i) - a - (f(i) - a + 1) + 1 : k[j] = c[f(i) - a + 1 + j - 1]
      BY <2>1, SubSeqProperties
    <3>2. f(i) \in Nat /\ t(i) \in Nat /\ f(i) < t(i)
      BY <1>7
    <3>3. f(i) - a + 1 <= t(i) - a
      BY <3>2
    <3>4. \A j \in 1 .. t(i) - f(i) : f(i) - a + 1 + j - 1 = f(i) - a + j
      BY <3>2
    <3> HIDE DEF k
    <3> QED
      BY <2>1, <3>1, <3>3, <3>4
  <2>3. f(i) \in Addr
    BY <1>1, <1>7, SizeAssumption DEF Addr
  <2>4. ASSUME NEW x \in Addr, NEW y \in Seq(Cells), NEW b \in BOOLEAN
        PROVE  LET e == [addr |-> x, cells |-> y, cut |-> b]
               IN  e \in Page /\ e.addr = x /\ e.cells = y /\ e.cut = b
    BY Zenon DEF Page
  <2>5. page(i) \in Page /\ page(i).addr = f(i) /\ page(i).cells = k
        /\ page(i).cut = (header /\ i > 1)
    BY <2>2, <2>3, <2>4
  <2> HIDE DEF k, page
  <2> QED
    BY <2>2, <2>5

<1> HIDE DEF f, t, page
<1>9. pages \in Seq(Page) /\ Len(pages) = n /\ DOMAIN pages = 1 .. n
      /\ \A i \in 1 .. n : pages[i] = page(i)
  <2>1. pages \in [1 .. n -> Page] /\ \A i \in 1 .. n : pages[i] = page(i)
    <3> HIDE DEF pages
    <3> QED
      BY <1>6, <1>8
  <2> HIDE DEF pages
  <2> QED
    BY <1>5, <2>1
<1> HIDE DEF pages, n
<1>10. ASSUME NEW i \in DOMAIN pages
       PROVE  LET x == pages[i].addr - a
                  l == Len(pages[i].cells)
              IN  /\ x \in 0 .. L /\ l \in 1 .. L - x
                  /\ \A j \in 1 .. l : pages[i].cells[j] = c[x + j]
                  /\ i = 1 => x = 0
                  /\ i < Len(pages) => pages[i + 1].addr = pages[i].addr + l
                  /\ i = Len(pages) => x + l = L
  <2>1. i \in 1 .. n /\ (i < n => i + 1 \in 1 .. n)
    BY <1>5, <1>9
  <2>2. /\ pages[i].addr = f(i) /\ Len(pages[i].cells) = t(i) - f(i)
        /\ \A j \in 1 .. t(i) - f(i) : pages[i].cells[j] = c[f(i) - a + j]
        /\ i < n => pages[i + 1].addr = f(i + 1)
    BY <1>8, <1>9, <2>1
  <2>3. /\ f(i) \in Nat /\ t(i) \in Nat
        /\ i = 1 => f(i) = a
        /\ i < n => t(i) = f(i + 1)
        /\ i = n => t(i) = a + L
        /\ a <= f(i) /\ f(i) < t(i) /\ t(i) <= a + L
    BY <1>7, <2>1
  <2>4. f(i) - a \in 0 .. L /\ t(i) - f(i) \in 1 .. L - (f(i) - a)
        /\ (i = 1 => f(i) - a = 0)
        /\ (i < n => f(i + 1) = f(i) + (t(i) - f(i)))
        /\ (i = n => f(i) - a + (t(i) - f(i)) = L)
    BY <1>1, <2>3
  <2> QED
    BY <1>9, <2>2, <2>4
<1>11. ToDo(pages, a, c, 0)
  BY <1>1, <1>5, <1>9, <1>10 DEF ToDo
<1>12. ASSUME NEW i \in DOMAIN pages
       PROVE  (header /\ pages[i].addr # a => pages[i].cut) /\ pages[i].addr >= a
  <2>1. i \in 1 .. n /\ pages[i].addr = f(i) /\ pages[i].cut = (header /\ i > 1)
    BY <1>8, <1>9
  <2> QED
    BY <1>5, <1>7, <2>1
<1> QED
  BY <1>5, <1>9, <1>11, <1>12 DEF pages

LEMMA PageFields ==
  ASSUME NEW p \in Page
  PROVE  p.addr \in Nat /\ p.addr \in Addr /\ p.cells \in Seq(Cells) /\ p.cut \in BOOLEAN
<1>1. p.addr \in Addr /\ p.cells \in Seq(Cells) /\ p.cut \in BOOLEAN
  BY DEF Page
<1> QED
  BY <1>1, SizeAssumption DEF Addr

\* Two calls of eeprom_write(), the second for where the first ends.
LEMMA ToDoConcat ==
  ASSUME NEW a \in Nat, NEW r \in Seq(Cells), NEW s \in Seq(Cells), NEW p, NEW q,
         ToDo(p, a, r, 0), ToDo(q, a + Len(r), s, 0), p # <<>>, q # <<>>
  PROVE  ToDo(p \o q, a, r \o s, 0) /\ p \o q # <<>>
<1> DEFINE m == Len(p)
           n == Len(q)
           pq == p \o q
           rs == r \o s
<1>1. /\ p \in Seq(Page) /\ q \in Seq(Page) /\ m \in Nat /\ n \in Nat /\ m >= 1 /\ n >= 1
      /\ DOMAIN p = 1 .. m /\ DOMAIN q = 1 .. n
  BY DEF ToDo
<1>2. /\ pq \in Seq(Page) /\ Len(pq) = m + n /\ DOMAIN pq = 1 .. m + n
      /\ \A i \in 1 .. m : pq[i] = p[i]
      /\ \A i \in 1 .. n : pq[m + i] = q[i]
  BY <1>1
<1>3. /\ Len(r) \in Nat /\ Len(s) \in Nat /\ Len(rs) = Len(r) + Len(s)
      /\ \A j \in 1 .. Len(r) : rs[j] = r[j]
      /\ \A j \in 1 .. Len(s) : rs[Len(r) + j] = s[j]
  OBVIOUS
<1> DEFINE Good(i) ==
      LET x == pq[i].addr - a
          l == Len(pq[i].cells)
      IN  /\ x \in 0 .. Len(rs) /\ l \in 1 .. Len(rs) - x
          /\ \A j \in 1 .. l : pq[i].cells[j] = rs[x + j]
          /\ i = 1 => x = 0
          /\ i < Len(pq) => pq[i + 1].addr = pq[i].addr + l
          /\ i = Len(pq) => x + l = Len(rs)
<1> HIDE DEF m, n, pq, rs
<1>4. ASSUME NEW i \in 1 .. m PROVE Good(i)
  <2> DEFINE x == p[i].addr - a
             l == Len(p[i].cells)
  <2>1. /\ x \in 0 .. Len(r) /\ l \in 1 .. Len(r) - x
        /\ \A j \in 1 .. l : p[i].cells[j] = r[x + j]
        /\ i = 1 => x = 0
        /\ i < m => p[i + 1].addr = p[i].addr + l
        /\ i = m => x + l = Len(r)
    BY <1>1 DEF ToDo, m
  <2>2. pq[i] = p[i] /\ p[i].addr \in Nat /\ p[i].addr = a + x
    BY <1>1, <1>2, PageFields
  <2>3. i < m => pq[i + 1] = p[i + 1]
    BY <1>1, <1>2
  <2>4. i = m => pq[i + 1] = q[1] /\ q[1].addr = a + Len(r)
    <3>1. 1 \in 1 .. n
      BY <1>1
    <3>2. q[1].addr - (a + Len(r)) = 0 /\ q[1].addr \in Nat
      BY <1>1, <3>1, PageFields DEF ToDo
    <3>3. \A u \in Nat, v \in Nat : u - v = 0 => u = v
      OBVIOUS
    <3>4. a + Len(r) \in Nat
      BY <1>3
    <3>5. q[1].addr = a + Len(r)
      BY <3>2, <3>3, <3>4
    <3> QED
      BY <1>2, <3>1, <3>5
  <2> HIDE DEF x, l
  <2>5. \A j \in 1 .. l : x + j \in 1 .. Len(r)
    BY <1>3, <2>1
  <2>6. \A j \in 1 .. l : p[i].cells[j] = rs[x + j]
    BY <1>3, <2>1, <2>5
  <2>7. x \in 0 .. Len(rs) /\ l \in 1 .. Len(rs) - x /\ i # Len(pq)
        /\ (i < Len(pq) => pq[i + 1].addr = p[i].addr + l)
    <3>1. l \in Nat /\ x \in Nat /\ x + l <= Len(r)
      BY <1>3, <2>1
    <3>2. i < m \/ i = m
      BY <1>1
    <3>3. ASSUME i = m PROVE p[i].addr + l = a + Len(r)
      <4>1. p[i].addr = a + x /\ x + l = Len(r)
        BY <2>1, <2>2, <3>3
      <4> QED
        BY <3>1, <4>1
    <3> QED
      BY <1>1, <1>2, <1>3, <2>1, <2>3, <2>4, <3>1, <3>2, <3>3
  <2> QED
    BY <2>1, <2>2, <2>6, <2>7 DEF x, l
<1>5. ASSUME NEW k \in 1 .. n PROVE Good(m + k)
  <2> DEFINE b == a + Len(r)
             x == q[k].addr - b
             l == Len(q[k].cells)
  <2>1. /\ x \in 0 .. Len(s) /\ l \in 1 .. Len(s) - x
        /\ \A j \in 1 .. l : q[k].cells[j] = s[x + j]
        /\ k < n => q[k + 1].addr = q[k].addr + l
        /\ k = n => x + l = Len(s)
    BY <1>1 DEF ToDo, n
  <2>2. pq[m + k] = q[k] /\ q[k].addr \in Nat /\ q[k].addr - a = Len(r) + x
    BY <1>1, <1>2, <1>3, PageFields
  <2>3. k < n => pq[m + k + 1] = q[k + 1]
    BY <1>1, <1>2
  <2>4. \A j \in 1 .. l : x + j \in 1 .. Len(s) /\ Len(r) + x + j = Len(r) + (x + j)
    <3>1. Len(r) \in Nat /\ Len(s) \in Nat
      BY <1>3
    <3>2. x \in 0 .. Len(s) /\ l \in 1 .. Len(s) - x
      BY <2>1
    <3> HIDE DEF x, l
    <3> QED
      BY <3>1, <3>2
  <2>5. \A j \in 1 .. l : q[k].cells[j] = rs[Len(r) + x + j]
    <3> HIDE DEF x, l
    <3> QED
      BY <1>3, <2>1, <2>4
  <2>6. /\ Len(r) + x \in 0 .. Len(rs) /\ l \in 1 .. Len(rs) - (Len(r) + x) /\ m + k # 1
        /\ m + k = Len(pq) => Len(r) + x + l = Len(rs)
        /\ m + k < Len(pq) => pq[m + k + 1].addr = q[k].addr + l
    <3>1. m + k = Len(pq) => k = n
      BY <1>1, <1>2
    <3>2. m + k < Len(pq) => k < n
      BY <1>1, <1>2
    <3>3. /\ Len(r) + x \in 0 .. Len(rs) /\ l \in 1 .. Len(rs) - (Len(r) + x) /\ m + k # 1
          /\ k = n => Len(r) + x + l = Len(rs)
      <4>1. \A u, v, w, y \in Nat :
               y \in 0 .. v /\ w \in 1 .. v - y
                 => /\ u + y \in 0 .. u + v /\ w \in 1 .. u + v - (u + y)
                    /\ y + w = v => u + y + w = u + v
        OBVIOUS
      <4> HIDE DEF x, l
      <4>2. x \in Nat /\ l \in Nat /\ m + k # 1
        BY <1>1, <1>3, <2>1
      <4>3. /\ Len(r) + x \in 0 .. Len(r) + Len(s) /\ l \in 1 .. Len(r) + Len(s) - (Len(r) + x)
            /\ x + l = Len(s) => Len(r) + x + l = Len(r) + Len(s)
        <5>1. x \in 0 .. Len(s) /\ l \in 1 .. Len(s) - x
          BY <2>1
        <5>2. Len(r) \in Nat /\ Len(s) \in Nat
          BY <1>3
        <5> QED
          BY <4>1, <4>2, <5>1, <5>2
      <4> QED
        BY <1>3, <2>1, <4>2, <4>3
    <3> HIDE DEF x, l
    <3> QED
      BY <2>1, <2>3, <3>1, <3>2, <3>3
  <2> HIDE DEF x, l
  <2> QED
    BY <2>2, <2>5, <2>6 DEF l
<1>6. ASSUME NEW i \in 1 .. m + n PROVE Good(i)
  <2>1. CASE i <= m
    BY <1>1, <1>4, <2>1
  <2>2. CASE i > m
    <3>1. i - m \in 1 .. n /\ m + (i - m) = i
      BY <1>1, <2>2
    <3>2. Good(m + (i - m))
      BY <1>5, <3>1
    <3> HIDE DEF Good
    <3> QED
      BY <3>1, <3>2
  <2> QED
    BY <1>1, <2>1, <2>2
<1>7. 0 \in 0 .. Len(rs)
  BY <1>3
<1>8. pq # <<>>
  BY <1>1, <1>2
<1>9. ToDo(pq, a, rs, 0)
  BY <1>2, <1>6, <1>7, <1>8 DEF ToDo
<1> QED
  BY <1>8, <1>9 DEF pq, rs

\* m0 with the first t of the cells rec written at address a.
Mix(m0, a, rec, t) ==
  [x \in Addr |-> IF x - a \in 0 .. t - 1 THEN rec[x - a + 1] ELSE m0[x]]

LEMMA MixType ==
  ASSUME NEW m0 \in [Addr -> Cells], NEW a \in Nat, NEW rec \in Seq(Cells), NEW t \in 0 .. Len(rec)
  PROVE  /\ Mix(m0, a, rec, t) \in [Addr -> Cells]
         /\ Mix(m0, a, rec, 0) = m0
<1>1. \A x \in Addr : x - a \in 0 .. t - 1 => rec[x - a + 1] \in Cells
  <2>1. \A x \in Addr : x - a \in 0 .. t - 1 => x - a + 1 \in 1 .. Len(rec)
    BY DEF Addr
  <2> QED
    BY <2>1
<1>2. Mix(m0, a, rec, t) \in [Addr -> Cells]
  BY <1>1 DEF Mix
<1>3. \A x \in Addr : ~(x - a \in 0 .. 0 - 1)
  BY DEF Addr
<1>4. Mix(m0, a, rec, 0) = m0
  BY <1>3 DEF Mix
<1> QED
  BY <1>2, <1>4

\* Programming the next page writes the next cells.
LEMMA ToDoStep ==
  ASSUME NEW a \in Nat, NEW rec \in Seq(Cells), NEW t, NEW pages, ToDo(pages, a, rec, t),
         pages # <<>>, NEW m0 \in [Addr -> Cells]
  PROVE  LET l == Len(Head(pages).cells)
         IN  /\ l \in Nat /\ l >= 1 /\ t + l \in 1 .. Len(rec)
             /\ ToDo(Tail(pages), a, rec, t + l)
             /\ Programmed(Mix(m0, a, rec, t), Head(pages)) = Mix(m0, a, rec, t + l)
<1> DEFINE n == Len(pages)
           h == pages[1]
           l == Len(h.cells)
           tail == Tail(pages)
<1>1. /\ pages \in Seq(Page) /\ n \in Nat /\ n >= 1 /\ DOMAIN pages = 1 .. n /\ Head(pages) = h
      /\ Len(rec) \in Nat /\ 1 \in 1 .. n
  BY DEF ToDo
<1>2. /\ h \in Page /\ t \in 0 .. Len(rec)
      /\ h.addr - a = t /\ t \in 0 .. Len(rec) /\ l \in 1 .. Len(rec) - t
      /\ \A j \in 1 .. l : h.cells[j] = rec[t + j]
      /\ n > 1 => pages[2].addr = h.addr + l
      /\ n = 1 => t + l = Len(rec)
  <2>1. LET x == pages[1].addr - a
        IN  /\ x \in 0 .. Len(rec) /\ l \in 1 .. Len(rec) - x
            /\ \A j \in 1 .. l : h.cells[j] = rec[x + j]
            /\ x = t
            /\ 1 < n => pages[1 + 1].addr = h.addr + l
            /\ 1 = n => x + l = Len(rec)
    BY <1>1 DEF ToDo
  <2>2. h \in Page
    BY <1>1
  <2> QED
    BY <1>1, <2>1, <2>2
<1>3. h.addr \in Nat /\ h.addr \in Addr /\ h.addr = a + t
  <2>1. h.addr \in Nat /\ h.addr \in Addr /\ h.addr - a = t /\ t \in Nat
    BY <1>1, <1>2, PageFields
  <2>2. \A u, v, w \in Nat : u - v = w => u = v + w
    OBVIOUS
  <2> HIDE DEF h
  <2> QED
    BY <2>1, <2>2
<1>4. l \in Nat /\ l >= 1 /\ t \in Nat /\ t + l \in 1 .. Len(rec)
  BY <1>1, <1>2
<1>5. /\ tail \in Seq(Page) /\ Len(tail) = n - 1 /\ DOMAIN tail = 1 .. n - 1
      /\ \A i \in 1 .. n - 1 : tail[i] = pages[i + 1]
  BY <1>1
<1> HIDE DEF tail, l, n, h
<1>6. ASSUME NEW i \in 1 .. n - 1
      PROVE  LET x == tail[i].addr - a
                 y == Len(tail[i].cells)
             IN  /\ x \in 0 .. Len(rec) /\ y \in 1 .. Len(rec) - x
                 /\ \A j \in 1 .. y : tail[i].cells[j] = rec[x + j]
                 /\ i = 1 => x = t + l
                 /\ i < Len(tail) => tail[i + 1].addr = tail[i].addr + y
                 /\ i = Len(tail) => x + y = Len(rec)
  <2>1. i + 1 \in 1 .. n /\ i \in 1 .. n - 1 /\ i \in Nat /\ n \in Nat
        /\ (i + 1 < n => i + 1 \in 1 .. n - 1)
    BY <1>1
  <2>2. LET x == pages[i + 1].addr - a
            y == Len(pages[i + 1].cells)
        IN  /\ x \in 0 .. Len(rec) /\ y \in 1 .. Len(rec) - x
            /\ \A j \in 1 .. y : pages[i + 1].cells[j] = rec[x + j]
            /\ i + 1 < n => pages[i + 1 + 1].addr = pages[i + 1].addr + y
            /\ i + 1 = n => x + y = Len(rec)
    BY <1>1, <2>1 DEF ToDo, n
  <2>3. tail[i] = pages[i + 1] /\ (i + 1 < n => tail[i + 1] = pages[i + 1 + 1])
    BY <1>5, <2>1
  <2>4. (i < Len(tail) <=> i + 1 < n) /\ (i = Len(tail) <=> i + 1 = n)
    BY <1>5, <2>1
  <2>5. ASSUME i = 1 PROVE tail[i].addr - a = t + l
    <3>1. n > 1
      BY <2>1, <2>5
    <3>2. tail[i].addr = a + t + l
      BY <1>2, <1>3, <2>3, <2>5, <3>1
    <3> QED
      BY <1>4, <3>2
  <2> QED
    BY <2>2, <2>3, <2>4, <2>5
<1>7. tail = <<>> => t + l = Len(rec)
  BY <1>1, <1>2, <1>5
<1>8. ToDo(tail, a, rec, t + l)
  <2>1. t + l \in 0 .. Len(rec)
    BY <1>1, <1>4
  <2> QED
    BY <1>5, <1>6, <1>7, <2>1, Zenon DEF ToDo
<1>9. ASSUME NEW x \in Addr
      PROVE  Programmed(Mix(m0, a, rec, t), h)[x] = Mix(m0, a, rec, t + l)[x]
  <2>1. x \in Nat
    BY SizeAssumption DEF Addr
  <2>2. Programmed(Mix(m0, a, rec, t), h)[x]
          = IF x - h.addr \in 0 .. l - 1 THEN h.cells[x - h.addr + 1] ELSE Mix(m0, a, rec, t)[x]
    BY DEF Programmed, l
  <2>3. /\ Mix(m0, a, rec, t)[x] = IF x - a \in 0 .. t - 1 THEN rec[x - a + 1] ELSE m0[x]
        /\ Mix(m0, a, rec, t + l)[x] = IF x - a \in 0 .. (t + l) - 1 THEN rec[x - a + 1] ELSE m0[x]
    BY Zenon DEF Mix
  <2>4. CASE x - h.addr \in 0 .. l - 1
    <3>1. x - h.addr + 1 \in 1 .. l /\ t + (x - h.addr + 1) = x - a + 1
          /\ x - a \in 0 .. (t + l) - 1
      BY <1>3, <1>4, <2>1, <2>4
    <3>2. h.cells[x - h.addr + 1] = rec[x - a + 1]
      BY <1>2, <3>1
    <3> QED
      BY <2>2, <2>3, <2>4, <3>1, <3>2
  <2>5. CASE ~(x - h.addr \in 0 .. l - 1)
    <3>1. x - a \in 0 .. t - 1 <=> x - a \in 0 .. (t + l) - 1
      BY <1>3, <1>4, <2>1, <2>5
    <3> QED
      BY <2>2, <2>3, <2>5, <3>1
  <2> QED
    BY <2>4, <2>5
<1>10. Programmed(Mix(m0, a, rec, t), h) = Mix(m0, a, rec, t + l)
  BY <1>9, Zenon DEF Programmed, Mix
<1> QED
  BY <1>1, <1>4, <1>8, <1>10 DEF tail, l

LEMMA Concatenation ==
  ASSUME NEW S, NEW s \in Seq(S), NEW t \in Seq(S)
  PROVE  /\ s \o t \in Seq(S) /\ Len(s \o t) = Len(s) + Len(t)
         /\ Len(s) \in Nat /\ Len(t) \in Nat
         /\ DOMAIN (s \o t) = 1 .. Len(s) + Len(t)
         /\ \A i \in 1 .. Len(s) : (s \o t)[i] = s[i]
         /\ \A i \in 1 .. Len(t) : (s \o t)[Len(s) + i] = t[i]
  OBVIOUS

\* The cells of a record, and how many there are.
Rec(k, d) == <<Len(idOf[k]), Len(d), Crc(Len(idOf[k]), d)>> \o idOf[k] \o d
RecLen(k, d) == HeaderLen + Len(idOf[k]) + Len(d)

LEMMA RecFields ==
  ASSUME NEW k \in Key, NEW d \in Data
  PROVE  /\ idOf[k] \in Seq(Cells) /\ Len(idOf[k]) \in Nat /\ Len(idOf[k]) \in 1 .. Erased - 1
         /\ d \in Seq(Cells) /\ Len(d) \in Nat /\ Len(d) \in 1 .. Erased - 1
         /\ Rec(k, d) \in Seq(Cells) /\ Len(Rec(k, d)) = RecLen(k, d) /\ RecLen(k, d) \in Nat
         /\ Rec(k, d)[1] = Len(idOf[k]) /\ Rec(k, d)[2] = Len(d)
         /\ Rec(k, d)[3] = Crc(Len(idOf[k]), d) /\ Crc(Len(idOf[k]), d) \in Cells
         /\ \A i \in 1 .. Len(idOf[k]) : Rec(k, d)[3 + i] = idOf[k][i]
         /\ \A i \in 1 .. Len(d) : Rec(k, d)[3 + Len(idOf[k]) + i] = d[i]
<1> DEFINE id == idOf[k]
           crc == Crc(Len(idOf[k]), d)
<1>1. /\ id \in Seq(1 .. Erased - 1) /\ Len(id) \in 1 .. Erased - 1
      /\ d \in Seq(Cells) /\ Len(d) \in 1 .. Erased - 1 /\ crc \in Cells
  BY KeyAssumption, DataAssumption
<1>2. id \in Seq(Cells)
  BY <1>1 DEF Erased, Cells
<1>3. Len(id) \in Nat /\ Len(d) \in Nat /\ Len(id) \in Cells /\ Len(d) \in Cells
  BY <1>1 DEF Erased, Cells
<1> HIDE DEF id, crc
<1> DEFINE h == <<Len(id), Len(d), crc>>
           hid == h \o id
           rec == hid \o d
<1>4. h \in Seq(Cells) /\ Len(h) = 3 /\ h[1] = Len(id) /\ h[2] = Len(d) /\ h[3] = crc
  BY <1>1, <1>3
<1> HIDE DEF h
<1>5. /\ hid \in Seq(Cells) /\ Len(hid) = 3 + Len(id)
      /\ \A i \in 1 .. 3 : hid[i] = h[i]
      /\ \A i \in 1 .. Len(id) : hid[3 + i] = id[i]
  <2>1. /\ hid \in Seq(Cells) /\ Len(hid) = Len(h) + Len(id)
        /\ \A i \in 1 .. Len(h) : hid[i] = h[i]
        /\ \A i \in 1 .. Len(id) : hid[Len(h) + i] = id[i]
    <3>1. h \in Seq(Cells)
      BY <1>4
    <3> QED
      BY <1>2, <3>1, Concatenation
  <2> HIDE DEF hid
  <2> QED
    BY <1>4, <2>1
<1> HIDE DEF hid
<1>6. /\ rec \in Seq(Cells) /\ Len(rec) = 3 + Len(id) + Len(d)
      /\ \A i \in 1 .. 3 + Len(id) : rec[i] = hid[i]
      /\ \A i \in 1 .. Len(d) : rec[3 + Len(id) + i] = d[i]
  <2>1. /\ rec \in Seq(Cells) /\ Len(rec) = Len(hid) + Len(d)
        /\ \A i \in 1 .. Len(hid) : rec[i] = hid[i]
        /\ \A i \in 1 .. Len(d) : rec[Len(hid) + i] = d[i]
    <3>1. hid \in Seq(Cells) /\ d \in Seq(Cells)
      BY <1>1, <1>5
    <3> QED
      BY <3>1, Concatenation
  <2> HIDE DEF rec
  <2> QED
    BY <1>5, <2>1
<1> HIDE DEF rec
<1>7. rec[1] = h[1] /\ rec[2] = h[2] /\ rec[3] = h[3]
  <2>1. 1 \in 1 .. 3 /\ 2 \in 1 .. 3 /\ 3 \in 1 .. 3 /\ 1 .. 3 \subseteq 1 .. 3 + Len(id)
    BY <1>3
  <2> QED
    BY <1>5, <1>6, <2>1
<1>8. \A i \in 1 .. Len(id) : rec[3 + i] = id[i]
  <2>1. \A i \in 1 .. Len(id) : 3 + i \in 1 .. 3 + Len(id)
    BY <1>3
  <2> QED
    BY <1>5, <1>6, <2>1
<1>9. Rec(k, d) = rec /\ RecLen(k, d) = 3 + Len(id) + Len(d)
  BY DEF Rec, RecLen, HeaderLen, rec, hid, h, id, crc
<1>10. 3 + Len(id) + Len(d) \in Nat
  BY <1>3
<1> QED
  BY <1>1, <1>2, <1>3, <1>4, <1>6, <1>7, <1>8, <1>9, <1>10, Zenon DEF id, crc

\* In a new record every page behind the first of the header is marked.
CutMarked(pages, a) == \A i \in DOMAIN pages : pages[i].addr - a \in 1 .. 2 => pages[i].cut

\* The three writes of config_write() write the record.
LEMMA RecordToDo ==
  ASSUME NEW k \in Key, NEW d \in Data, NEW a \in Nat, Fits(a, k, d)
  PROVE  /\ ToDo(Record(a, k, d), a, Rec(k, d), 0) /\ Record(a, k, d) # <<>>
         /\ Cell(mem, a) = Erased => CutMarked(Record(a, k, d), a)
<1> DEFINE id == idOf[k]
           h == <<Len(id), Len(d), Crc(Len(id), d)>>
           new == Cell(mem, a) = Erased
           b == a + HeaderLen
           c == a + HeaderLen + Len(id)
           p == Pages(a, h, new)
           q == Pages(b, id, FALSE)
           r == Pages(c, d, FALSE)
<1>1. /\ id \in Seq(Cells) /\ Len(id) \in Nat /\ Len(id) >= 1
      /\ d \in Seq(Cells) /\ Len(d) \in Nat /\ Len(d) >= 1
      /\ c + Len(d) < End /\ End \in Nat
  <2>1. /\ id \in Seq(Cells) /\ Len(id) \in Nat /\ Len(id) \in 1 .. Erased - 1
        /\ d \in Seq(Cells) /\ Len(d) \in Nat /\ Len(d) \in 1 .. Erased - 1
    BY RecFields
  <2> QED
    <3>1. c + Len(d) < End
      BY DEF Fits
    <3> HIDE DEF id, c
    <3>2. Len(id) >= 1 /\ Len(d) >= 1
      <4>1. \A u \in 1 .. Erased - 1 : u >= 1
        BY DEF Erased
      <4> QED
        BY <2>1, <4>1
    <3> QED
      BY <2>1, <3>1, <3>2, SizeAssumption
<1>2. h \in Seq(Cells) /\ Len(h) = 3 /\ new \in BOOLEAN
  <2>1. Len(id) \in Cells /\ Len(d) \in Cells /\ Crc(Len(id), d) \in Cells
    <3>1. Len(id) \in 1 .. Erased - 1 /\ Len(d) \in 1 .. Erased - 1
      BY RecFields
    <3>2. Crc(Len(id), d) \in Cells
      BY DataAssumption
    <3>3. \A x \in 1 .. Erased - 1 : x \in Cells
      BY DEF Erased, Cells
    <3> QED
      BY <3>1, <3>2, <3>3
  <2> QED
    BY <2>1
<1>3. /\ b \in Nat /\ c \in Nat /\ b = a + 3 /\ c = a + (3 + Len(id))
      /\ a + 3 <= End /\ b + Len(id) <= End /\ c + Len(d) <= End
  <2> HIDE DEF id
  <2> QED
    BY <1>1 DEF HeaderLen
<1> HIDE DEF h, id, new, b, c
<1>4. /\ ToDo(p, a, h, 0) /\ p # <<>>
      /\ \A i \in DOMAIN p : new /\ p[i].addr # a => p[i].cut
  <2>1. Len(h) >= 1 /\ a + Len(h) <= End
    BY <1>2, <1>3
  <2> QED
    BY <1>2, <2>1, PagesToDo
<1>5. /\ ToDo(q, b, id, 0) /\ q # <<>> /\ \A i \in DOMAIN q : q[i].addr >= b
  BY <1>1, <1>3, PagesToDo
<1>6. /\ ToDo(r, c, d, 0) /\ r # <<>> /\ \A i \in DOMAIN r : r[i].addr >= c
  BY <1>1, <1>3, PagesToDo
<1> HIDE DEF p, q, r
<1>7. ToDo(p \o q, a, h \o id, 0) /\ p \o q # <<>>
  BY <1>1, <1>2, <1>3, <1>4, <1>5, ToDoConcat
<1>8. h \o id \in Seq(Cells) /\ Len(h \o id) = 3 + Len(id)
  <2>1. h \o id \in Seq(Cells) /\ Len(h \o id) = Len(h) + Len(id)
    BY <1>1, <1>2, Concatenation
  <2> QED
    BY <1>2, <2>1
<1>9. ToDo((p \o q) \o r, a, (h \o id) \o d, 0) /\ (p \o q) \o r # <<>>
  BY <1>1, <1>3, <1>6, <1>7, <1>8, ToDoConcat
<1>10. Record(a, k, d) = (p \o q) \o r /\ Rec(k, d) = (h \o id) \o d
  BY Zenon DEF Record, Rec, p, q, r, h, id, new, b, c
<1>11. ASSUME new PROVE CutMarked((p \o q) \o r, a)
  <2> DEFINE m == Len(p)
             n == Len(q)
             o == Len(r)
             pqr == (p \o q) \o r
  <2>1. p \in Seq(Page) /\ q \in Seq(Page) /\ r \in Seq(Page)
    BY <1>4, <1>5, <1>6 DEF ToDo
  <2>2. /\ DOMAIN pqr = 1 .. m + n + o /\ m \in Nat /\ n \in Nat /\ o \in Nat
        /\ \A i \in 1 .. m : pqr[i] = p[i]
        /\ \A i \in 1 .. n : pqr[m + i] = q[i]
        /\ \A i \in 1 .. o : pqr[m + n + i] = r[i]
    <3> DEFINE pq == p \o q
    <3>1. /\ pq \in Seq(Page) /\ Len(pq) = m + n /\ m \in Nat /\ n \in Nat /\ o \in Nat
          /\ \A i \in 1 .. m : pq[i] = p[i] /\ i \in 1 .. m + n
          /\ \A i \in 1 .. n : pq[m + i] = q[i] /\ m + i \in 1 .. m + n
      BY <2>1
    <3> HIDE DEF pq, m, n
    <3>2. /\ DOMAIN (pq \o r) = 1 .. m + n + o
          /\ \A i \in 1 .. m + n : (pq \o r)[i] = pq[i]
          /\ \A i \in 1 .. o : (pq \o r)[m + n + i] = r[i]
      <4>1. /\ DOMAIN (pq \o r) = 1 .. Len(pq) + o
            /\ \A i \in 1 .. Len(pq) : (pq \o r)[i] = pq[i]
            /\ \A i \in 1 .. o : (pq \o r)[Len(pq) + i] = r[i]
        <5>1. pq \in Seq(Page) /\ r \in Seq(Page)
          BY <2>1, <3>1
        <5> QED
          BY <5>1, Concatenation DEF o
      <4> QED
        BY <3>1, <4>1
    <3> QED
      BY <3>1, <3>2 DEF pq
  <2> SUFFICES ASSUME NEW i \in 1 .. m + n + o, pqr[i].addr - a \in 1 .. 2
               PROVE  pqr[i].cut
    BY <2>2 DEF CutMarked
  <2> HIDE DEF pqr
  <2>3. CASE i \in 1 .. m
    <3>1. p[i].addr # a /\ pqr[i] = p[i] /\ i \in DOMAIN p
      BY <2>1, <2>2, <2>3
    <3> QED
      BY <1>4, <1>11, <3>1
  <2>4. CASE i - m \in 1 .. n
    <3>1. pqr[i] = q[i - m] /\ i - m \in DOMAIN q /\ q[i - m] \in Page
      <4>1. i = m + (i - m)
        BY <2>2
      <4>2. pqr[m + (i - m)] = q[i - m]
        BY <2>2, <2>4
      <4> QED
        BY <2>1, <2>4, <4>1, <4>2
    <3>2. q[i - m].addr \in Nat /\ q[i - m].addr >= b
      BY <1>5, <3>1, PageFields
    <3> QED
      BY <1>3, <3>1, <3>2
  <2>5. CASE i - (m + n) \in 1 .. o
    <3>1. pqr[i] = r[i - (m + n)] /\ i - (m + n) \in DOMAIN r /\ r[i - (m + n)] \in Page
      <4>1. i = m + n + (i - (m + n))
        BY <2>2
      <4>2. pqr[m + n + (i - (m + n))] = r[i - (m + n)]
        BY <2>2, <2>5
      <4> QED
        BY <2>1, <2>5, <4>1, <4>2
    <3>2. r[i - (m + n)].addr \in Nat /\ r[i - (m + n)].addr >= c
      BY <1>6, <3>1, PageFields
    <3> QED
      BY <1>1, <1>3, <3>1, <3>2
  <2> QED
    BY <2>2, <2>3, <2>4, <2>5
<1> QED
  BY <1>9, <1>10, <1>11 DEF new

\* The first n cells of a store that was erased.
Blank(n) == [i \in 1 .. n |-> IF i = 1 THEN Magic ELSE Erased]

LEMMA BlankCells ==
  ASSUME NEW n \in Nat
  PROVE  Blank(n) \in Seq(Cells) /\ Len(Blank(n)) = n
  BY DEF Blank, Cells, Magic, Erased

LEMMA BlankMore ==
  ASSUME NEW n \in Nat, n >= 1, NEW l \in Nat
  PROVE  Blank(n) \o [j \in 1 .. l |-> Erased] = Blank(n + l)
<1> DEFINE s == Blank(n)
           t == [j \in 1 .. l |-> Erased]
           u == Blank(n + l)
<1>1. s \in Seq(Cells) /\ Len(s) = n /\ u \in Seq(Cells) /\ Len(u) = n + l
  BY BlankCells
<1>2. t \in Seq(Cells) /\ Len(t) = l /\ \A j \in 1 .. l : t[j] = Erased
  BY DEF Cells, Erased
<1>3. /\ \A i \in 1 .. n : s[i] = IF i = 1 THEN Magic ELSE Erased
      /\ \A i \in 1 .. n + l : u[i] = IF i = 1 THEN Magic ELSE Erased
  BY DEF Blank
<1> HIDE DEF s, t, u
<1>4. /\ s \o t \in Seq(Cells) /\ Len(s \o t) = Len(s) + Len(t)
      /\ \A i \in 1 .. Len(s) : (s \o t)[i] = s[i]
      /\ \A i \in 1 .. Len(t) : (s \o t)[Len(s) + i] = t[i]
  <2>1. s \in Seq(Cells) /\ t \in Seq(Cells)
    BY <1>1, <1>2
  <2> QED
    BY <2>1, Concatenation
<1>5. ASSUME NEW i \in 1 .. n + l PROVE (s \o t)[i] = u[i]
  <2>1. CASE i \in 1 .. n
    BY <1>1, <1>3, <1>4, <2>1
  <2>2. CASE i > n
    <3>1. i - n \in 1 .. l /\ i = n + (i - n) /\ i # 1
      BY <2>2
    <3>2. (s \o t)[n + (i - n)] = Erased
      BY <1>1, <1>2, <1>4, <3>1
    <3> QED
      BY <1>3, <3>1, <3>2
  <2>3. i \in 1 .. n \/ i > n
    OBVIOUS
  <2> QED
    BY <2>1, <2>2, <2>3
<1>6. Len(s \o t) = n + l
  BY <1>1, <1>2, <1>4
<1> HIDE DEF s, t, u
<1>7. s \o t = u
  BY <1>1, <1>4, <1>5, <1>6
<1> QED
  BY <1>7 DEF s, t, u

\* The pages that config_erase() programs behind the header with the i-th write.
FillAddr(i) == StoreHeaderLen + (i - 1) * FillSize
FillPages(i) ==
  Pages(FillAddr(i), [j \in 1 .. (IF End - FillAddr(i) < FillSize THEN End - FillAddr(i)
                                  ELSE FillSize) |-> Erased], FALSE)
FillCount == (End - StoreHeaderLen + FillSize - 1) \div FillSize
IsFill(upto) ==
  upto = [i \in 0 .. FillCount |-> IF i = 0 THEN <<>> ELSE upto[i - 1] \o FillPages(i)]

\* The writes fill the store.
LEMMA FillFacts ==
  /\ FillCount \in Nat
  /\ \A i \in 1 .. FillCount :
       LET l == IF End - FillAddr(i) < FillSize THEN End - FillAddr(i) ELSE FillSize
       IN  /\ FillAddr(i) \in Nat /\ FillAddr(i) >= 1 /\ l \in Nat /\ l >= 1
           /\ FillAddr(i) + l <= End
           /\ i < FillCount => FillAddr(i) + l = FillAddr(i + 1)
           /\ i = FillCount => FillAddr(i) + l = End
  /\ FillCount >= 1 /\ FillAddr(1) = 1
<1> DEFINE e == End - 1
           f == FillSize
           n == FillCount
<1>1. e \in Nat /\ e >= 1 /\ f \in Nat /\ f >= 1 /\ End = e + 1
  BY SizeAssumption DEF StoreHeaderLen
<1>2. n \in Nat /\ n * f <= e + (f - 1) /\ e + (f - 1) < (n + 1) * f
  <2>1. n = (e + (f - 1)) \div f /\ e + (f - 1) \in Nat
    BY <1>1 DEF FillCount, StoreHeaderLen
  <2> HIDE DEF n, e, f
  <2> QED
    BY <1>1, <2>1
<1>3. \A p, q \in Int : p < q =>
         p * f \in Int /\ q * f \in Int /\ (p + 1) * f = p * f + f /\ (p + 1) * f <= q * f
  BY SizeAssumption
<1> HIDE DEF n, f
<1>4. n >= 1
  <2> SUFFICES ASSUME n = 0 PROVE FALSE
    BY <1>2
  <2>1. (n + 1) * f = f
    BY <1>1
  <2> QED
    BY <1>1, <1>2, <2>1
<1>5. n * f \in Int /\ (n + 1) * f = n * f + f /\ e <= n * f
  <2>1. n * f \in Int /\ (n + 1) * f = n * f + f
    BY <1>2, <1>3
  <2> QED
    BY <1>1, <1>2, <2>1
<1>6. FillAddr(1) = 1
  BY <1>1 DEF FillAddr, StoreHeaderLen, f
<1>7. ASSUME NEW i \in 1 .. n, NEW a, a = FillAddr(i),
             NEW l, l = IF End - a < f THEN End - a ELSE f
      PROVE  /\ a \in Nat /\ a >= 1 /\ l \in Nat /\ l >= 1 /\ a + l <= End
             /\ i < n => a + l = FillAddr(i + 1)
             /\ i = n => a + l = End
  <2> DEFINE g == (i - 1) * f
  <2>1. i - 1 \in Nat /\ i \in Nat /\ i + 1 - 1 = i /\ i - 1 + 1 = i
    BY <1>2
  <2>2. g \in Int /\ i * f = g + f
    <3>1. i - 1 < i /\ i - 1 \in Int /\ i \in Int
      BY <2>1
    <3> QED
      BY <1>3, <2>1, <3>1
  <2>3. a = 1 + g /\ FillAddr(i + 1) = 1 + i * f
    <3>1. a = 1 + (i - 1) * f /\ FillAddr(i + 1) = 1 + (i + 1 - 1) * f
      BY <1>7 DEF FillAddr, StoreHeaderLen, f
    <3> QED
      BY <2>1, <3>1
  <2>4. g >= 0
    <3>1. CASE i - 1 = 0
      BY <3>1, <1>1
    <3>2. CASE i - 1 > 0
      <4>1. 0 < i - 1 /\ i - 1 \in Int /\ 0 \in Int
        BY <2>1, <3>2
      <4>2. (0 + 1) * f <= g /\ (0 + 1) * f = f
        BY <1>1, <1>3, <4>1
      <4> QED
        BY <1>1, <2>2, <4>2
    <3> QED
      BY <2>1, <3>1, <3>2
  <2>5. i < n => i * f + f <= n * f
    <3>1. ASSUME i < n PROVE (i + 1) * f <= n * f /\ (i + 1) * f = i * f + f
      <4>1. i \in Int /\ n \in Int
        BY <1>2, <2>1
      <4> QED
        BY <1>3, <3>1, <4>1
    <3> QED
      BY <3>1
  <2>6. i = n => i * f = n * f
    OBVIOUS
  <2>7. i < n \/ i = n
    BY <1>2
  <2>8. i * f \in Int /\ n * f \in Int /\ n * f <= e + (f - 1)
    BY <1>2, <1>5, <2>1, <1>3
  <2> HIDE DEF g, e
  <2> DEFINE h == i * f
             m == n * f
  <2>9. h \in Int /\ m \in Int /\ m <= e + (f - 1) /\ e <= m /\ h = g + f
        /\ (i < n => h + f <= m) /\ (i = n => h = m) /\ FillAddr(i + 1) = 1 + h
    BY <1>5, <2>2, <2>3, <2>5, <2>6, <2>8
  <2> HIDE DEF h, m
  <2>10. a \in Nat /\ a >= 1 /\ g + 1 <= e
    BY <1>1, <2>2, <2>3, <2>4, <2>7, <2>9
  <2>11. End - a = e - g
    BY <1>1, <2>2, <2>3
  <2>12. (i < n => l = f) /\ (i = n => l = e - g)
    BY <1>1, <1>7, <2>2, <2>9, <2>11
  <2> QED
    BY <1>1, <2>2, <2>3, <2>7, <2>9, <2>10, <2>12
<1>8. ASSUME NEW i \in 1 .. n
      PROVE  LET l == IF End - FillAddr(i) < FillSize THEN End - FillAddr(i) ELSE FillSize
             IN  /\ FillAddr(i) \in Nat /\ FillAddr(i) >= 1 /\ l \in Nat /\ l >= 1
                 /\ FillAddr(i) + l <= End
                 /\ i < n => FillAddr(i) + l = FillAddr(i + 1)
                 /\ i = n => FillAddr(i) + l = End
  BY <1>7 DEF f
<1> QED
  BY <1>2, <1>4, <1>6, <1>8 DEF n

\* What one write of config_erase() programs.
LEMMA FillPagesToDo ==
  ASSUME NEW i \in 1 .. FillCount
  PROVE  LET l == IF End - FillAddr(i) < FillSize THEN End - FillAddr(i) ELSE FillSize
         IN  /\ l \in Nat /\ FillAddr(i) \in Nat
             /\ ToDo(FillPages(i), FillAddr(i), [j \in 1 .. l |-> Erased], 0)
             /\ FillPages(i) # <<>> /\ FillPages(i) \in Seq(Page)
<1> DEFINE a == FillAddr(i)
           l == IF End - a < FillSize THEN End - a ELSE FillSize
           c == [j \in 1 .. l |-> Erased]
<1>1. a \in Nat /\ l \in Nat /\ l >= 1 /\ a + l <= End
  BY FillFacts
<1> HIDE DEF a, l
<1>2. c \in Seq(Cells) /\ Len(c) = l
  BY <1>1 DEF Cells, Erased
<1> HIDE DEF c
<1>3. ToDo(Pages(a, c, FALSE), a, c, 0) /\ Pages(a, c, FALSE) # <<>>
  <2>1. Len(c) >= 1 /\ a + Len(c) <= End
    BY <1>1, <1>2
  <2> QED
    BY <1>1, <1>2, <2>1, PagesToDo
<1>4. Pages(a, c, FALSE) \in Seq(Page)
  BY <1>3 DEF ToDo
<1>5. FillPages(i) = Pages(a, c, FALSE)
  BY DEF FillPages, a, l, c
<1> QED
  BY <1>1, <1>3, <1>4, <1>5 DEF a, l, c

\* There is a function that collects these pages, and config_erase() uses one.
LEMMA FillExists ==
  \E upto : IsFill(upto) /\ Erasure = Pages(0, <<Magic>>, FALSE) \o upto[FillCount]
<1> DEFINE n == FillCount
           S == Seq(Page)
           step == [p \in (1 .. n) \X S |-> p[2] \o FillPages(p[1])]
<1>1. n \in Nat /\ <<>> \in S /\ step \in [(1 .. n) \X S -> S]
  <2>1. ASSUME NEW p \in (1 .. n) \X S
        PROVE  p[2] \o FillPages(p[1]) \in S
    <3>1. p[1] \in 1 .. n /\ p[2] \in S
      OBVIOUS
    <3>2. FillPages(p[1]) \in S
      BY <3>1, FillPagesToDo
    <3> QED
      BY <3>1, <3>2
  <2>2. n \in Nat /\ <<>> \in S
    BY FillFacts
  <2> QED
    BY <2>1, <2>2
<1>2. PICK f \in [0 .. n -> S] : f[0] = <<>> /\ \A i \in 1 .. n : f[i] = step[<<i, f[i - 1]>>]
  <2>1. PICK f \in [0 .. n -> S] : Recursion(n, <<>>, step, f)
    <3> HIDE DEF step, n, S
    <3> QED
      BY <1>1, RecursionExists, Zenon
  <2> QED
    BY <2>1 DEF Recursion
<1>3. IsFill(f)
  <2>1. ASSUME NEW i \in 1 .. n
        PROVE  step[<<i, f[i - 1]>>] = f[i - 1] \o FillPages(i)
    <3>1. i - 1 \in 0 .. n
      BY <1>1
    <3>2. <<i, f[i - 1]>> \in (1 .. n) \X S
      BY <3>1
    <3> QED
      BY <3>2, Zenon
  <2> HIDE DEF step
  <2>2. \A i \in 0 .. n : i = 0 \/ i \in 1 .. n
    BY <1>1
  <2>3. ~(0 \in 1 .. n)
    OBVIOUS
  <2>4. \A i \in 0 .. n : f[i] = IF i = 0 THEN <<>> ELSE f[i - 1] \o FillPages(i)
    BY <2>1, <2>2, <1>2
  <2>5. f = [i \in 0 .. n |-> f[i]]
    BY <1>2
  <2> QED
    BY <2>4, <2>5, Zenon DEF IsFill, n
<1>4. IsFill(CHOOSE upto : IsFill(upto))
  BY <1>3
<1>5. Erasure = Pages(0, <<Magic>>, FALSE) \o (CHOOSE upto : IsFill(upto))[n]
  BY Zenon DEF Erasure, IsFill, FillPages, FillAddr, FillCount, n
<1> QED
  BY <1>4, <1>5 DEF n

\* config_erase() writes the header and erased cells to the end.
LEMMA ErasureToDo == ToDo(Erasure, 0, Blank(End), 0) /\ Erasure # <<>>
<1>1. PICK upto : IsFill(upto) /\ Erasure = Pages(0, <<Magic>>, FALSE) \o upto[FillCount]
  BY FillExists
<1> DEFINE n == FillCount
           h == Pages(0, <<Magic>>, FALSE)
           at(i) == IF i = n THEN End ELSE FillAddr(i + 1)
           Good(i) == /\ upto[i] \in Seq(Page)
                      /\ ToDo(h \o upto[i], 0, Blank(at(i)), 0) /\ h \o upto[i] # <<>>
           T == {i \in Nat : i <= n => Good(i)}
<1>2. n \in Nat /\ n >= 1 /\ End \in Nat /\ End > 1
  BY FillFacts, SizeAssumption DEF StoreHeaderLen
<1>3. upto[0] = <<>> /\ \A i \in 1 .. n : upto[i] = upto[i - 1] \o FillPages(i)
  <2>1. 0 \in 0 .. n /\ \A i \in 1 .. n : i \in 0 .. n /\ i # 0
    BY <1>2
  <2>2. \A i \in 0 .. n : upto[i] = IF i = 0 THEN <<>> ELSE upto[i - 1] \o FillPages(i)
    BY <1>1, Zenon DEF IsFill, n
  <2> QED
    BY <2>1, <2>2
<1>4. h \in Seq(Page) /\ h # <<>> /\ ToDo(h, 0, Blank(1), 0)
  <2>1. /\ <<Magic>> \in Seq(Cells) /\ Len(<<Magic>>) = 1 /\ Len(<<Magic>>) >= 1
        /\ 0 + Len(<<Magic>>) <= End
    BY <1>2 DEF Cells, Magic, Erased
  <2>2. ToDo(h, 0, <<Magic>>, 0) /\ h # <<>>
    BY <2>1, PagesToDo
  <2>3. <<Magic>> = Blank(1)
    BY DEF Blank
  <2>4. h \in Seq(Page)
    BY <2>2 DEF ToDo
  <2> QED
    BY <2>2, <2>3, <2>4
<1> HIDE DEF h
<1>5. 0 \in T
  <2>1. at(0) = 1
    BY <1>2, FillFacts
  <2>2. h \o <<>> = h
    BY <1>4
  <2>3. upto[0] \in Seq(Page)
    BY <1>3
  <2> QED
    BY <1>3, <1>4, <2>1, <2>2, <2>3
<1>6. ASSUME NEW i \in Nat, i \in T PROVE i + 1 \in T
  <2> SUFFICES ASSUME i + 1 <= n PROVE Good(i + 1)
    OBVIOUS
  <2> DEFINE j == i + 1
             a == FillAddr(j)
             l == IF End - a < FillSize THEN End - a ELSE FillSize
             c == [x \in 1 .. l |-> Erased]
             p == h \o upto[i]
             q == FillPages(j)
  <2>1. i <= n /\ i # n /\ j \in 1 .. n /\ j - 1 = i /\ j \in Nat
    BY <1>2
  <2>2. Good(i) /\ at(i) = a
    BY <1>6, <2>1
  <2>3. /\ a \in Nat /\ a >= 1 /\ l \in Nat
        /\ j < n => a + l = FillAddr(j + 1)
        /\ j = n => a + l = End
    BY <2>1, FillFacts
  <2>4. ToDo(q, a, c, 0) /\ q # <<>> /\ q \in Seq(Page)
    BY <2>1, FillPagesToDo
  <2>5. upto[j] = upto[i] \o q
    BY <1>3, <2>1
  <2>6. at(j) = a + l
    BY <1>2, <2>1, <2>3
  <2> HIDE DEF j, a, l, q
  <2>7. c \in Seq(Cells) /\ Len(c) = l
    BY <2>3 DEF Cells, Erased
  <2>8. Blank(a) \in Seq(Cells) /\ Len(Blank(a)) = a /\ Blank(a) \o c = Blank(a + l)
    BY <2>3, BlankCells, BlankMore
  <2> HIDE DEF c, at
  <2>9. ToDo(p \o q, 0, Blank(a) \o c, 0) /\ p \o q # <<>>
    <3>1. ToDo(q, 0 + Len(Blank(a)), c, 0)
      BY <2>3, <2>4, <2>8
    <3>2. ToDo(p, 0, Blank(a), 0) /\ p # <<>>
      BY <2>2
    <3> HIDE DEF p
    <3> QED
      BY <2>4, <2>7, <2>8, <3>1, <3>2, ToDoConcat
  <2>10. p \o q = h \o upto[j]
    <3>1. h \in Seq(Page) /\ upto[i] \in Seq(Page) /\ q \in Seq(Page)
      BY <1>4, <2>2, <2>4
    <3>2. (h \o upto[i]) \o q = h \o (upto[i] \o q)
      <4>1. \A x, y, z \in Seq(Page) : (x \o y) \o z = x \o (y \o z)
        BY ConcatAssociative
      <4> QED
        BY <3>1, <4>1
    <3> QED
      BY <2>5, <3>2
  <2>11. upto[j] \in Seq(Page)
    BY <2>2, <2>4, <2>5
  <2>12. ToDo(h \o upto[j], 0, Blank(at(j)), 0) /\ h \o upto[j] # <<>>
    BY <2>6, <2>8, <2>9, <2>10
  <2> QED
    BY <2>11, <2>12 DEF j
<1> HIDE DEF T
<1>7. n \in T
  BY <1>2, <1>5, <1>6, NaturalInduction
<1>8. Good(n) /\ at(n) = End
  BY <1>2, <1>7 DEF T
<1> QED
  BY <1>1, <1>8 DEF h

(***************************************************************************)
(* The walk along the chain.                                               *)
(***************************************************************************)

LEMMA CellFacts ==
  ASSUME NEW m \in [Addr -> Cells], NEW a \in Nat
  PROVE  /\ Cell(m, a) \in Cells /\ Cell(m, a) \in Nat
         /\ a >= End => Cell(m, a) = Erased
         /\ a \in Addr => Cell(m, a) = m[a]
<1>1. Cell(m, a) \in Cells
  BY DEF Cell, Cells, Erased
<1>2. a >= End => ~(a \in Addr)
  BY SizeAssumption DEF Addr
<1> QED
  BY <1>1, <1>2 DEF Cell, Cells, Erased

\* Where the record behind the one at address a starts.
NextRecord(m, a) == a + HeaderLen + Cell(m, a) + Cell(m, a + 1)

LEMMA NextRecordFacts ==
  ASSUME NEW m \in [Addr -> Cells], NEW a \in Nat
  PROVE  /\ NextRecord(m, a) \in Nat /\ NextRecord(m, a) >= a + 3 + Cell(m, a)
         /\ NextRecord(m, a) = a + 3 + Cell(m, a) + Cell(m, a + 1)
         /\ NextRecord(m, a) >= a + 3
<1>1. a + 1 \in Nat /\ Cell(m, a) \in Nat /\ Cell(m, a + 1) \in Nat
  BY CellFacts
<1> QED
  BY <1>1 DEF NextRecord, HeaderLen

Ends(m, a) == Cell(m, a) \in {Hole, Erased}
Missing(a) == [found |-> FALSE, addr |-> a]
At(a) == [found |-> TRUE, addr |-> a]
Found == [found : BOOLEAN, addr : Nat]

\* walk is what config_find() defines it to be, at address a and everywhere.
WalkAt(m, k, walk, a) ==
  CASE Cell(m, a) \in {Hole, Erased} -> [found |-> FALSE, addr |-> a]
    [] HasId(m, a, k)                -> [found |-> TRUE, addr |-> a]
    [] OTHER -> walk[a + HeaderLen + Cell(m, a) + Cell(m, a + 1)]
IsWalk(m, k, walk) == walk = [a \in Nat |-> WalkAt(m, k, walk, a)]

LEMMA WalkCases ==
  ASSUME NEW m, NEW k \in Key, NEW walk, NEW a
  PROVE  /\ Ends(m, a) => WalkAt(m, k, walk, a) = Missing(a)
         /\ ~Ends(m, a) /\ HasId(m, a, k) => WalkAt(m, k, walk, a) = At(a)
         /\ ~Ends(m, a) /\ ~HasId(m, a, k) => WalkAt(m, k, walk, a) = walk[NextRecord(m, a)]
<1>1. Ends(m, a) => ~HasId(m, a, k)
  <2>1. Len(idOf[k]) # 0 /\ Len(idOf[k]) # 255
    <3>1. Len(idOf[k]) \in 1 .. Erased - 1
      BY KeyAssumption
    <3>2. \A u \in 1 .. Erased - 1 : u # 0 /\ u # 255
      BY DEF Erased
    <3> QED
      BY <3>1, <3>2
  <2> QED
    BY <2>1 DEF Ends, HasId, Hole, Erased
<1> DEFINE p == Cell(m, a) \in {Hole, Erased}
           q == HasId(m, a, k)
           x == Missing(a)
           y == At(a)
           z == walk[NextRecord(m, a)]
<1>2. WalkAt(m, k, walk, a) = CASE p -> x [] q -> y [] OTHER -> z
  BY Zenon DEF WalkAt, Missing, At, NextRecord
<1>3. p <=> Ends(m, a)
  BY DEF Ends
<1> HIDE DEF p, q, x, y, z
<1>4. /\ p /\ ~q => WalkAt(m, k, walk, a) = x
      /\ ~p /\ q => WalkAt(m, k, walk, a) = y
      /\ ~p /\ ~q => WalkAt(m, k, walk, a) = z
  BY <1>2
<1> QED
  BY <1>1, <1>3, <1>4 DEF q, x, y, z

\* There is such a function, and config_find() starts one at the first record: the
\* functions that are right from some address on exist for every address, for beyond
\* the end of the store every cell reads as erased.
LEMMA WalkExists ==
  ASSUME NEW m \in [Addr -> Cells], NEW k \in Key
  PROVE  \E walk : /\ \A a \in Nat : walk[a] = WalkAt(m, k, walk, a)
                   /\ Find(m, k) = walk[StoreHeaderLen]
<1> DEFINE Right(n, w) == \A a \in Nat : a + n >= End => w[a] = WalkAt(m, k, w, a)
           T == {n \in Nat : \E w \in [Nat -> Found] : Right(n, w)}
<1>0. End \in Nat
  BY SizeAssumption
<1>1. 0 \in T
  <2> DEFINE w == [a \in Nat |-> Missing(a)]
  <2>1. w \in [Nat -> Found]
    BY DEF Missing, Found
  <2>2. ASSUME NEW a \in Nat, a + 0 >= End PROVE w[a] = WalkAt(m, k, w, a)
    <3>1. Ends(m, a)
      BY <2>2, CellFacts DEF Ends
    <3>2. WalkAt(m, k, w, a) = Missing(a)
      BY <3>1, WalkCases
    <3> QED
      BY <3>2
  <2> HIDE DEF w
  <2> QED
    BY <2>1, <2>2
<1>2. ASSUME NEW n \in Nat, n \in T PROVE n + 1 \in T
  <2>1. PICK w \in [Nat -> Found] : Right(n, w)
    BY <1>2
  <2>2. CASE n >= End
    <3>1. Right(n + 1, w)
      <4>1. \A a \in Nat : a + n >= End
        BY <1>0, <2>2
      <4> QED
        BY <2>1, <4>1
    <3> QED
      BY <3>1
  <2>3. CASE n < End
    <3> DEFINE b == End - n - 1
               v == WalkAt(m, k, w, b)
               g == [w EXCEPT ![b] = v]
    <3>1. b \in Nat /\ b + n + 1 = End
      BY <1>0, <2>3
    <3>2. v \in Found
      <4>1. NextRecord(m, b) \in Nat
        BY <3>1, NextRecordFacts
      <4>2. Missing(b) \in Found /\ At(b) \in Found
        BY <3>1 DEF Missing, At, Found
      <4>3. w[NextRecord(m, b)] \in Found
        BY <4>1
      <4> HIDE DEF b
      <4> QED
        BY <4>2, <4>3, WalkCases
    <3>3. g \in [Nat -> Found] /\ g[b] = v /\ \A a \in Nat : a # b => g[a] = w[a]
      <4> HIDE DEF v, b
      <4> QED
        BY <3>1, <3>2
    <3>4. ASSUME NEW a \in Nat, a >= b PROVE WalkAt(m, k, g, a) = WalkAt(m, k, w, a)
      <4>1. NextRecord(m, a) \in Nat /\ NextRecord(m, a) # b
        <5>1. NextRecord(m, a) \in Nat /\ NextRecord(m, a) >= a + 3
          BY NextRecordFacts
        <5> QED
          BY <3>1, <3>4, <5>1
      <4>2. g[NextRecord(m, a)] = w[NextRecord(m, a)]
        BY <3>3, <4>1
      <4> HIDE DEF g
      <4> QED
        BY <4>2, WalkCases
    <3>5. ASSUME NEW a \in Nat, a + (n + 1) >= End PROVE g[a] = WalkAt(m, k, g, a)
      <4>1. a >= b /\ (a = b \/ a + n >= End)
        BY <3>1, <3>5
      <4>2. CASE a = b
        <5> HIDE DEF g, b
        <5> QED
          BY <3>3, <3>4, <4>1, <4>2 DEF v
      <4>3. CASE a # b
        <5>1. w[a] = WalkAt(m, k, w, a)
          BY <2>1, <4>1, <4>3
        <5> HIDE DEF g, b
        <5> QED
          BY <3>3, <3>4, <4>1, <4>3, <5>1
      <4> QED
        BY <4>2, <4>3
    <3>6. Right(n + 1, g)
      BY <3>5
    <3> HIDE DEF g, Right
    <3> QED
      BY <3>3, <3>6
  <2> QED
    BY <1>0, <2>2, <2>3
<1> HIDE DEF T
<1>3. End \in T
  BY <1>0, <1>1, <1>2, NaturalInduction
<1>4. PICK w \in [Nat -> Found] : Right(End, w)
  BY <1>3 DEF T
<1>5. IsWalk(m, k, w)
  <2>1. \A a \in Nat : a + End >= End
    BY <1>0
  <2>2. \A a \in Nat : w[a] = WalkAt(m, k, w, a)
    BY <1>4, <2>1
  <2>3. w = [a \in Nat |-> w[a]]
    BY <1>4
  <2> QED
    BY <2>2, <2>3, Zenon DEF IsWalk
<1> DEFINE walk == CHOOSE u : IsWalk(m, k, u)
<1>6. IsWalk(m, k, walk)
  BY <1>5
<1>7. Find(m, k) = walk[StoreHeaderLen]
  BY Zenon DEF Find, IsWalk, WalkAt
<1> HIDE DEF walk
<1>8. \A a \in Nat : walk[a] = WalkAt(m, k, walk, a)
  BY <1>6, Zenon DEF IsWalk
<1> QED
  BY <1>7, <1>8

\* What config_find() returns is an address, whatever the cells.
LEMMA FindType ==
  ASSUME NEW m \in [Addr -> Cells], NEW k \in Key
  PROVE  Find(m, k) \in Found
<1>1. PICK walk : /\ \A a \in Nat : walk[a] = WalkAt(m, k, walk, a)
                  /\ Find(m, k) = walk[StoreHeaderLen]
  BY WalkExists
<1> DEFINE T == {n \in Nat : \A a \in Nat : a + n >= End => walk[a] \in Found}
<1>0. End \in Nat
  BY SizeAssumption
<1>2. 0 \in T
  <2>1. ASSUME NEW a \in Nat, a + 0 >= End PROVE walk[a] \in Found
    <3>1. Ends(m, a)
      BY <2>1, CellFacts DEF Ends
    <3>2. walk[a] = Missing(a)
      BY <1>1, <3>1, WalkCases
    <3> QED
      BY <3>2 DEF Missing, Found
  <2> QED
    BY <2>1
<1>3. ASSUME NEW n \in Nat, n \in T PROVE n + 1 \in T
  <2>1. ASSUME NEW a \in Nat, a + (n + 1) >= End PROVE walk[a] \in Found
    <3>1. NextRecord(m, a) \in Nat /\ NextRecord(m, a) + n >= End
      <4>1. NextRecord(m, a) \in Nat /\ NextRecord(m, a) >= a + 3
        BY NextRecordFacts
      <4> QED
        BY <1>0, <2>1, <4>1
    <3>2. walk[NextRecord(m, a)] \in Found
      BY <1>3, <3>1
    <3>3. Missing(a) \in Found /\ At(a) \in Found
      BY DEF Missing, At, Found
    <3>4. walk[a] = WalkAt(m, k, walk, a)
      BY <1>1
    <3> QED
      BY <3>2, <3>3, <3>4, WalkCases
  <2> QED
    BY <2>1
<1> HIDE DEF T
<1>4. End \in T
  BY <1>0, <1>2, <1>3, NaturalInduction
<1>5. StoreHeaderLen \in Nat /\ StoreHeaderLen + End >= End
  BY <1>0 DEF StoreHeaderLen
<1> QED
  BY <1>1, <1>4, <1>5 DEF T

(***************************************************************************)
(* Types.                                                                  *)
(***************************************************************************)

Call == {NoCall, EraseCall} \cup {WriteCall(k, d) : k \in Key, d \in Data}

LEMMA CallFields ==
  ASSUME NEW c \in Call
  PROVE  /\ EraseCall # NoCall /\ EraseCall.op = "erase" /\ NoCall.op = "none"
         /\ \/ c = NoCall /\ c.op = "none"
            \/ c = EraseCall /\ c.op = "erase"
            \/ c.op = "write" /\ c.key \in Key /\ c.data \in Data /\ c = WriteCall(c.key, c.data)
         /\ c = NoCall <=> c.op = "none"
         /\ c = EraseCall <=> c.op = "erase"
<1>1. NoCall.op = "none" /\ EraseCall.op = "erase"
  BY DEF NoCall, EraseCall
<1>2. ASSUME NEW k \in Key, NEW d \in Data
      PROVE  LET w == WriteCall(k, d) IN w.op = "write" /\ w.key = k /\ w.data = d
  BY DEF WriteCall
<1>3. /\ \/ c = NoCall /\ c.op = "none"
         \/ c = EraseCall /\ c.op = "erase"
         \/ c.op = "write" /\ c.key \in Key /\ c.data \in Data /\ c = WriteCall(c.key, c.data)
  <2>1. CASE c \in {NoCall, EraseCall}
    BY <1>1, <2>1
  <2>2. CASE c \in {WriteCall(k, d) : k \in Key, d \in Data}
    <3>1. PICK k \in Key, d \in Data : c = WriteCall(k, d)
      BY <2>2
    <3> QED
      BY <1>2, <3>1
  <2> QED
    BY <2>1, <2>2 DEF Call
<1>4. EraseCall # NoCall
  <2> SUFFICES ASSUME EraseCall = NoCall PROVE FALSE
    OBVIOUS
  <2>1. EraseCall.op = NoCall.op
    OBVIOUS
  <2> QED
    BY <1>1, <2>1
<1> QED
  BY <1>1, <1>3, <1>4

LEMMA InitTypeOK == Init => TypeOK
<1> SUFFICES ASSUME Init PROVE TypeOK
  OBVIOUS
<1>1. Erasure \in Seq(Page) /\ Erasure # <<>>
  BY ErasureToDo DEF ToDo
<1>2. EraseCall # NoCall
  BY CallFields DEF Call
<1>3. mem \in [Addr -> Cells]
  BY DEF Init, Cells, Erased
<1>4. tried \in [Key -> SUBSET Data] /\ stored \in [Key -> Data \cup {NoData}] /\ torn \in BOOLEAN
  BY DEF Init
<1>5. pending = Erasure /\ call = EraseCall
  BY DEF Init
<1> QED
  BY <1>1, <1>2, <1>3, <1>4, <1>5 DEF TypeOK

LEMMA NextTypeOK == TypeOK /\ [Next]_vars => TypeOK'
<1> SUFFICES ASSUME TypeOK, [Next]_vars PROVE TypeOK'
  OBVIOUS
<1>0. /\ mem \in [Addr -> Cells] /\ pending \in Seq(Page) /\ call \in Call
      /\ call = NoCall <=> pending = <<>>
      /\ stored \in [Key -> Data \cup {NoData}] /\ tried \in [Key -> SUBSET Data]
      /\ torn \in BOOLEAN
  BY DEF TypeOK, Call
<1>1. ASSUME NEW k \in Key, NEW d \in Data, ConfigWrite(k, d) PROVE TypeOK'
  <2> DEFINE f == Find(mem, k)
  <2>1. Fits(f.addr, k, d) /\ pending' = Record(f.addr, k, d) /\ call' = WriteCall(k, d)
        /\ UNCHANGED <<mem, stored, tried, torn>>
    BY <1>1, Zenon DEF ConfigWrite
  <2>2. f.addr \in Nat
    BY <1>0, FindType DEF Found
  <2> HIDE DEF f
  <2>3. pending' \in Seq(Page) /\ pending' # <<>>
    BY <2>1, <2>2, RecordToDo DEF ToDo
  <2>4. call' \in Call /\ call' # NoCall
    <3>1. call' \in Call
      BY <2>1 DEF Call
    <3>2. call'.op = "write"
      BY <2>1 DEF WriteCall
    <3> QED
      BY <3>1, <3>2, CallFields
  <2> QED
    BY <1>0, <2>1, <2>3, <2>4 DEF TypeOK, Call
<1>2. ASSUME ConfigErase PROVE TypeOK'
  <2>1. pending' = Erasure /\ call' = EraseCall /\ UNCHANGED <<mem, stored, tried, torn>>
    BY <1>2 DEF ConfigErase
  <2>2. Erasure \in Seq(Page) /\ Erasure # <<>> /\ EraseCall # NoCall
    BY ErasureToDo, CallFields DEF ToDo, Call
  <2> QED
    BY <1>0, <2>1, <2>2 DEF TypeOK, Call
<1>3. ASSUME ProgramPage PROVE TypeOK'
  <2>1. pending # <<>> /\ mem' = Programmed(mem, Head(pending)) /\ pending' = Tail(pending)
        /\ call # NoCall
    BY <1>0, <1>3 DEF ProgramPage
  <2>2. mem' \in [Addr -> Cells]
    <3>1. Head(pending) \in Page
      BY <1>0, <2>1
    <3> DEFINE p == Head(pending)
    <3>2. p.addr \in Nat /\ p.cells \in Seq(Cells)
      BY <3>1, PageFields
    <3> HIDE DEF p
    <3>3. ASSUME NEW a \in Addr
          PROVE  (IF a - p.addr \in 0 .. Len(p.cells) - 1 THEN p.cells[a - p.addr + 1]
                  ELSE mem[a]) \in Cells
      <4>1. ASSUME a - p.addr \in 0 .. Len(p.cells) - 1 PROVE a - p.addr + 1 \in 1 .. Len(p.cells)
        BY <3>2, <4>1 DEF Addr
      <4> QED
        BY <1>0, <3>2, <4>1
    <3> QED
      BY <2>1, <3>3 DEF Programmed, p
  <2>3. pending' \in Seq(Page)
    BY <1>0, <2>1
  <2>4. CASE Len(pending) > 1
    <3>1. pending' # <<>> /\ UNCHANGED <<call, stored, tried, torn>>
      <4>1. UNCHANGED <<call, stored, tried, torn>>
        BY <1>3, <2>4, Zenon DEF ProgramPage
      <4>2. pending' # <<>>
        <5>1. pending \in Seq(Page) /\ Len(pending) \in Nat
          BY <1>0
        <5>2. Len(Tail(pending)) = Len(pending) - 1
          BY <2>1, <5>1
        <5> QED
          <6>1. \A s \in Seq(Page) : Len(s) # 0 => s # <<>>
            OBVIOUS
          <6>2. Len(pending') # 0
            BY <2>1, <2>4, <5>1, <5>2
          <6> QED
            BY <2>3, <6>1, <6>2
      <4> QED
        BY <4>1, <4>2
    <3> QED
      BY <1>0, <2>1, <2>2, <2>3, <3>1 DEF TypeOK, Call
  <2>5. CASE ~(Len(pending) > 1)
    <3>1. call' = NoCall
      BY <1>3, <2>5, Zenon DEF ProgramPage
    <3>2. pending' = <<>>
      BY <1>0, <2>1, <2>5
    <3>3. /\ stored' \in [Key -> Data \cup {NoData}] /\ tried' \in [Key -> SUBSET Data]
          /\ torn' \in BOOLEAN
      <4>1. CASE call.op = "write"
        <5>1. /\ stored' = [stored EXCEPT ![call.key] = call.data]
              /\ tried' = [tried EXCEPT ![call.key] = {}] /\ torn' = torn
          BY <1>3, <2>5, <4>1, Zenon DEF ProgramPage
        <5>2. call.key \in Key /\ call.data \in Data
          BY <1>0, <4>1, CallFields
        <5> QED
          BY <1>0, <5>1, <5>2
      <4>2. CASE call.op # "write"
        <5>1. stored' = [k \in Key |-> NoData] /\ tried' = [k \in Key |-> {}] /\ torn' = FALSE
          BY <1>3, <2>5, <4>2, Zenon DEF ProgramPage
        <5> QED
          BY <5>1
      <4> QED
        BY <4>1, <4>2
    <3>4. call' \in Call /\ (call' = NoCall <=> pending' = <<>>)
      BY <3>1, <3>2 DEF Call
    <3> QED
      BY <2>2, <2>3, <3>3, <3>4 DEF TypeOK, Call
  <2> QED
    BY <2>4, <2>5
<1>4. ASSUME PowerFail PROVE TypeOK'
  <2>1. /\ pending # <<>> /\ UNCHANGED <<mem, stored>>
        /\ pending' = IF mem[0] # Magic THEN Erasure ELSE <<>>
        /\ call' = IF mem[0] # Magic THEN EraseCall ELSE NoCall
        /\ torn' = (torn \/ Head(pending).cut)
    BY <1>4, Zenon DEF PowerFail
  <2>2. tried' = IF call.op = "write" THEN [tried EXCEPT ![call.key] = @ \cup {call.data}]
                 ELSE tried
    BY <1>4, Zenon DEF PowerFail
  <2>3. torn' \in BOOLEAN
    <3>1. Head(pending).cut \in BOOLEAN
      BY <1>0, <2>1, PageFields
    <3> QED
      BY <1>0, <2>1, <3>1, Zenon
  <2>4. tried' \in [Key -> SUBSET Data]
    <3>1. CASE call.op = "write"
      <4>1. call.key \in Key /\ call.data \in Data
        BY <1>0, <3>1, CallFields
      <4> QED
        BY <1>0, <2>2, <3>1, <4>1
    <3> QED
      BY <1>0, <2>2, <3>1
  <2>5. Erasure \in Seq(Page) /\ Erasure # <<>> /\ EraseCall # NoCall
    BY ErasureToDo, CallFields DEF ToDo, Call
  <2>6. pending' \in Seq(Page) /\ call' \in Call /\ (call' = NoCall <=> pending' = <<>>)
    BY <2>1, <2>5 DEF Call
  <2> QED
    BY <1>0, <2>1, <2>3, <2>4, <2>6 DEF TypeOK, Call
<1>5. CASE UNCHANGED vars
  BY <1>0, <1>5 DEF vars, TypeOK, Call
<1> QED
  BY <1>1, <1>2, <1>3, <1>4, <1>5 DEF Next

\* The calls of the store program whole pages, inside the store, and nothing else: a
\* call is under way exactly while pages of it are left.
THEOREM TypeCorrect == Spec => []TypeOK
  BY InitTypeOK, NextTypeOK, PTL DEF Spec

(***************************************************************************)
(* The chain of records, and what one writing does to it.                  *)
(***************************************************************************)

\* The records of the store start at the addresses C, and the chain ends at e.
Chain(m, C, e) ==
  /\ C \in SUBSET Nat /\ e \in Nat
  /\ StoreHeaderLen \in C \cup {e}
  /\ Ends(m, e)
  /\ \A a \in C : /\ 1 <= a /\ ~Ends(m, a)
                  /\ NextRecord(m, a) \in C \cup {e} /\ NextRecord(m, a) <= e
                  /\ \A b \in C : a < b => NextRecord(m, a) <= b

LEMMA ChainFacts ==
  ASSUME NEW m \in [Addr -> Cells], NEW C, NEW e, Chain(m, C, e)
  PROVE  /\ C \in SUBSET Nat /\ e \in Nat /\ e >= 1 /\ Ends(m, e)
         /\ \A a \in C : a < e /\ a >= 1 /\ ~Ends(m, a)
  <1>1. ASSUME NEW a \in C PROVE a < e /\ a >= 1 /\ ~Ends(m, a)
    <2>1. /\ a \in Nat /\ 1 <= a /\ ~Ends(m, a) /\ NextRecord(m, a) <= e /\ e \in Nat
      BY DEF Chain
    <2>2. NextRecord(m, a) \in Nat /\ NextRecord(m, a) >= a + 3
      BY <2>1, NextRecordFacts
    <2> QED
      BY <2>1, <2>2
  <1>2. e >= 1
    <2>1. CASE e = StoreHeaderLen
      BY <2>1 DEF StoreHeaderLen
    <2>2. CASE StoreHeaderLen \in C
      <3>1. 1 < e
        BY <1>1, <2>2 DEF StoreHeaderLen
      <3> QED
        BY <3>1 DEF Chain
    <2> QED
      BY <2>1, <2>2 DEF Chain
  <1> QED
    BY <1>1, <1>2 DEF Chain

\* config_find() returns the first record of the chain with the id, or its end.
LEMMA FindInChain ==
  ASSUME NEW m \in [Addr -> Cells], NEW C, NEW e, Chain(m, C, e), NEW k \in Key
  PROVE  \/ \E a \in C : HasId(m, a, k) /\ Find(m, k) = At(a)
         \/ (\A a \in C : ~HasId(m, a, k)) /\ Find(m, k) = Missing(e)
<1>1. PICK walk : /\ \A a \in Nat : walk[a] = WalkAt(m, k, walk, a)
                  /\ Find(m, k) = walk[StoreHeaderLen]
  BY WalkExists
<1>2. /\ C \in SUBSET Nat /\ e \in Nat /\ Ends(m, e)
      /\ \A a \in C : a < e /\ a >= 1 /\ ~Ends(m, a)
  BY ChainFacts
<1> DEFINE Good(a) == \/ \E b \in C : HasId(m, b, k) /\ walk[a] = At(b)
                      \/ (\A b \in C : b >= a => ~HasId(m, b, k)) /\ walk[a] = Missing(e)
           T == {n \in Nat : \A a \in C \cup {e} : a + n >= e => Good(a)}
<1>3. Good(e)
  <2>1. walk[e] = Missing(e)
    BY <1>1, <1>2, WalkCases
  <2>2. \A b \in C : ~(b >= e)
    BY <1>2
  <2> QED
    BY <2>1, <2>2
<1>4. 0 \in T
  <2>1. \A a \in C \cup {e} : a + 0 >= e => a = e
    BY <1>2
  <2> HIDE DEF Good
  <2> QED
    BY <1>3, <2>1
<1>5. ASSUME NEW n \in Nat, n \in T PROVE n + 1 \in T
  <2>1. ASSUME NEW a \in C, a + (n + 1) >= e PROVE Good(a)
    <3> DEFINE b == NextRecord(m, a)
    <3>1. b \in C \cup {e} /\ b + n >= e /\ \A c \in C : a < c => b <= c
      <4>1. b \in Nat /\ b >= a + 3
        BY <1>2, NextRecordFacts
      <4>2. b \in C \cup {e} /\ \A c \in C : a < c => b <= c
        BY DEF Chain
      <4> HIDE DEF b
      <4>3. b + n >= e
        BY <1>2, <2>1, <4>1
      <4> QED
        BY <4>2, <4>3
    <3>2. Good(b)
      <4> HIDE DEF Good, b
      <4> QED
        BY <1>5, <3>1
    <3>3. CASE HasId(m, a, k)
      <4>1. walk[a] = At(a)
        BY <1>1, <1>2, <3>3, WalkCases
      <4> QED
        BY <3>3, <4>1
    <3>4. CASE ~HasId(m, a, k)
      <4>1. walk[a] = walk[b]
        BY <1>1, <1>2, <3>4, WalkCases
      <4> HIDE DEF b
      <4>2. ASSUME NEW c \in C, c >= a, \A x \in C : x >= b => ~HasId(m, x, k)
            PROVE  ~HasId(m, c, k)
        <5>1. c = a \/ (a < c /\ c \in Nat)
          BY <1>2, <4>2
        <5>2. b \in Nat
          BY <1>2, <3>1
        <5> QED
          BY <3>1, <3>4, <4>2, <5>1, <5>2
      <4> QED
        BY <3>2, <4>1, <4>2
    <3> QED
      BY <3>3, <3>4
  <2> HIDE DEF Good
  <2> QED
    BY <1>3, <2>1
<1> HIDE DEF T
<1>6. e \in T
  BY <1>2, <1>4, <1>5, NaturalInduction
<1>7. Good(StoreHeaderLen)
  <2>1. StoreHeaderLen \in C \cup {e} /\ StoreHeaderLen + e >= e
    BY <1>2 DEF Chain, StoreHeaderLen
  <2> HIDE DEF Good
  <2> QED
    BY <1>6, <2>1 DEF T
<1>8. \A b \in C : b >= StoreHeaderLen
  BY <1>2 DEF StoreHeaderLen
<1> QED
  BY <1>1, <1>7, <1>8

\* Two memories agree on the l cells from address a on.
Agree(m0, m, a, l) == \A i \in 1 .. l : Cell(m, a + i - 1) = Cell(m0, a + i - 1)

LEMMA ReadKept ==
  ASSUME NEW m0, NEW m, NEW a, NEW l, Agree(m0, m, a, l)
  PROVE  Read(m, a, l) = Read(m0, a, l)
  BY Zenon DEF Read, Agree

\* Whether a record has an id depends on its first cell and the cells of its id.
LEMMA IdKept ==
  ASSUME NEW m0 \in [Addr -> Cells], NEW m \in [Addr -> Cells], NEW b \in Nat,
         Cell(m, b) = Cell(m0, b),
         \A x \in Nat : b + 3 <= x /\ x < b + 3 + Cell(m0, b) => Cell(m, x) = Cell(m0, x),
         NEW j \in Key
  PROVE  HasId(m, b, j) <=> HasId(m0, b, j)
<1> DEFINE l == Len(idOf[j])
<1>1. l \in Nat
  BY KeyAssumption
<1> HIDE DEF l
<1>2. ASSUME Cell(m0, b) = l PROVE Read(m, b + 3, l) = Read(m0, b + 3, l)
  <2> DEFINE a == b + 3
  <2>1. ASSUME NEW i \in 1 .. l PROVE Cell(m, a + i - 1) = Cell(m0, a + i - 1)
    <3>1. a + i - 1 \in Nat /\ b + 3 <= a + i - 1 /\ a + i - 1 < b + 3 + l
      BY <1>1
    <3> QED
      BY <1>2, <3>1
  <2> HIDE DEF a
  <2>3. Read(m, a, l) = Read(m0, a, l)
    <3>1. Agree(m0, m, a, l)
      BY <2>1, Zenon DEF Agree
    <3> QED
      BY <3>1, ReadKept, SMT
  <2> QED
    BY <2>3 DEF a
<1>3. /\ HasId(m, b, j) <=> Cell(m, b) = l /\ Read(m, b + 3, l) = idOf[j]
      /\ HasId(m0, b, j) <=> Cell(m0, b) = l /\ Read(m0, b + 3, l) = idOf[j]
  BY DEF HasId, HeaderLen, l
<1> QED
  BY <1>2, <1>3

\* What config_read() returns of the record at address a.
ReadAt(m, a, len) ==
  LET data == Read(m, a + HeaderLen + Cell(m, a), len)
  IN  IF Cell(m, a + 1) # len THEN [rv |-> "EINVAL", data |-> NoData]
      ELSE IF Cell(m, a + 2) # Crc(Cell(m, a), data) THEN [rv |-> "EIO", data |-> NoData]
      ELSE [rv |-> "OK", data |-> data]

LEMMA ConfigReadAt ==
  ASSUME NEW m, NEW k, NEW len, NEW a
  PROVE  /\ Find(m, k) = At(a) => ConfigRead(m, k, len) = ReadAt(m, a, len)
         /\ Find(m, k) = Missing(a) => ConfigRead(m, k, len) = [rv |-> "ENOENT", data |-> NoData]
         /\ ReadAt(m, a, len).rv # "ENOENT"
<1>1. At(a).found = TRUE /\ At(a).addr = a /\ Missing(a).found = FALSE
  BY DEF At, Missing
<1>2. Find(m, k) = At(a) => ConfigRead(m, k, len) = ReadAt(m, a, len)
  BY <1>1, Zenon DEF ConfigRead, ReadAt
<1>3. Find(m, k) = Missing(a) => ConfigRead(m, k, len) = [rv |-> "ENOENT", data |-> NoData]
  BY <1>1, Zenon DEF ConfigRead
<1>4. ReadAt(m, a, len).rv # "ENOENT"
  BY DEF ReadAt
<1> QED
  BY <1>2, <1>3, <1>4

\* Cell c is the i-th of a value of V of length l, or erased.
Known(c, i, V, l) == c = Erased \/ \E v \in V : Len(v) = l /\ c = v[i]

\* The record at address a is made of values of V: length and checksum are those of one
\* of them, and each cell of the data is one of theirs, or erased.
Made(m, a, V) ==
  LET n == Cell(m, a)
      l == Cell(m, a + 1)
  IN  /\ \E v \in V : Len(v) = l /\ Cell(m, a + 2) = Crc(n, v)
      /\ \A i \in 1 .. l : Known(Cell(m, a + 3 + n + i - 1), i, V, l)

\* The record at address a reads the same in two memories, and is made of the same values.
SameRecord(m0, m, a) ==
  /\ \A len : ReadAt(m, a, len) = ReadAt(m0, a, len)
  /\ \A V : Made(m0, a, V) => Made(m, a, V)

\* A record whose cells stay is the same record.
LEMMA RecordKept ==
  ASSUME NEW m0 \in [Addr -> Cells], NEW m \in [Addr -> Cells], NEW b \in Nat,
         \A x \in Nat : b <= x /\ x < NextRecord(m0, b) => Cell(m, x) = Cell(m0, x)
  PROVE  /\ NextRecord(m, b) = NextRecord(m0, b)
         /\ Ends(m, b) <=> Ends(m0, b)
         /\ \A j \in Key : HasId(m, b, j) <=> HasId(m0, b, j)
         /\ SameRecord(m0, m, b)
<1> DEFINE u == Cell(m0, b)
           v == Cell(m0, b + 1)
           n == NextRecord(m0, b)
<1>1. /\ u \in Nat /\ v \in Nat /\ b + 1 \in Nat /\ b + 2 \in Nat
      /\ n \in Nat /\ n = b + 3 + u + v
  <2>1. b + 1 \in Nat /\ b + 2 \in Nat
    OBVIOUS
  <2> QED
    BY <2>1, CellFacts, NextRecordFacts
<1> HIDE DEF u, v, n
<1>2. Cell(m, b) = u /\ Cell(m, b + 1) = v /\ Cell(m, b + 2) = Cell(m0, b + 2)
  <2>1. b < n /\ b <= b /\ b + 1 < n /\ b <= b + 1 /\ b + 2 < n /\ b <= b + 2
    BY <1>1
  <2>2. \A x \in Nat : b <= x /\ x < n => Cell(m, x) = Cell(m0, x)
    BY DEF n
  <2>3. Cell(m, b) = Cell(m0, b) /\ Cell(m, b + 1) = Cell(m0, b + 1)
        /\ Cell(m, b + 2) = Cell(m0, b + 2)
    BY <1>1, <2>1, <2>2
  <2> QED
    BY <2>3 DEF u, v
<1>3. NextRecord(m, b) = NextRecord(m0, b)
  BY <1>2 DEF NextRecord, u, v
<1>4. \A j \in Key : HasId(m, b, j) <=> HasId(m0, b, j)
  <2>1. \A x \in Nat : b + 3 <= x /\ x < b + 3 + u => b <= x /\ x < n
    BY <1>1
  <2>2. \A x \in Nat : b + 3 <= x /\ x < b + 3 + Cell(m0, b) => Cell(m, x) = Cell(m0, x)
    BY <2>1 DEF u, n
  <2>3. Cell(m, b) = Cell(m0, b)
    BY <1>2 DEF u
  <2> QED
    BY <2>2, <2>3, IdKept
<1>5. ASSUME NEW len PROVE ReadAt(m, b, len) = ReadAt(m0, b, len)
  <2>1. ASSUME v = len
        PROVE  Read(m, b + 3 + u, len) = Read(m0, b + 3 + u, len)
    <3> DEFINE a == b + 3 + u
    <3>1. a \in Nat /\ len \in Nat
      BY <1>1, <2>1
    <3>2. ASSUME NEW i \in 1 .. len PROVE Cell(m, a + i - 1) = Cell(m0, a + i - 1)
      <4>1. a + i - 1 \in Nat /\ b <= a + i - 1 /\ a + i - 1 < n
        BY <1>1, <2>1
      <4> QED
        BY <4>1 DEF n
    <3> HIDE DEF a
    <3>3. Read(m, a, len) = Read(m0, a, len)
      <4>1. Agree(m0, m, a, len)
        BY <3>2, Zenon DEF Agree
      <4> QED
        BY <4>1, ReadKept, SMT
    <3> QED
      BY <3>3 DEF a
  <2>2. Cell(m, b) = Cell(m0, b) /\ Cell(m, b + 1) = Cell(m0, b + 1)
    BY <1>2 DEF u, v
  <2>3. Cell(m0, b + 1) = len => Read(m, b + HeaderLen + Cell(m0, b), len)
                                   = Read(m0, b + HeaderLen + Cell(m0, b), len)
    BY <2>1 DEF HeaderLen, u, v
  <2> QED
    BY <1>2, <2>2, <2>3, Zenon DEF ReadAt
<1>6. ASSUME NEW V, Made(m0, b, V) PROVE Made(m, b, V)
  <2>1. /\ \E x \in V : Len(x) = v /\ Cell(m0, b + 2) = Crc(u, x)
        /\ \A i \in 1 .. v : Known(Cell(m0, b + 3 + u + i - 1), i, V, v)
    BY <1>6, Zenon DEF Made, u, v
  <2>2. ASSUME NEW i \in 1 .. v
        PROVE  Cell(m, b + 3 + u + i - 1) = Cell(m0, b + 3 + u + i - 1)
    <3> DEFINE a == b + 3 + u + i - 1
    <3>1. a \in Nat /\ b <= a /\ a < n
      BY <1>1
    <3> HIDE DEF a
    <3>2. Cell(m, a) = Cell(m0, a)
      BY <3>1 DEF n
    <3> QED
      BY <3>2 DEF a
  <2>3. \A i \in 1 .. v : Known(Cell(m, b + 3 + u + i - 1), i, V, v)
    BY <2>1, <2>2, Zenon
  <2> QED
    BY <1>2, <2>1, <2>3, Zenon DEF Made
<1> QED
  BY <1>2, <1>3, <1>4, <1>5, <1>6 DEF Ends, u, SameRecord

LEMMA MixCells ==
  ASSUME NEW m0 \in [Addr -> Cells], NEW a \in Nat, NEW rec \in Seq(Cells),
         a + Len(rec) <= End, NEW t \in 0 .. Len(rec), NEW x \in Nat
  PROVE  /\ x < a \/ x >= a + t => Cell(Mix(m0, a, rec, t), x) = Cell(m0, x)
         /\ a <= x /\ x < a + t => Cell(Mix(m0, a, rec, t), x) = rec[x - a + 1]
<1> DEFINE m == Mix(m0, a, rec, t)
<1>1. Len(rec) \in Nat /\ t \in Nat /\ t <= Len(rec) /\ End \in Nat
  BY SizeAssumption
<1>2. x \in Addr => m[x] = IF x - a \in 0 .. t - 1 THEN rec[x - a + 1] ELSE m0[x]
  BY Zenon DEF Mix
<1>3. x \in Addr <=> x < End
  BY <1>1 DEF Addr
<1>4. x - a \in 0 .. t - 1 <=> a <= x /\ x < a + t
  BY <1>1
<1>5. ~(x \in Addr) => Cell(m, x) = Cell(m0, x)
  BY DEF Cell
<1>6. x \in Addr => Cell(m, x) = m[x] /\ Cell(m0, x) = m0[x]
  BY DEF Cell
<1> HIDE DEF m
<1>7. a <= x /\ x < a + t => x \in Addr
  BY <1>1, <1>3
<1>8. ~(x < a /\ a <= x) /\ ~(x >= a + t /\ x < a + t)
  BY <1>1
<1> QED
  BY <1>2, <1>4, <1>5, <1>6, <1>7, <1>8 DEF m

\* The chain of a store: all is erased behind it, and no id is in it twice.
Sound(m, C, e) ==
  /\ Chain(m, C, e)
  /\ \A x \in Nat : x >= e => Cell(m, x) = Erased
  /\ \A a, b \in C, k \in Key : HasId(m, a, k) /\ HasId(m, b, k) => a = b

LEMMA FindSound ==
  ASSUME NEW m \in [Addr -> Cells], NEW C, NEW e, Sound(m, C, e), NEW k \in Key
  PROVE  /\ \A a \in C : HasId(m, a, k) => Find(m, k) = At(a)
         /\ (\A a \in C : ~HasId(m, a, k)) => Find(m, k) = Missing(e)
  BY FindInChain DEF Sound

\* The cells of a record that is written up to its cell t.
LEMMA RecordCells ==
  ASSUME NEW m0 \in [Addr -> Cells], NEW a \in Nat, NEW k \in Key, NEW d \in Data,
         a + RecLen(k, d) <= End, NEW t \in 0 .. RecLen(k, d),
         NEW m, m = Mix(m0, a, Rec(k, d), t)
  PROVE  /\ m \in [Addr -> Cells]
         /\ \A x \in Nat : x < a \/ x >= a + t => Cell(m, x) = Cell(m0, x)
         /\ \A i \in 1 .. t : Cell(m, a + i - 1) = Rec(k, d)[i]
<1> DEFINE n == Len(idOf[k])
           l == Len(d)
           rec == Rec(k, d)
<1>1. /\ idOf[k] \in Seq(Cells) /\ n \in Nat /\ n \in 1 .. Erased - 1
      /\ d \in Seq(Cells) /\ l \in Nat /\ l \in 1 .. Erased - 1
      /\ rec \in Seq(Cells) /\ Len(rec) = RecLen(k, d) /\ RecLen(k, d) \in Nat
      /\ rec[1] = n /\ rec[2] = l /\ rec[3] = Crc(n, d)
      /\ \A i \in 1 .. n : rec[3 + i] = idOf[k][i]
      /\ \A i \in 1 .. l : rec[3 + n + i] = d[i]
  BY RecFields
<1>2. RecLen(k, d) = 3 + n + l
  BY DEF RecLen, HeaderLen
<1> HIDE DEF n, l, rec
<1>3. m = Mix(m0, a, rec, t) /\ t \in 0 .. Len(rec) /\ a + Len(rec) <= End /\ t \in Nat
  BY <1>1 DEF rec
<1>4. m \in [Addr -> Cells]
  BY <1>1, <1>3, MixType
<1>5. ASSUME NEW x \in Nat
      PROVE  /\ x < a \/ x >= a + t => Cell(m, x) = Cell(m0, x)
             /\ a <= x /\ x < a + t => Cell(m, x) = rec[x - a + 1]
  <2>1. rec \in Seq(Cells)
    BY <1>1
  <2> QED
    BY <1>3, <2>1, MixCells
<1>6. ASSUME NEW i \in 1 .. t PROVE Cell(m, a + i - 1) = rec[i]
  <2>1. a + i - 1 \in Nat /\ a <= a + i - 1 /\ a + i - 1 < a + t /\ (a + i - 1) - a + 1 = i
    BY <1>3
  <2> QED
    BY <1>5, <2>1
<1> QED
  BY <1>4, <1>5, <1>6 DEF rec

\* The checksum and the data of a record that is written up to its cell t.
DataWritten(m, a, k, d, t) ==
  /\ t >= 3 => Cell(m, a + 2) = Crc(Len(idOf[k]), d)
  /\ \A i \in 1 .. Len(d) : 3 + Len(idOf[k]) + i <= t
                         => Cell(m, a + 3 + Len(idOf[k]) + i - 1) = d[i]

LEMMA RecordData ==
  ASSUME NEW m0 \in [Addr -> Cells], NEW a \in Nat, NEW k \in Key, NEW d \in Data,
         a + RecLen(k, d) <= End, NEW t \in 0 .. RecLen(k, d),
         NEW m, m = Mix(m0, a, Rec(k, d), t)
  PROVE  DataWritten(m, a, k, d, t)
<1> DEFINE n == Len(idOf[k])
           l == Len(d)
           rec == Rec(k, d)
<1>1. /\ idOf[k] \in Seq(Cells) /\ n \in Nat /\ n \in 1 .. Erased - 1
      /\ d \in Seq(Cells) /\ l \in Nat /\ l \in 1 .. Erased - 1
      /\ rec \in Seq(Cells) /\ Len(rec) = RecLen(k, d) /\ RecLen(k, d) \in Nat
      /\ rec[1] = n /\ rec[2] = l /\ rec[3] = Crc(n, d)
      /\ \A i \in 1 .. n : rec[3 + i] = idOf[k][i]
      /\ \A i \in 1 .. l : rec[3 + n + i] = d[i]
  BY RecFields
<1>2. RecLen(k, d) = 3 + n + l
  BY DEF RecLen, HeaderLen
<1> HIDE DEF n, l, rec
<1>3. t \in Nat
  BY <1>1
<1>4. /\ m \in [Addr -> Cells]
      /\ \A x \in Nat : x < a \/ x >= a + t => Cell(m, x) = Cell(m0, x)
      /\ \A i \in 1 .. t : Cell(m, a + i - 1) = rec[i]
  BY RecordCells DEF rec
<1>5. ASSUME NEW i \in Nat, 1 <= i, i <= t PROVE Cell(m, a + i - 1) = rec[i]
  BY <1>3, <1>4, <1>5
<1>6. ASSUME t >= 3 PROVE Cell(m, a + 2) = Crc(n, d)
  <2>1. a + 3 - 1 = a + 2 /\ 3 \in Nat /\ 1 <= 3
    OBVIOUS
  <2>2. Cell(m, a + 3 - 1) = rec[3]
    BY <1>3, <1>5, <1>6, <2>1
  <2>3. rec[3] = Crc(n, d)
    BY <1>1
  <2> QED
    BY <2>1, <2>2, <2>3
<1>7. ASSUME NEW i \in 1 .. l, 3 + n + i <= t PROVE Cell(m, a + 3 + n + i - 1) = d[i]
  <2>1. 3 + n + i \in Nat /\ 1 <= 3 + n + i /\ a + (3 + n + i) - 1 = a + 3 + n + i - 1
    <3>1. n \in Nat /\ l \in Nat
      BY <1>1
    <3> QED
      BY <3>1
  <2>2. Cell(m, a + (3 + n + i) - 1) = rec[3 + n + i]
    BY <1>5, <1>7, <2>1
  <2> QED
    BY <1>1, <2>1, <2>2
<1> QED
  BY <1>6, <1>7 DEF n, l, DataWritten

\* The record that config_write() writes, complete: it has the id, and reads as written.
LEMMA RecordWritten ==
  ASSUME NEW m0 \in [Addr -> Cells], NEW a \in Nat, NEW k \in Key, NEW d \in Data,
         a + RecLen(k, d) <= End, NEW t \in 0 .. RecLen(k, d),
         NEW m, m = Mix(m0, a, Rec(k, d), t)
  PROVE  /\ m \in [Addr -> Cells]
         /\ \A x \in Nat : x < a \/ x >= a + t => Cell(m, x) = Cell(m0, x)
         /\ t >= 1 => Cell(m, a) = Len(idOf[k])
         /\ t >= 2 => Cell(m, a + 1) = Len(d)
         /\ t >= 3 + Len(idOf[k]) => HasId(m, a, k)
         /\ t = RecLen(k, d) => ReadAt(m, a, Len(d)) = [rv |-> "OK", data |-> d]
         /\ \A i \in 1 .. Len(idOf[k]) : 3 + i <= t => Cell(m, a + 3 + i - 1) = idOf[k][i]
<1> DEFINE n == Len(idOf[k])
           l == Len(d)
           rec == Rec(k, d)
<1>1. /\ idOf[k] \in Seq(Cells) /\ n \in Nat /\ n \in 1 .. Erased - 1
      /\ d \in Seq(Cells) /\ l \in Nat /\ l \in 1 .. Erased - 1
      /\ rec \in Seq(Cells) /\ Len(rec) = RecLen(k, d) /\ RecLen(k, d) \in Nat
      /\ rec[1] = n /\ rec[2] = l /\ rec[3] = Crc(n, d)
      /\ \A i \in 1 .. n : rec[3 + i] = idOf[k][i]
      /\ \A i \in 1 .. l : rec[3 + n + i] = d[i]
  BY RecFields
<1>2. RecLen(k, d) = 3 + n + l
  BY DEF RecLen, HeaderLen
<1> HIDE DEF n, l, rec
<1>3. t \in Nat
  BY <1>1
<1>4. /\ m \in [Addr -> Cells]
      /\ \A x \in Nat : x < a \/ x >= a + t => Cell(m, x) = Cell(m0, x)
      /\ \A i \in 1 .. t : Cell(m, a + i - 1) = rec[i]
  BY RecordCells DEF rec
<1>5. ASSUME NEW i \in Nat, 1 <= i, i <= t PROVE Cell(m, a + i - 1) = rec[i]
  BY <1>3, <1>4, <1>5
<1>7. ASSUME t >= 1 PROVE Cell(m, a) = n
  <2>1. a + 1 - 1 = a /\ 1 \in Nat /\ 1 <= 1
    OBVIOUS
  <2>2. Cell(m, a + 1 - 1) = rec[1]
    BY <1>3, <1>5, <1>7, <2>1
  <2>3. rec[1] = n
    BY <1>1
  <2> QED
    BY <2>1, <2>2, <2>3
<1>8. ASSUME t >= 2 PROVE Cell(m, a + 1) = l
  <2>1. a + 2 - 1 = a + 1 /\ 2 \in Nat /\ 1 <= 2
    OBVIOUS
  <2>2. Cell(m, a + 2 - 1) = rec[2]
    BY <1>3, <1>5, <1>8, <2>1
  <2>3. rec[2] = l
    BY <1>1
  <2> QED
    BY <2>1, <2>2, <2>3
<1>9. ASSUME NEW i \in 1 .. n, 3 + i <= t PROVE Cell(m, a + 3 + i - 1) = idOf[k][i]
  <2>1. 3 + i \in Nat /\ 1 <= 3 + i /\ a + (3 + i) - 1 = a + 3 + i - 1
    BY <1>1
  <2>2. Cell(m, a + (3 + i) - 1) = rec[3 + i]
    BY <1>5, <1>9, <2>1
  <2> QED
    BY <1>1, <2>1, <2>2
<1>10. ASSUME t >= 3 + n PROVE HasId(m, a, k)
  <2>1. Cell(m, a) = n
    BY <1>1, <1>3, <1>7, <1>10
  <2>2. ASSUME NEW i \in 1 .. n PROVE Cell(m, a + 3 + i - 1) = idOf[k][i]
    BY <1>1, <1>3, <1>9, <1>10
  <2>3. Read(m, a + 3, n) = [i \in 1 .. n |-> idOf[k][i]]
    BY <2>2, Zenon DEF Read
  <2>4. [i \in 1 .. n |-> idOf[k][i]] = idOf[k]
    <3>1. idOf[k] \in Seq(Cells)
      BY <1>1
    <3> QED
      BY <3>1 DEF n
  <2> QED
    BY <2>1, <2>3, <2>4 DEF HasId, HeaderLen, n
<1>6. DataWritten(m, a, k, d, t)
  BY RecordData
<1>11. t >= 3 => Cell(m, a + 2) = Crc(n, d)
  BY <1>6 DEF n, DataWritten
<1>12. \A i \in 1 .. l : 3 + n + i <= t => Cell(m, a + 3 + n + i - 1) = d[i]
  BY <1>6 DEF n, l, DataWritten
<1>13. ASSUME t = RecLen(k, d) PROVE ReadAt(m, a, l) = [rv |-> "OK", data |-> d]
  <2>1. Cell(m, a) = n /\ Cell(m, a + 1) = l /\ Cell(m, a + 2) = Crc(n, d)
    BY <1>1, <1>2, <1>7, <1>8, <1>11, <1>13
  <2>2. ASSUME NEW i \in 1 .. l PROVE Cell(m, a + 3 + n + i - 1) = d[i]
    <3>1. 3 + n + i <= t
      BY <1>1, <1>2, <1>13
    <3> QED
      BY <1>12, <3>1
  <2>3. Read(m, a + 3 + n, l) = [i \in 1 .. l |-> d[i]]
    BY <2>2, Zenon DEF Read
  <2>4. [i \in 1 .. l |-> d[i]] = d
    BY <1>1 DEF l
  <2> QED
    BY <2>1, <2>3, <2>4, Zenon DEF ReadAt, HeaderLen
<1> QED
  BY <1>4, <1>7, <1>8, <1>9, <1>10, <1>13 DEF n, l

LEMMA MadeOfMore ==
  ASSUME NEW m, NEW a, NEW V, NEW W, V \subseteq W, Made(m, a, V)
  PROVE  Made(m, a, W)
<1>1. \A c, i, l : Known(c, i, V, l) => Known(c, i, W, l)
  BY DEF Known
<1> QED
  BY <1>1, Zenon DEF Made

\* A record whose header is written is made of what is written, and of what the cells
\* of its data that are not held before.
LEMMA RecordMade ==
  ASSUME NEW m0 \in [Addr -> Cells], NEW a \in Nat, NEW k \in Key, NEW d \in Data,
         a + RecLen(k, d) <= End, NEW t \in 0 .. RecLen(k, d), t >= 3,
         NEW m, m = Mix(m0, a, Rec(k, d), t), NEW V,
         \A i \in 1 .. Len(d) : 3 + Len(idOf[k]) + i > t =>
           Known(Cell(m0, a + 3 + Len(idOf[k]) + i - 1), i, V, Len(d))
  PROVE  Made(m, a, V \cup {d})
<1> DEFINE n == Len(idOf[k])
           l == Len(d)
           W == V \cup {d}
<1>1. n \in Nat /\ l \in Nat /\ t \in Nat
  BY RecFields
<1>2. /\ \A x \in Nat : x >= a + t => Cell(m, x) = Cell(m0, x)
      /\ Cell(m, a) = n /\ Cell(m, a + 1) = l /\ Cell(m, a + 2) = Crc(n, d)
      /\ \A i \in 1 .. l : 3 + n + i <= t => Cell(m, a + 3 + n + i - 1) = d[i]
  <2>1. t >= 1 /\ t >= 2
    BY <1>1
  <2>2. /\ \A x \in Nat : x < a \/ x >= a + t => Cell(m, x) = Cell(m0, x)
        /\ t >= 1 => Cell(m, a) = Len(idOf[k])
        /\ t >= 2 => Cell(m, a + 1) = Len(d)
    BY RecordWritten
  <2>3. DataWritten(m, a, k, d, t)
    BY RecordData
  <2> QED
    BY <2>1, <2>2, <2>3 DEF DataWritten
<1>3. \A i \in 1 .. l : 3 + n + i > t => Known(Cell(m0, a + 3 + n + i - 1), i, V, l)
  OBVIOUS
<1> HIDE DEF n, l
<1>4. ASSUME NEW i \in 1 .. l PROVE Known(Cell(m, a + 3 + n + i - 1), i, W, l)
  <2>1. CASE 3 + n + i <= t
    <3>1. Cell(m, a + 3 + n + i - 1) = d[i]
      BY <1>2, <2>1
    <3> QED
      BY <3>1 DEF Known, l
  <2>2. CASE 3 + n + i > t
    <3>1. a + 3 + n + i - 1 \in Nat /\ a + 3 + n + i - 1 >= a + t
      BY <1>1, <2>2
    <3>2. Cell(m, a + 3 + n + i - 1) = Cell(m0, a + 3 + n + i - 1)
      BY <1>2, <3>1
    <3>3. Known(Cell(m0, a + 3 + n + i - 1), i, V, l)
      BY <1>3, <2>2
    <3> QED
      BY <3>2, <3>3 DEF Known
  <2> QED
    BY <1>1, <2>1, <2>2
<1>5. \E v \in W : Len(v) = l /\ Cell(m, a + 2) = Crc(n, v)
  BY <1>2 DEF l
<1> QED
  BY <1>2, <1>4, <1>5, Zenon DEF Made

\* So is one that is written over, up to whatever cell.
LEMMA Remade ==
  ASSUME NEW m0 \in [Addr -> Cells], NEW a \in Nat, NEW k \in Key, NEW d \in Data,
         HasId(m0, a, k), Cell(m0, a + 1) = Len(d), a + RecLen(k, d) <= End,
         NEW t \in 0 .. RecLen(k, d), NEW m, m = Mix(m0, a, Rec(k, d), t)
  PROVE  /\ \A V : Made(m0, a, V) => Made(m, a, V \cup {d})
         /\ t = RecLen(k, d) => Made(m, a, {d})
<1> DEFINE n == Len(idOf[k])
           l == Len(d)
<1>1. n \in Nat /\ l \in Nat /\ t \in Nat /\ RecLen(k, d) = 3 + n + l
  BY RecFields DEF RecLen, HeaderLen
<1>2. Cell(m0, a) = n /\ Cell(m0, a + 1) = l
  BY DEF HasId
<1>3. ASSUME NEW V, Made(m0, a, V) PROVE Made(m, a, V \cup {d})
  <2>1. /\ \E v \in V : Len(v) = l /\ Cell(m0, a + 2) = Crc(n, v)
        /\ \A i \in 1 .. l : Known(Cell(m0, a + 3 + n + i - 1), i, V, l)
    BY <1>2, <1>3, Zenon DEF Made
  <2>2. CASE t >= 3
    BY <2>1, <2>2, RecordMade
  <2>3. CASE t < 3
    <3>1. /\ \A x \in Nat : x < a \/ x >= a + t => Cell(m, x) = Cell(m0, x)
          /\ t >= 1 => Cell(m, a) = n
          /\ t >= 2 => Cell(m, a + 1) = l
      BY RecordWritten
    <3> HIDE DEF n, l
    <3>2. a \in Nat /\ a + 1 \in Nat /\ a + 2 \in Nat /\ a + 2 >= a + t
          /\ (t < 1 => a >= a + t) /\ (t < 2 => a + 1 >= a + t)
      BY <1>1, <2>3
    <3>3. Cell(m, a) = n /\ Cell(m, a + 1) = l /\ Cell(m, a + 2) = Cell(m0, a + 2)
      BY <1>1, <1>2, <3>1, <3>2
    <3>4. ASSUME NEW i \in 1 .. l
          PROVE  Cell(m, a + 3 + n + i - 1) = Cell(m0, a + 3 + n + i - 1)
      <4>1. a + 3 + n + i - 1 \in Nat /\ a + 3 + n + i - 1 >= a + t
        BY <1>1, <2>3
      <4> QED
        BY <3>1, <4>1
    <3>5. \A i \in 1 .. l : Known(Cell(m, a + 3 + n + i - 1), i, V, l)
      BY <2>1, <3>4, Zenon
    <3>6. Made(m, a, V)
      BY <2>1, <3>3, <3>5, Zenon DEF Made
    <3> QED
      BY <3>6, MadeOfMore
  <2> QED
    BY <1>1, <2>2, <2>3
<1>4. ASSUME t = RecLen(k, d) PROVE Made(m, a, {d})
  <2> HIDE DEF n, l
  <2>1. t >= 3 /\ \A i \in 1 .. l : ~(3 + n + i > t)
    BY <1>1, <1>4
  <2>2. Made(m, a, {} \cup {d})
    BY <2>1, RecordMade DEF n, l
  <2> QED
    BY <2>2
<1> QED
  BY <1>3, <1>4

\* Writing over a record of the same length, up to any of its cells, leaves the chain
\* and every other record as they are.
LEMMA Overwritten ==
  ASSUME NEW m0 \in [Addr -> Cells], NEW C, NEW e, Sound(m0, C, e),
         NEW k \in Key, NEW d \in Data, NEW a \in C, HasId(m0, a, k),
         Cell(m0, a + 1) = Len(d), a + RecLen(k, d) <= End,
         NEW t \in 0 .. RecLen(k, d), NEW m, m = Mix(m0, a, Rec(k, d), t)
  PROVE  /\ Sound(m, C, e)
         /\ \A b \in C : /\ \A j \in Key : HasId(m, b, j) <=> HasId(m0, b, j)
                         /\ b # a => SameRecord(m0, m, b)
<1> DEFINE n == Len(idOf[k])
           l == Len(d)
           r == RecLen(k, d)
<1>1. /\ n \in Nat /\ l \in Nat /\ r \in Nat /\ r = 3 + n + l
  BY RecFields DEF RecLen, HeaderLen
<1>2. /\ C \in SUBSET Nat /\ e \in Nat /\ e >= 1 /\ a \in Nat
      /\ \A b \in C : b < e /\ b >= 1 /\ ~Ends(m0, b)
  BY ChainFacts DEF Sound
<1>3. /\ m \in [Addr -> Cells]
      /\ \A x \in Nat : x < a \/ x >= a + t => Cell(m, x) = Cell(m0, x)
      /\ t >= 1 => Cell(m, a) = n
      /\ t >= 2 => Cell(m, a + 1) = l
      /\ \A i \in 1 .. n : 3 + i <= t => Cell(m, a + 3 + i - 1) = idOf[k][i]
  BY <1>2, RecordWritten
<1> HIDE DEF n, l, r
<1>4. t \in Nat /\ t <= r
  BY <1>1 DEF r
<1>5. Cell(m0, a) = n /\ Cell(m0, a + 1) = l
  BY DEF HasId, n, l
<1>6. \A i \in 1 .. n : Cell(m0, a + 3 + i - 1) = idOf[k][i]
  <2>1. Read(m0, a + 3, n) = idOf[k]
    BY DEF HasId, HeaderLen, n
  <2>2. ASSUME NEW i \in 1 .. n PROVE Read(m0, a + 3, n)[i] = Cell(m0, a + 3 + i - 1)
    BY Zenon DEF Read
  <2> QED
    BY <2>1, <2>2
<1>7. NextRecord(m0, a) = a + r
  <2>1. NextRecord(m0, a) = a + 3 + n + l
    BY <1>5 DEF NextRecord, HeaderLen
  <2> QED
    BY <1>1, <1>2, <2>1
<1>8. \A x \in Nat : x < a \/ x >= a + r => Cell(m, x) = Cell(m0, x)
  <2>1. \A x \in Nat : x >= a + r => x >= a + t
    BY <1>1, <1>2, <1>4
  <2> QED
    BY <1>3, <2>1
<1>9. Cell(m, a) = Cell(m0, a) /\ Cell(m, a + 1) = Cell(m0, a + 1)
  <2>1. CASE t = 0
    <3>1. a >= a + t /\ a + 1 >= a + t /\ a + 1 \in Nat
      BY <1>2, <2>1
    <3> QED
      BY <1>2, <1>3, <3>1
  <2>2. CASE t = 1
    <3>1. a + 1 >= a + t /\ a + 1 \in Nat /\ t >= 1
      BY <1>2, <2>2
    <3> QED
      BY <1>3, <1>5, <3>1
  <2>3. CASE t >= 2
    <3>1. t >= 1
      BY <1>4, <2>3
    <3> QED
      BY <1>3, <1>5, <2>3, <3>1
  <2> QED
    BY <1>4, <2>1, <2>2, <2>3
<1>10. \A j \in Key : HasId(m, a, j) <=> HasId(m0, a, j)
  <2>1. ASSUME NEW x \in Nat, a + 3 <= x, x < a + 3 + n PROVE Cell(m, x) = Cell(m0, x)
    <3> DEFINE i == x - a - 2
    <3>1. i \in 1 .. n /\ a + 3 + i - 1 = x
      BY <1>1, <1>2, <2>1
    <3>2. 3 + i <= t \/ x >= a + t
      BY <1>2, <1>4, <2>1
    <3> HIDE DEF i
    <3>3. CASE 3 + i <= t
      <4>1. Cell(m, a + 3 + i - 1) = idOf[k][i] /\ Cell(m0, a + 3 + i - 1) = idOf[k][i]
        BY <1>3, <1>6, <3>1, <3>3
      <4> QED
        BY <3>1, <4>1
    <3>4. CASE x >= a + t
      BY <1>3, <3>4
    <3> QED
      BY <3>2, <3>3, <3>4
  <2> QED
    BY <1>2, <1>3, <1>5, <1>9, <2>1, IdKept
<1>11. ASSUME NEW b \in C, b # a
       PROVE  \A x \in Nat : b <= x /\ x < NextRecord(m0, b) => Cell(m, x) = Cell(m0, x)
  <2> SUFFICES ASSUME NEW x \in Nat, b <= x, x < NextRecord(m0, b)
               PROVE  x < a \/ x >= a + r
    BY <1>8
  <2>1. b \in Nat /\ NextRecord(m0, b) \in Nat
    BY <1>2, NextRecordFacts
  <2>2. (b < a => NextRecord(m0, b) <= a) /\ (a < b => a + r <= b)
    BY <1>7 DEF Sound, Chain
  <2> QED
    BY <1>1, <1>2, <2>1, <2>2, <1>11
<1>12. ASSUME NEW b \in C, b # a
       PROVE  /\ NextRecord(m, b) = NextRecord(m0, b)
              /\ Ends(m, b) <=> Ends(m0, b)
              /\ \A j \in Key : HasId(m, b, j) <=> HasId(m0, b, j)
              /\ SameRecord(m0, m, b)
  <2>1. b \in Nat
    BY <1>2
  <2> QED
    BY <1>3, <1>11, <1>12, <2>1, RecordKept
<1>13. NextRecord(m, a) = NextRecord(m0, a) /\ (Ends(m, a) <=> Ends(m0, a))
  BY <1>9 DEF NextRecord, Ends
<1>14. ASSUME NEW b \in C
       PROVE  /\ NextRecord(m, b) = NextRecord(m0, b)
              /\ Ends(m, b) <=> Ends(m0, b)
              /\ \A j \in Key : HasId(m, b, j) <=> HasId(m0, b, j)
  BY <1>10, <1>12, <1>13
<1>15. \A x \in Nat : x >= e => Cell(m, x) = Erased
  <2>1. a + r <= e
    BY <1>7 DEF Sound, Chain
  <2>2. \A x \in Nat : x >= e => x >= a + r
    BY <1>1, <1>2, <2>1
  <2> QED
    BY <1>8, <2>2 DEF Sound
<1>16. Chain(m, C, e)
  <2>1. Ends(m, e)
    <3>1. e >= e
      BY <1>2
    <3> QED
      BY <1>2, <1>15, <3>1 DEF Ends
  <2> QED
    BY <1>14, <2>1 DEF Sound, Chain
<1>17. Sound(m, C, e)
  BY <1>14, <1>15, <1>16 DEF Sound
<1> QED
  BY <1>12, <1>14, <1>17

\* From m0 to m, the chain went on to e2, with the first t cells of a record of key k.
Longer(m0, m, C, e, e2, k, d, t) ==
  /\ Sound(m, C \cup {e}, e2)
  /\ t >= 2 => e2 < End
  /\ \A b \in C : /\ \A j \in Key : HasId(m, b, j) <=> HasId(m0, b, j)
                  /\ SameRecord(m0, m, b)
  /\ \A j \in Key : HasId(m, e, j) => j = k
  /\ t = RecLen(k, d) => HasId(m, e, k)
  /\ HasId(m, e, k) => Made(m, e, {d})

\* Writing a new record at the end of the chain, up to any of its cells but the first,
\* makes the chain longer by one: by what the header says, or, when its second cell is
\* not written yet, by the length that an erased cell says.
LEMMA Appended ==
  ASSUME NEW m0 \in [Addr -> Cells], NEW C, NEW e, Sound(m0, C, e),
         NEW k \in Key, NEW d \in Data, \A a \in C : ~HasId(m0, a, k), Fits(e, k, d),
         NEW t \in 1 .. RecLen(k, d), NEW m, m = Mix(m0, e, Rec(k, d), t)
  PROVE  \E e2 : Longer(m0, m, C, e, e2, k, d, t)
<1> DEFINE n == Len(idOf[k])
           l == Len(d)
           r == RecLen(k, d)
<1>1. /\ n \in Nat /\ l \in Nat /\ r \in Nat /\ r = 3 + n + l
      /\ n \in 1 .. Erased - 1 /\ l \in 1 .. Erased - 1
      /\ idOf[k] \in Seq(Cells) /\ idOf[k] \in Seq(1 .. Erased - 1)
  BY RecFields, KeyAssumption DEF RecLen, HeaderLen
<1>2. /\ C \in SUBSET Nat /\ e \in Nat /\ e >= 1 /\ Ends(m0, e)
      /\ \A b \in C : b < e /\ b >= 1 /\ ~Ends(m0, b)
  BY ChainFacts DEF Sound
<1>3. e + r < End /\ End \in Nat
  <2>1. e + HeaderLen + n + l < End
    BY DEF Fits
  <2> HIDE DEF n, l, r
  <2> QED
    BY <1>1, <1>2, <2>1, SizeAssumption DEF HeaderLen
<1>4. t \in Nat /\ t >= 1 /\ t <= r /\ t \in 0 .. r /\ e + r <= End
  BY <1>1, <1>2, <1>3
<1>5. /\ m \in [Addr -> Cells]
      /\ \A x \in Nat : x < e \/ x >= e + t => Cell(m, x) = Cell(m0, x)
      /\ Cell(m, e) = n
      /\ t >= 2 => Cell(m, e + 1) = l
      /\ t >= 3 + n => HasId(m, e, k)
  <2>1. e + RecLen(k, d) <= End /\ t \in 0 .. RecLen(k, d)
    BY <1>4
  <2> HIDE DEF n, l, r
  <2> QED
    BY <1>2, <1>4, <2>1, RecordWritten DEF n, l
<1> HIDE DEF n, l, r
<1>6. \A x \in Nat : x >= e => Cell(m0, x) = Erased
  BY DEF Sound
<1>7. \A x \in Nat : x >= e + t => Cell(m, x) = Erased
  <2>1. \A x \in Nat : x >= e + t => x >= e
    BY <1>2, <1>4
  <2> QED
    BY <1>5, <1>6, <2>1
<1> DEFINE e2 == NextRecord(m, e)
<1>8. /\ e2 \in Nat /\ e2 >= e + t /\ e2 > e
      /\ t >= 2 => e2 < End
  <2>1. e2 = e + 3 + n + Cell(m, e + 1) /\ e2 \in Nat
    BY <1>2, <1>5, NextRecordFacts
  <2> HIDE DEF e2
  <2>2. CASE t >= 2
    BY <1>1, <1>2, <1>3, <1>4, <1>5, <2>1, <2>2
  <2>3. CASE t = 1
    <3>1. e + 1 \in Nat /\ e + 1 >= e + t
      BY <1>2, <2>3
    <3>2. Cell(m, e + 1) = Erased
      BY <1>7, <3>1
    <3> QED
      BY <1>1, <1>2, <2>1, <2>3, <3>2 DEF Erased
  <2> QED
    BY <1>4, <2>2, <2>3
<1> HIDE DEF e2
<1>9. ASSUME NEW b \in C
      PROVE  /\ NextRecord(m, b) = NextRecord(m0, b)
             /\ Ends(m, b) <=> Ends(m0, b)
             /\ \A j \in Key : HasId(m, b, j) <=> HasId(m0, b, j)
             /\ SameRecord(m0, m, b)
             /\ NextRecord(m0, b) <= e /\ NextRecord(m0, b) \in C \cup {e}
  <2>1. b \in Nat /\ NextRecord(m0, b) \in Nat /\ NextRecord(m0, b) <= e
        /\ NextRecord(m0, b) \in C \cup {e}
    BY <1>2, NextRecordFacts DEF Sound, Chain
  <2>2. \A x \in Nat : b <= x /\ x < NextRecord(m0, b) => x < e
    BY <1>2, <2>1
  <2>3. \A x \in Nat : b <= x /\ x < NextRecord(m0, b) => Cell(m, x) = Cell(m0, x)
    BY <1>5, <2>2
  <2> QED
    BY <1>5, <2>1, <2>3, RecordKept
<1>10. ASSUME NEW j \in Key, HasId(m, e, j) PROVE j = k /\ t >= 3 + n
  <2>1. Len(idOf[j]) = n /\ Read(m, e + 3, n) = idOf[j] /\ idOf[j] \in Seq(1 .. Erased - 1)
    BY <1>5, <1>10, KeyAssumption DEF HasId, HeaderLen
  <2>2. CASE t < 3 + n
    <3>1. e + 3 + n - 1 \in Nat /\ e + 3 + n - 1 >= e + t /\ n \in 1 .. n
      BY <1>1, <1>2, <1>4, <2>2
    <3>2. Cell(m, e + 3 + n - 1) = Erased
      BY <1>7, <3>1
    <3>3. Read(m, e + 3, n)[n] = Cell(m, e + 3 + n - 1)
      BY <3>1, Zenon DEF Read
    <3>4. idOf[j][n] \in 1 .. Erased - 1
      <4>1. \A s \in Seq(1 .. Erased - 1) : \A i \in 1 .. Len(s) : s[i] \in 1 .. Erased - 1
        BY ElementOfSeq
      <4> QED
        BY <2>1, <3>1, <4>1
    <3>5. ~(Erased \in 1 .. Erased - 1)
      BY DEF Erased
    <3> QED
      BY <2>1, <3>2, <3>3, <3>4, <3>5
  <2>3. CASE t >= 3 + n
    <3>1. Read(m, e + 3, n) = idOf[k]
      BY <1>5, <2>3 DEF HasId, HeaderLen, n
    <3> QED
      BY <2>1, <2>3, <3>1, KeyAssumption
  <2> QED
    BY <1>1, <1>4, <2>2, <2>3
<1>11. ~Ends(m, e)
  <2>1. \A u \in 1 .. Erased - 1 : u # 0 /\ u # 255
    BY DEF Erased
  <2> QED
    BY <1>1, <1>5, <2>1 DEF Ends, Hole, Erased
<1>12. \A x \in Nat : x >= e2 => Cell(m, x) = Erased
  <2>1. \A x \in Nat : x >= e2 => x >= e + t
    BY <1>2, <1>4, <1>8
  <2> QED
    BY <1>7, <2>1
<1>13. Chain(m, C \cup {e}, e2)
  <2> DEFINE D == C \cup {e}
  <2>1. D \in SUBSET Nat /\ e2 \in Nat /\ StoreHeaderLen \in D \cup {e2}
    BY <1>2, <1>8 DEF Sound, Chain
  <2>2. Ends(m, e2)
    <3>1. e2 >= e2
      BY <1>8
    <3> QED
      BY <1>8, <1>12, <3>1 DEF Ends
  <2>3. ASSUME NEW a \in D
        PROVE  /\ 1 <= a /\ ~Ends(m, a)
               /\ NextRecord(m, a) \in D \cup {e2} /\ NextRecord(m, a) <= e2
               /\ \A b \in D : a < b => NextRecord(m, a) <= b
    <3>1. CASE a = e
      <4>1. \A b \in D : ~(e < b)
        BY <1>2
      <4>2. NextRecord(m, a) = e2 /\ e2 <= e2
        BY <1>8, <3>1 DEF e2
      <4> QED
        BY <1>2, <1>11, <3>1, <4>1, <4>2
    <3>2. CASE a \in C
      <4>1. /\ a \in Nat /\ a >= 1 /\ ~Ends(m, a) /\ NextRecord(m, a) \in Nat
            /\ NextRecord(m, a) \in C \cup {e} /\ NextRecord(m, a) <= e
        BY <1>2, <1>5, <1>9, <3>2, NextRecordFacts
      <4>2. \A b \in C : a < b => NextRecord(m, a) <= b
        BY <1>9, <3>2 DEF Sound, Chain
      <4>3. NextRecord(m, a) <= e2
        BY <1>2, <1>8, <4>1
      <4> QED
        BY <4>1, <4>2, <4>3
    <3> QED
      BY <3>1, <3>2
  <2> QED
    BY <2>1, <2>2, <2>3 DEF Chain
<1>14. \A a, b \in C \cup {e}, j \in Key : HasId(m, a, j) /\ HasId(m, b, j) => a = b
  BY <1>9, <1>10 DEF Sound
<1>15. Sound(m, C \cup {e}, e2)
  BY <1>12, <1>13, <1>14 DEF Sound
<1>16. t = RecLen(k, d) => HasId(m, e, k)
  <2>1. t = r => t >= 3 + n
    BY <1>1
  <2> QED
    BY <1>5, <2>1 DEF r
<1>17. ASSUME HasId(m, e, k) PROVE Made(m, e, {d})
  <2>1. t >= 3 + n
    BY <1>10, <1>17
  <2>2. t >= 3 /\ t \in 0 .. RecLen(k, d) /\ e + RecLen(k, d) <= End
    BY <1>1, <1>4, <2>1 DEF r
  <2>3. ASSUME NEW i \in 1 .. l PROVE Known(Cell(m0, e + 3 + n + i - 1), i, {}, l)
    <3>1. e + 3 + n + i - 1 \in Nat /\ e + 3 + n + i - 1 >= e
      BY <1>1, <1>2
    <3> QED
      BY <1>6, <3>1 DEF Known
  <2>4. Made(m, e, {} \cup {d})
    BY <1>2, <2>2, <2>3, RecordMade DEF n, l
  <2> QED
    BY <2>4
<1> QED
  BY <1>8, <1>9, <1>10, <1>15, <1>16, <1>17 DEF Longer

\* The values that were written of key j, completely or not, since it last was completely.
Values(s, tr, j) == tr[j] \cup ({s[j]} \ {NoData})

\* If key j has a record, it is made of values of V.
MadeBy(m, j, V) == Find(m, j).found => Made(m, Find(m, j).addr, V)

\* Key j is found, or not, reads the same, and is made of the same values in two memories.
SameKey(m0, m, j) ==
  /\ Find(m, j).found = Find(m0, j).found
  /\ \A len : ConfigRead(m, j, len) = ConfigRead(m0, j, len)
  /\ \A V : MadeBy(m0, j, V) => MadeBy(m, j, V)

\* A store in which every key is found, read as it was written and made of what was
\* written, as far as the failures so far allow.
Keeps(m, s, tr, tn) ==
  /\ m[0] = Magic
  /\ \E C, e : Sound(m, C, e) /\ (~tn => e < End)
  /\ \A j \in Key :
       /\ s[j] # NoData => Find(m, j).found
       /\ s[j] # NoData /\ tr[j] = {}
            => ConfigRead(m, j, Len(s[j])) = [rv |-> "OK", data |-> s[j]]
       /\ s[j] = NoData /\ tr[j] = {} => ~Find(m, j).found
       /\ MadeBy(m, j, Values(s, tr, j))

\* The record of key k, once d is written to its cell t, is made of what it was made of
\* and of d; of d alone when it is complete.
Sourced(m0, m, k, d, t) ==
  /\ \A V : MadeBy(m0, k, V) => MadeBy(m, k, V \cup {d})
  /\ t = RecLen(k, d) => MadeBy(m, k, {d})

\* What config_write() checks before it writes d at the address that f gives.
MayWrite(m, f, k, d) ==
  /\ f = Find(m, k)
  /\ f.found => Cell(m, f.addr + 1) = Len(d)
  /\ Fits(f.addr, k, d)

LEMMA ReadsTheSame ==
  ASSUME NEW m0, NEW m, NEW j, NEW x, NEW y,
         \/ Find(m, j) = At(x) /\ Find(m0, j) = At(x)
            /\ SameRecord(m0, m, x)
         \/ Find(m, j) = Missing(x) /\ Find(m0, j) = Missing(y)
  PROVE  SameKey(m0, m, j)
<1>1. ASSUME NEW len PROVE ConfigRead(m, j, len) = ConfigRead(m0, j, len)
  BY ConfigReadAt DEF SameRecord
<1>2. /\ At(x).found = TRUE /\ Missing(x).found = FALSE /\ Missing(y).found = FALSE
      /\ At(x).addr = x
  BY DEF At, Missing
<1>3. ASSUME NEW V, MadeBy(m0, j, V) PROVE MadeBy(m, j, V)
  BY <1>2, <1>3, Zenon DEF MadeBy, SameRecord
<1> QED
  BY <1>1, <1>2, <1>3, Zenon DEF SameKey

\* A writing that got as far as cell t: every other key is found, or not found, as
\* before and reads as before; the key itself is still found if it was, and a complete
\* writing is read back.  Its record is made of the values it was made of and of the one
\* written, or of that alone when it is complete.  The chain ends inside the store, but
\* for t = 1.
LEMMA Written ==
  ASSUME NEW m0 \in [Addr -> Cells], NEW C, NEW e, Sound(m0, C, e),
         NEW k \in Key, NEW d \in Data, NEW f, MayWrite(m0, f, k, d),
         NEW t \in 0 .. RecLen(k, d), NEW m, m = Mix(m0, f.addr, Rec(k, d), t)
  PROVE  /\ m \in [Addr -> Cells] /\ m[0] = m0[0]
         /\ \E C2, e2 : /\ Sound(m, C2, e2)
                        /\ e < End => e2 < End \/ (t = 1 /\ ~f.found)
         /\ \A j \in Key \ {k} : SameKey(m0, m, j)
         /\ f.found => Find(m, k).found
         /\ Sourced(m0, m, k, d, t)
         /\ t = RecLen(k, d) => /\ Find(m, k).found
                                /\ ConfigRead(m, k, Len(d)) = [rv |-> "OK", data |-> d]
<1> DEFINE a == f.addr
           r == RecLen(k, d)
<1>1. \/ \E b \in C : HasId(m0, b, k) /\ f = At(b)
      \/ (\A b \in C : ~HasId(m0, b, k)) /\ f = Missing(e)
  <2>1. Chain(m0, C, e) /\ f = Find(m0, k)
    BY DEF Sound, MayWrite
  <2>2. \/ \E b \in C : HasId(m0, b, k) /\ Find(m0, k) = At(b)
        \/ (\A b \in C : ~HasId(m0, b, k)) /\ Find(m0, k) = Missing(e)
    BY <2>1, FindInChain
  <2> QED
    BY <2>1, <2>2
<1>2. /\ C \in SUBSET Nat /\ e \in Nat /\ e >= 1
      /\ \A b \in C : b < e /\ b >= 1
  BY ChainFacts DEF Sound
<1>3. /\ \A b : At(b).found = TRUE /\ At(b).addr = b
      /\ \A b : Missing(b).found = FALSE /\ Missing(b).addr = b
  BY DEF At, Missing
<1>4. a \in Nat /\ a >= 1
  BY <1>1, <1>2, <1>3
<1>5. r \in Nat /\ a + r < End /\ a + r <= End /\ End \in Nat
  <2>1. /\ Len(idOf[k]) \in Nat /\ Len(d) \in Nat /\ r = 3 + Len(idOf[k]) + Len(d)
    BY RecFields DEF RecLen, HeaderLen
  <2>2. a + 3 + Len(idOf[k]) + Len(d) < End
    BY DEF MayWrite, Fits, HeaderLen
  <2>3. \A x, u, v \in Nat : x + 3 + u + v = x + (3 + u + v)
    OBVIOUS
  <2>4. a + (3 + Len(idOf[k]) + Len(d)) < End
    BY <1>4, <2>1, <2>2, <2>3
  <2> HIDE DEF a, r
  <2> QED
    BY <1>4, <2>1, <2>3, <2>4, SizeAssumption
<1>6. /\ m \in [Addr -> Cells]
      /\ \A x \in Nat : x < a \/ x >= a + t => Cell(m, x) = Cell(m0, x)
      /\ t = r => ReadAt(m, a, Len(d)) = [rv |-> "OK", data |-> d]
  <2> HIDE DEF a
  <2> QED
    BY <1>4, <1>5, RecordWritten DEF a
<1>7. m[0] = m0[0]
  <2>1. 0 \in Addr /\ 0 < a /\ 0 \in Nat
    BY <1>4, <1>5 DEF Addr
  <2>2. Cell(m, 0) = Cell(m0, 0) /\ Cell(m, 0) = m[0] /\ Cell(m0, 0) = m0[0]
    BY <1>6, <2>1, CellFacts
  <2> QED
    BY <2>2
<1> HIDE DEF a, r

<1>10. ASSUME NEW b \in C, HasId(m0, b, k), f = At(b)
       PROVE  /\ Sound(m, C, e) /\ Find(m, k) = At(b) /\ a = b
              /\ Sourced(m0, m, k, d, t)
              /\ \A j \in Key \ {k} : SameKey(m0, m, j)
  <2>1. a = b /\ Cell(m0, a + 1) = Len(d) /\ a + RecLen(k, d) <= End
    BY <1>3, <1>5, <1>10 DEF MayWrite, a, r
  <2>2. /\ Sound(m, C, e)
        /\ \A x \in C : /\ \A j \in Key : HasId(m, x, j) <=> HasId(m0, x, j)
                        /\ x # a => SameRecord(m0, m, x)
    <3>1. m = Mix(m0, a, Rec(k, d), t) /\ a \in C /\ HasId(m0, a, k)
      BY <1>10, <2>1 DEF a
    <3> QED
      BY <2>1, <3>1, Overwritten
  <2>3. Find(m, k) = At(b)
    BY <1>6, <1>10, <2>2, FindSound
  <2>4. ASSUME NEW j \in Key \ {k}
        PROVE  SameKey(m0, m, j)
    <3>1. CASE \E x \in C : HasId(m0, x, j)
      <4>1. PICK x \in C : HasId(m0, x, j)
        BY <3>1
      <4>2. x # a
        <5> SUFFICES ASSUME x = a PROVE FALSE
          OBVIOUS
        <5>1. Find(m0, j) = At(a) /\ idOf[j] = idOf[k]
          BY <1>10, <2>1, <4>1, FindSound DEF HasId
        <5> QED
          BY <5>1, KeyAssumption
      <4>3. Find(m, j) = At(x) /\ Find(m0, j) = At(x)
        BY <1>6, <2>2, <4>1, FindSound
      <4> QED
        BY <2>2, <4>1, <4>2, <4>3, ReadsTheSame
    <3>2. CASE ~\E x \in C : HasId(m0, x, j)
      <4>1. Find(m, j) = Missing(e) /\ Find(m0, j) = Missing(e)
        BY <1>6, <2>2, <3>2, FindSound
      <4> QED
        BY <4>1, ReadsTheSame
    <3> QED
      BY <3>1, <3>2
  <2>5. /\ \A V : Made(m0, a, V) => Made(m, a, V \cup {d})
        /\ t = RecLen(k, d) => Made(m, a, {d})
    <3>1. m = Mix(m0, a, Rec(k, d), t) /\ HasId(m0, a, k)
      BY <1>10, <2>1 DEF a
    <3> QED
      BY <1>4, <2>1, <3>1, Remade
  <2>6. Find(m0, k) = At(a) /\ Find(m, k) = At(a)
    BY <1>10, <2>1, <2>3 DEF MayWrite
  <2>7. \A V : /\ MadeBy(m0, k, V) <=> Made(m0, a, V)
               /\ MadeBy(m, k, V) <=> Made(m, a, V)
    BY <1>3, <2>6, Zenon DEF MadeBy
  <2> QED
    BY <2>1, <2>2, <2>3, <2>4, <2>5, <2>7 DEF Sourced
<1>11. CASE \E b \in C : HasId(m0, b, k) /\ f = At(b)
  <2>1. PICK b \in C : HasId(m0, b, k) /\ f = At(b)
    BY <1>11
  <2>2. /\ Sound(m, C, e) /\ Find(m, k) = At(b) /\ a = b
        /\ Sourced(m0, m, k, d, t)
        /\ \A j \in Key \ {k} : SameKey(m0, m, j)
    BY <1>10, <2>1
  <2>3. Find(m, k).found
    BY <1>3, <2>2
  <2>4. t = RecLen(k, d) => ConfigRead(m, k, Len(d)) = [rv |-> "OK", data |-> d]
    BY <1>6, <2>2, ConfigReadAt DEF r
  <2> QED
    BY <1>6, <1>7, <2>2, <2>3, <2>4
<1>12. CASE (\A b \in C : ~HasId(m0, b, k)) /\ f = Missing(e)
  <2>1. a = e /\ f.found = FALSE /\ Find(m0, k) = Missing(e)
    BY <1>3, <1>12 DEF a, MayWrite
  <2>2. CASE t = 0
    <3>1. m = m0
      <4>1. Rec(k, d) \in Seq(Cells) /\ t \in 0 .. Len(Rec(k, d)) /\ m = Mix(m0, a, Rec(k, d), 0)
        BY <2>2, RecFields DEF a
      <4> QED
        BY <1>4, <4>1, MixType
    <3>2. t # RecLen(k, d)
      BY <2>2, RecFields DEF RecLen, HeaderLen
    <3>3. \A j \in Key \ {k} : SameKey(m0, m, j)
      BY <3>1 DEF SameKey
    <3>4. \A V : MadeBy(m, k, V)
      BY <1>3, <2>1, <3>1 DEF MadeBy
    <3> QED
      BY <1>6, <1>7, <2>1, <3>1, <3>2, <3>3, <3>4 DEF Sourced
  <2>3. CASE t # 0
    <3>0. /\ Fits(e, k, d) /\ m = Mix(m0, e, Rec(k, d), t) /\ t \in 1 .. RecLen(k, d)
          /\ \A b \in C : ~HasId(m0, b, k)
      BY <1>12, <2>1, <2>3 DEF MayWrite, a
    <3>1. PICK e2 : /\ Sound(m, C \cup {e}, e2)
                    /\ t >= 2 => e2 < End
                    /\ \A b \in C : /\ \A j \in Key : HasId(m, b, j) <=> HasId(m0, b, j)
                                    /\ SameRecord(m0, m, b)
                    /\ \A j \in Key : HasId(m, e, j) => j = k
                    /\ t = RecLen(k, d) => HasId(m, e, k)
                    /\ HasId(m, e, k) => Made(m, e, {d})
      <4>1. \E e2 : Longer(m0, m, C, e, e2, k, d, t)
        BY <3>0, Appended
      <4> QED
        BY <4>1 DEF Longer
    <3>2. t >= 2 \/ t = 1
      BY <2>3
    <3>3. ASSUME NEW j \in Key \ {k}
          PROVE  SameKey(m0, m, j)
      <4>1. CASE \E x \in C : HasId(m0, x, j)
        <5>1. PICK x \in C : HasId(m0, x, j)
          BY <4>1
        <5>2. Find(m, j) = At(x) /\ Find(m0, j) = At(x)
          BY <1>6, <3>1, <5>1, FindSound
        <5> QED
          BY <3>1, <5>1, <5>2, ReadsTheSame
      <4>2. CASE ~\E x \in C : HasId(m0, x, j)
        <5>1. Find(m, j) = Missing(e2) /\ Find(m0, j) = Missing(e)
          BY <1>6, <3>1, <4>2, FindSound
        <5> QED
          BY <5>1, ReadsTheSame
      <4> QED
        BY <4>1, <4>2
    <3>4. t = RecLen(k, d) => Find(m, k) = At(a)
      BY <1>6, <2>1, <3>1, FindSound
    <3>5. t = RecLen(k, d) => /\ Find(m, k).found
                              /\ ConfigRead(m, k, Len(d)) = [rv |-> "OK", data |-> d]
      BY <1>3, <1>6, <3>4, ConfigReadAt DEF r
    <3>6. MadeBy(m, k, {d})
      <4>1. CASE HasId(m, e, k)
        <5>1. Find(m, k) = At(e)
          BY <1>6, <3>1, <4>1, FindSound
        <5> QED
          BY <1>3, <3>1, <4>1, <5>1 DEF MadeBy
      <4>2. CASE ~HasId(m, e, k)
        <5>1. \A b \in C \cup {e} : ~HasId(m, b, k)
          BY <3>0, <3>1, <4>2
        <5>2. Find(m, k) = Missing(e2)
          BY <1>6, <3>1, <5>1, FindSound
        <5> QED
          BY <1>3, <5>2 DEF MadeBy
      <4> QED
        BY <4>1, <4>2
    <3>7. \A V : MadeBy(m, k, V \cup {d})
      BY <3>6, MadeOfMore DEF MadeBy
    <3>8. Sourced(m0, m, k, d, t)
      BY <3>6, <3>7 DEF Sourced
    <3> QED
      BY <1>6, <1>7, <2>1, <3>1, <3>2, <3>3, <3>5, <3>8
  <2> QED
    BY <2>2, <2>3
<1> QED
  BY <1>1, <1>11, <1>12

\* A writing that is cut short, wherever, is one more value that was tried.
LEMMA CutShort ==
  ASSUME NEW m0 \in [Addr -> Cells], NEW s \in [Key -> Data \cup {NoData}],
         NEW tr \in [Key -> SUBSET Data], NEW tn, Keeps(m0, s, tr, tn),
         NEW k \in Key, NEW d \in Data, NEW f, MayWrite(m0, f, k, d),
         NEW t \in 0 .. RecLen(k, d), NEW m, m = Mix(m0, f.addr, Rec(k, d), t),
         NEW tr2, tr2 = [tr EXCEPT ![k] = @ \cup {d}],
         NEW tn2 \in BOOLEAN, ~tn2 => ~tn /\ (t # 1 \/ f.found)
  PROVE  Keeps(m, s, tr2, tn2)
<1>1. PICK C, e : Sound(m0, C, e) /\ (~tn => e < End)
  BY DEF Keeps
<1>2. /\ m \in [Addr -> Cells] /\ m[0] = m0[0]
      /\ \E C2, e2 : /\ Sound(m, C2, e2)
                     /\ e < End => e2 < End \/ (t = 1 /\ ~f.found)
      /\ \A j \in Key \ {k} : SameKey(m0, m, j)
      /\ f.found => Find(m, k).found
      /\ Sourced(m0, m, k, d, t)
  BY <1>1, Written
<1>3. tr2[k] = tr[k] \cup {d} /\ tr2[k] # {} /\ \A j \in Key \ {k} : tr2[j] = tr[j]
  OBVIOUS
<1>4. s[k] # NoData => f.found
  BY DEF Keeps, MayWrite
<1>5. ASSUME NEW j \in Key
      PROVE  /\ s[j] # NoData => Find(m, j).found
             /\ s[j] # NoData /\ tr2[j] = {}
                  => ConfigRead(m, j, Len(s[j])) = [rv |-> "OK", data |-> s[j]]
             /\ s[j] = NoData /\ tr2[j] = {} => ~Find(m, j).found
             /\ MadeBy(m, j, Values(s, tr2, j))
  <2>1. CASE j = k
    <3>1. MadeBy(m0, k, Values(s, tr, k)) /\ Values(s, tr2, k) = Values(s, tr, k) \cup {d}
      BY <1>3, Zenon DEF Keeps, Values
    <3> QED
      BY <1>2, <1>3, <1>4, <2>1, <3>1 DEF Sourced
  <2>2. CASE j # k
    <3>1. /\ s[j] # NoData => Find(m0, j).found
          /\ s[j] # NoData /\ tr[j] = {}
               => ConfigRead(m0, j, Len(s[j])) = [rv |-> "OK", data |-> s[j]]
          /\ s[j] = NoData /\ tr[j] = {} => ~Find(m0, j).found
          /\ MadeBy(m0, j, Values(s, tr, j))
      BY DEF Keeps
    <3>2. /\ Find(m, j).found = Find(m0, j).found /\ tr2[j] = tr[j]
          /\ ConfigRead(m, j, Len(s[j])) = ConfigRead(m0, j, Len(s[j]))
          /\ MadeBy(m0, j, Values(s, tr, j)) => MadeBy(m, j, Values(s, tr, j))
      BY <1>2, <1>3, <2>2 DEF SameKey
    <3>3. Values(s, tr2, j) = Values(s, tr, j)
      BY <1>3, <2>2 DEF Values
    <3> QED
      BY <1>3, <2>2, <3>1, <3>2, <3>3
  <2> QED
    BY <2>1, <2>2
<1>6. \E C2, e2 : Sound(m, C2, e2) /\ (~tn2 => e2 < End)
  BY <1>1, <1>2
<1>7. m[0] = Magic
  BY <1>2 DEF Keeps
<1> QED
  BY <1>5, <1>6, <1>7 DEF Keeps

\* A writing that is completed is the value stored.
LEMMA Completed ==
  ASSUME NEW m0 \in [Addr -> Cells], NEW s \in [Key -> Data \cup {NoData}],
         NEW tr \in [Key -> SUBSET Data], NEW tn, Keeps(m0, s, tr, tn),
         NEW k \in Key, NEW d \in Data, NEW f, MayWrite(m0, f, k, d),
         NEW m, m = Mix(m0, f.addr, Rec(k, d), RecLen(k, d))
  PROVE  Keeps(m, [s EXCEPT ![k] = d], [tr EXCEPT ![k] = {}], tn)
<1> DEFINE t == RecLen(k, d)
<1>0. t \in 0 .. RecLen(k, d) /\ t # 1
  <2>1. /\ Len(idOf[k]) \in Nat /\ Len(d) \in Nat /\ t = 3 + Len(idOf[k]) + Len(d) /\ t \in Nat
    BY RecFields DEF RecLen, HeaderLen
  <2> QED
    BY <2>1
<1>1. PICK C, e : Sound(m0, C, e) /\ (~tn => e < End)
  BY DEF Keeps
<1> HIDE DEF t
<1>2. /\ m \in [Addr -> Cells] /\ m[0] = m0[0]
      /\ \E C2, e2 : /\ Sound(m, C2, e2)
                     /\ e < End => e2 < End \/ (t = 1 /\ ~f.found)
      /\ \A j \in Key \ {k} : SameKey(m0, m, j)
      /\ Find(m, k).found
      /\ ConfigRead(m, k, Len(d)) = [rv |-> "OK", data |-> d] /\ Sourced(m0, m, k, d, t)
  <2>1. m = Mix(m0, f.addr, Rec(k, d), t) /\ t = RecLen(k, d)
    BY DEF t
  <2> QED
    BY <1>0, <1>1, <2>1, Written
<1> DEFINE s2 == [s EXCEPT ![k] = d]
           tr2 == [tr EXCEPT ![k] = {}]
<1>3. /\ s2[k] = d /\ tr2[k] = {} /\ \A j \in Key \ {k} : s2[j] = s[j] /\ tr2[j] = tr[j]
      /\ d # NoData
  <2>1. Len(d) # 0
    <3>1. Len(d) \in 1 .. Erased - 1
      BY RecFields
    <3> QED
      BY <3>1
  <2> QED
    BY <2>1 DEF NoData
<1> HIDE DEF s2, tr2
<1>4. ASSUME NEW j \in Key
      PROVE  /\ s2[j] # NoData => Find(m, j).found
             /\ s2[j] # NoData /\ tr2[j] = {}
                  => ConfigRead(m, j, Len(s2[j])) = [rv |-> "OK", data |-> s2[j]]
             /\ s2[j] = NoData /\ tr2[j] = {} => ~Find(m, j).found
             /\ MadeBy(m, j, Values(s2, tr2, j))
  <2>1. CASE j = k
    <3>1. Values(s2, tr2, k) = {d} /\ MadeBy(m, k, {d})
      BY <1>2, <1>3 DEF Values, Sourced, t
    <3> QED
      BY <1>2, <1>3, <2>1, <3>1
  <2>2. CASE j # k
    <3>1. /\ s[j] # NoData => Find(m0, j).found
          /\ s[j] # NoData /\ tr[j] = {}
               => ConfigRead(m0, j, Len(s[j])) = [rv |-> "OK", data |-> s[j]]
          /\ s[j] = NoData /\ tr[j] = {} => ~Find(m0, j).found
          /\ MadeBy(m0, j, Values(s, tr, j))
      BY DEF Keeps
    <3>2. /\ Find(m, j).found = Find(m0, j).found /\ s2[j] = s[j] /\ tr2[j] = tr[j]
          /\ ConfigRead(m, j, Len(s[j])) = ConfigRead(m0, j, Len(s[j]))
          /\ MadeBy(m0, j, Values(s, tr, j)) => MadeBy(m, j, Values(s, tr, j))
      BY <1>2, <1>3, <2>2 DEF SameKey
    <3>3. Values(s2, tr2, j) = Values(s, tr, j)
      BY <1>3, <2>2 DEF Values
    <3> QED
      BY <1>3, <2>2, <3>1, <3>2, <3>3
  <2> QED
    BY <2>1, <2>2
<1>5. \E C2, e2 : Sound(m, C2, e2) /\ (~tn => e2 < End)
  BY <1>0, <1>1, <1>2
<1>6. m[0] = Magic
  BY <1>2 DEF Keeps
<1> QED
  BY <1>4, <1>5, <1>6 DEF Keeps, s2, tr2

\* A store erased to its end is empty.
LEMMA Emptied ==
  ASSUME NEW m0 \in [Addr -> Cells], NEW m, m = Mix(m0, 0, Blank(End), End)
  PROVE  Keeps(m, [k \in Key |-> NoData], [k \in Key |-> {}], FALSE)
<1>1. End \in Nat /\ End > 1
  BY SizeAssumption DEF StoreHeaderLen
<1>2. Blank(End) \in Seq(Cells) /\ Len(Blank(End)) = End
  BY <1>1, BlankCells
<1>3. m \in [Addr -> Cells]
  BY <1>1, <1>2, MixType
<1>4. ASSUME NEW x \in Nat, x < End PROVE Cell(m, x) = IF x = 0 THEN Magic ELSE Erased
  <2>1. x - 0 + 1 \in 1 .. End /\ x - 0 + 1 = x + 1 /\ (x + 1 = 1 <=> x = 0)
    BY <1>1, <1>4
  <2>2. Blank(End)[x + 1] = IF x + 1 = 1 THEN Magic ELSE Erased
    BY <2>1 DEF Blank
  <2>3. Cell(m, x) = Blank(End)[x - 0 + 1]
    <3>1. 0 + Len(Blank(End)) <= End /\ End \in 0 .. Len(Blank(End)) /\ 0 <= x /\ x < 0 + End
      BY <1>1, <1>2, <1>4
    <3> QED
      BY <1>2, <3>1, MixCells
  <2> QED
    BY <2>1, <2>2, <2>3
<1>5. ASSUME NEW x \in Nat, x >= 1 PROVE Cell(m, x) = Erased
  <2>1. CASE x < End
    BY <1>4, <1>5, <2>1
  <2>2. CASE x >= End
    BY <1>3, <2>2, CellFacts
  <2> QED
    BY <1>1, <2>1, <2>2
<1>6. m[0] = Magic
  <2>1. 0 \in Addr /\ 0 \in Nat /\ 0 < End
    BY <1>1 DEF Addr
  <2> QED
    BY <1>3, <1>4, <2>1, CellFacts
<1>7. Sound(m, {}, 1) /\ 1 < End
  BY <1>1, <1>5 DEF Sound, Chain, StoreHeaderLen, Ends
<1>8. ASSUME NEW j \in Key PROVE ~Find(m, j).found
  <2>1. Find(m, j) = Missing(1)
    BY <1>3, <1>7, FindSound
  <2> QED
    BY <2>1 DEF Missing
<1> QED
  BY <1>6, <1>7, <1>8 DEF Keeps, MadeBy

(***************************************************************************)
(* The inductive invariant.                                                *)
(***************************************************************************)

\* The writing under way started from the cells m0 and programmed the first t cells.
WritingFrom(m0, f, t) ==
  LET k == call.key
      d == call.data
  IN  /\ call.op = "write"
      /\ m0 \in [Addr -> Cells] /\ Keeps(m0, stored, tried, torn) /\ MayWrite(m0, f, k, d)
      /\ f.addr \in Nat
      /\ t \in 0 .. RecLen(k, d) /\ mem = Mix(m0, f.addr, Rec(k, d), t)
      /\ ToDo(pending, f.addr, Rec(k, d), t)
      /\ ~f.found => CutMarked(pending, f.addr)

\* So did the erasure under way.
ErasingFrom(m0, t) ==
  /\ call = EraseCall
  /\ m0 \in [Addr -> Cells] /\ t \in 0 .. End /\ mem = Mix(m0, 0, Blank(End), t)
  /\ ToDo(pending, 0, Blank(End), t)

StoreInv ==
  /\ TypeOK
  /\ \/ pending = <<>> /\ Keeps(mem, stored, tried, torn)
     \/ \E m0, f, t : WritingFrom(m0, f, t)
     \/ \E m0, t : ErasingFrom(m0, t)

LEMMA ErasureStarts ==
  ASSUME NEW m \in [Addr -> Cells]
  PROVE  /\ m = Mix(m, 0, Blank(End), 0) /\ 0 \in 0 .. End /\ ToDo(Erasure, 0, Blank(End), 0)
<1>1. End \in Nat
  BY SizeAssumption
<1>2. Blank(End) \in Seq(Cells) /\ Len(Blank(End)) = End /\ 0 \in 0 .. End
  BY <1>1, BlankCells
<1> QED
  BY <1>2, MixType, ErasureToDo

LEMMA InitStoreInv == Init => StoreInv
<1> SUFFICES ASSUME Init PROVE StoreInv
  OBVIOUS
<1>1. TypeOK
  BY InitTypeOK
<1>2. mem \in [Addr -> Cells] /\ pending = Erasure /\ call = EraseCall
  BY <1>1 DEF TypeOK, Init
<1>3. ErasingFrom(mem, 0)
  BY <1>2, ErasureStarts DEF ErasingFrom
<1> QED
  BY <1>1, <1>3 DEF StoreInv

\* What the invariant says of each kind of call.
LEMMA StoreCases ==
  ASSUME StoreInv
  PROVE  /\ pending = <<>> => Keeps(mem, stored, tried, torn)
         /\ pending # <<>> => \/ call.op = "write" /\ \E m0, f, t : WritingFrom(m0, f, t)
                              \/ call.op = "erase" /\ \E m0, t : ErasingFrom(m0, t)
<1>1. call \in Call /\ (call = NoCall <=> pending = <<>>)
  BY DEF StoreInv, TypeOK, Call
<1>2. pending = <<>> => call.op = "none"
  BY <1>1, CallFields
<1>3. (\E m0, f, t : WritingFrom(m0, f, t)) => call.op = "write"
  BY DEF WritingFrom
<1>4. (\E m0, t : ErasingFrom(m0, t)) => call.op = "erase"
  BY <1>1, CallFields DEF ErasingFrom
<1> QED
  BY <1>2, <1>3, <1>4 DEF StoreInv

\* Tail, and the last page.
LEMMA LastPage ==
  ASSUME NEW s \in Seq(Page), s # <<>>
  PROVE  Tail(s) \in Seq(Page) /\ (Len(s) > 1 <=> Tail(s) # <<>>)
<1>1. Tail(s) \in Seq(Page) /\ Len(Tail(s)) = Len(s) - 1 /\ Len(s) \in Nat /\ Len(s) >= 1
  BY DEF Page
<1>2. \A q \in Seq(Page) : Len(q) \in Nat /\ (q = <<>> <=> Len(q) = 0)
  OBVIOUS
<1>3. Tail(s) # <<>> <=> Len(Tail(s)) # 0
  BY <1>1, <1>2
<1> QED
  BY <1>1, <1>3
  
LEMMA NextStoreInv == ~FailInErase /\ StoreInv /\ [Next]_vars => StoreInv'
<1> SUFFICES ASSUME ~FailInErase, StoreInv, [Next]_vars PROVE StoreInv'
  OBVIOUS
<1>0. /\ mem \in [Addr -> Cells] /\ pending \in Seq(Page) /\ call \in Call
      /\ stored \in [Key -> Data \cup {NoData}] /\ tried \in [Key -> SUBSET Data]
      /\ TypeOK
  BY DEF StoreInv, TypeOK, Call
<1>T. TypeOK'
  BY NextTypeOK DEF StoreInv
<1>1. ASSUME NEW k \in Key, NEW d \in Data, ConfigWrite(k, d) PROVE StoreInv'
  <2> DEFINE f == Find(mem, k)
  <2>1. /\ pending = <<>> /\ (f.found => Cell(mem, f.addr + 1) = Len(d))
        /\ Fits(f.addr, k, d) /\ pending' = Record(f.addr, k, d) /\ call' = WriteCall(k, d)
        /\ UNCHANGED <<mem, stored, tried, torn>>
    BY <1>1, Zenon DEF ConfigWrite
  <2>2. Keeps(mem, stored, tried, torn)
    BY <2>1, StoreCases
  <2>3. f.addr \in Nat
    BY <1>0, FindType DEF Found
  <2>4. MayWrite(mem, f, k, d)
    BY <2>1 DEF MayWrite
  <2>5. ~f.found => Cell(mem, f.addr) = Erased
    <3>1. PICK C, e : Sound(mem, C, e)
      BY <2>2 DEF Keeps
    <3>2. /\ e \in Nat /\ e >= e
          /\ \/ \E a \in C : HasId(mem, a, k) /\ f = At(a)
             \/ (\A a \in C : ~HasId(mem, a, k)) /\ f = Missing(e)
      <4>1. Chain(mem, C, e)
        BY <3>1 DEF Sound
      <4>2. e \in Nat
        BY <4>1 DEF Chain
      <4> QED
        BY <1>0, <4>1, <4>2, FindInChain
    <3>3. Cell(mem, e) = Erased
      BY <3>1, <3>2 DEF Sound
    <3> HIDE DEF f
    <3> QED
      BY <3>2, <3>3 DEF At, Missing
  <2> HIDE DEF f
  <2>6. /\ ToDo(Record(f.addr, k, d), f.addr, Rec(k, d), 0)
        /\ ~f.found => CutMarked(Record(f.addr, k, d), f.addr)
    BY <2>1, <2>3, <2>5, RecordToDo
  <2>7. 0 \in 0 .. RecLen(k, d) /\ mem = Mix(mem, f.addr, Rec(k, d), 0)
    <3>1. Rec(k, d) \in Seq(Cells) /\ 0 \in 0 .. Len(Rec(k, d)) /\ 0 \in 0 .. RecLen(k, d)
      BY RecFields
    <3> QED
      BY <1>0, <2>3, <3>1, MixType
  <2>8. call'.op = "write" /\ call'.key = k /\ call'.data = d
    BY <2>1 DEF WriteCall
  <2>9. PICK m0, g : m0 = mem /\ g = f
    OBVIOUS
  <2>10. WritingFrom(m0, g, 0)'
    BY <1>0, <2>1, <2>2, <2>3, <2>4, <2>6, <2>7, <2>8, <2>9 DEF WritingFrom
  <2> QED
    BY <1>T, <2>10 DEF StoreInv
<1>2. ASSUME ConfigErase PROVE StoreInv'
  <2>1. pending' = Erasure /\ call' = EraseCall /\ mem' = mem
    BY <1>2 DEF ConfigErase
  <2>2. PICK m0 : m0 = mem
    OBVIOUS
  <2>3. ErasingFrom(m0, 0)'
    BY <1>0, <2>1, <2>2, ErasureStarts DEF ErasingFrom
  <2> QED
    BY <1>T, <2>3 DEF StoreInv
<1>3. ASSUME ProgramPage PROVE StoreInv'
  <2>1. pending # <<>> /\ mem' = Programmed(mem, Head(pending)) /\ pending' = Tail(pending)
    BY <1>3, Zenon DEF ProgramPage
  <2>2. pending' = <<>> \/ (pending' # <<>> /\ UNCHANGED <<call, stored, tried, torn>>)
    <3>1. Len(pending) > 1 => UNCHANGED <<call, stored, tried, torn>>
      BY <1>3, Zenon DEF ProgramPage
    <3> QED
      BY <1>0, <2>1, <3>1, LastPage
  <2>3. pending' = <<>> =>
          IF call.op = "write"
            THEN /\ stored' = [stored EXCEPT ![call.key] = call.data]
                 /\ tried' = [tried EXCEPT ![call.key] = {}] /\ torn' = torn
            ELSE stored' = [j \in Key |-> NoData] /\ tried' = [j \in Key |-> {}] /\ torn' = FALSE
    <3>1. ~(Len(pending) > 1) =>
            IF call.op = "write"
              THEN /\ stored' = [stored EXCEPT ![call.key] = call.data]
                   /\ tried' = [tried EXCEPT ![call.key] = {}] /\ torn' = torn
              ELSE stored' = [j \in Key |-> NoData] /\ tried' = [j \in Key |-> {}] /\ torn' = FALSE
      BY <1>3, Zenon DEF ProgramPage
    <3> QED
      BY <1>0, <2>1, <3>1, LastPage, Zenon
  <2> DEFINE l == Len(Head(pending).cells)
  <2>4. ASSUME NEW m0, NEW f, NEW t, WritingFrom(m0, f, t), call.op = "write" PROVE StoreInv'
    <3> DEFINE k == call.key
               d == call.data
    <3>1. /\ m0 \in [Addr -> Cells] /\ Keeps(m0, stored, tried, torn) /\ MayWrite(m0, f, k, d)
          /\ f.addr \in Nat
          /\ t \in 0 .. RecLen(k, d) /\ mem = Mix(m0, f.addr, Rec(k, d), t)
          /\ ToDo(pending, f.addr, Rec(k, d), t)
          /\ ~f.found => CutMarked(pending, f.addr)
      BY <2>4 DEF WritingFrom
    <3>2. k \in Key /\ d \in Data
      BY <1>0, <2>4, CallFields
    <3> HIDE DEF k, d
    <3>3. Rec(k, d) \in Seq(Cells) /\ Len(Rec(k, d)) = RecLen(k, d) /\ RecLen(k, d) \in Nat
      BY <3>2, RecFields
    <3>4. /\ t + l \in 1 .. RecLen(k, d)
          /\ ToDo(pending', f.addr, Rec(k, d), t + l)
          /\ mem' = Mix(m0, f.addr, Rec(k, d), t + l)
      <4>1. /\ t + l \in 1 .. Len(Rec(k, d))
            /\ ToDo(Tail(pending), f.addr, Rec(k, d), t + l)
            /\ Programmed(Mix(m0, f.addr, Rec(k, d), t), Head(pending))
                 = Mix(m0, f.addr, Rec(k, d), t + l)
        BY <2>1, <3>1, <3>3, ToDoStep
      <4> QED
        BY <2>1, <3>1, <3>3, <4>1
    <3>5. CASE pending' = <<>>
      <4>1. t + l = RecLen(k, d)
        BY <3>3, <3>4, <3>5 DEF ToDo
      <4>2. /\ stored' = [stored EXCEPT ![k] = d] /\ tried' = [tried EXCEPT ![k] = {}]
            /\ torn' = torn
        BY <2>3, <2>4, <3>5 DEF k, d
      <4>3. Keeps(mem', stored', tried', torn')
        <5>1. mem' = Mix(m0, f.addr, Rec(k, d), RecLen(k, d))
          BY <3>4, <4>1
        <5>2. Keeps(mem', [stored EXCEPT ![k] = d], [tried EXCEPT ![k] = {}], torn)
          BY <1>0, <3>1, <3>2, <5>1, Completed
        <5> QED
          BY <4>2, <5>2
      <4> QED
        BY <1>T, <3>5, <4>3 DEF StoreInv
    <3>6. CASE pending' # <<>>
      <4>1. UNCHANGED <<call, stored, tried, torn>>
        BY <2>2, <3>6
      <4>2. t + l \in 0 .. RecLen(k, d)
        BY <3>4
      <4>3. ~f.found => CutMarked(pending', f.addr)
        <5> SUFFICES ASSUME CutMarked(pending, f.addr) PROVE CutMarked(pending', f.addr)
          BY <3>1
        <5>1. ASSUME NEW i \in DOMAIN Tail(pending)
              PROVE  i + 1 \in DOMAIN pending /\ Tail(pending)[i] = pending[i + 1]
          BY <1>0, <2>1
        <5> QED
          BY <2>1, <5>1 DEF CutMarked
      <4>4. PICK t2 : t2 = t + l
        OBVIOUS
      <4>5. WritingFrom(m0, f, t2)'
        BY <2>4, <3>1, <3>4, <4>1, <4>2, <4>3, <4>4 DEF WritingFrom, k, d
      <4> QED
        BY <1>T, <4>5 DEF StoreInv
    <3> QED
      BY <3>5, <3>6
  <2>5. ASSUME NEW m0, NEW t, ErasingFrom(m0, t), call.op = "erase" PROVE StoreInv'
    <3>1. /\ m0 \in [Addr -> Cells] /\ mem = Mix(m0, 0, Blank(End), t)
          /\ ToDo(pending, 0, Blank(End), t) /\ call = EraseCall
      BY <2>5 DEF ErasingFrom
    <3>2. Blank(End) \in Seq(Cells) /\ Len(Blank(End)) = End /\ End \in Nat /\ 0 \in Nat
      BY SizeAssumption, BlankCells
    <3>3. /\ t + l \in 1 .. End
          /\ ToDo(pending', 0, Blank(End), t + l)
          /\ mem' = Mix(m0, 0, Blank(End), t + l)
      <4>1. /\ t + l \in 1 .. Len(Blank(End))
            /\ ToDo(Tail(pending), 0, Blank(End), t + l)
            /\ Programmed(Mix(m0, 0, Blank(End), t), Head(pending))
                 = Mix(m0, 0, Blank(End), t + l)
        BY <2>1, <3>1, <3>2, ToDoStep
      <4> QED
        BY <2>1, <3>1, <3>2, <4>1
    <3>4. CASE pending' = <<>>
      <4>1. t + l = End
        BY <3>2, <3>3, <3>4 DEF ToDo
      <4>2. /\ stored' = [j \in Key |-> NoData] /\ tried' = [j \in Key |-> {}] /\ torn' = FALSE
        BY <2>3, <2>5, <3>4
      <4>3. Keeps(mem', stored', tried', torn')
        <5>1. mem' = Mix(m0, 0, Blank(End), End)
          BY <3>3, <4>1
        <5>2. Keeps(mem', [j \in Key |-> NoData], [j \in Key |-> {}], FALSE)
          BY <3>1, <5>1, Emptied
        <5> QED
          BY <4>2, <5>2
      <4> QED
        BY <1>T, <3>4, <4>3 DEF StoreInv
    <3>5. CASE pending' # <<>>
      <4>1. call' = EraseCall /\ t + l \in 0 .. End
        BY <2>2, <3>1, <3>3, <3>5
      <4>2. PICK t2 : t2 = t + l
        OBVIOUS
      <4>3. ErasingFrom(m0, t2)'
        BY <3>1, <3>3, <4>1, <4>2 DEF ErasingFrom
      <4> QED
        BY <1>T, <4>3 DEF StoreInv
    <3> QED
      BY <3>4, <3>5
  <2> QED
    BY <2>1, <2>4, <2>5, StoreCases
<1>4. ASSUME PowerFail PROVE StoreInv'
  <2>1. /\ pending # <<>> /\ UNCHANGED <<mem, stored>>
        /\ (call = EraseCall => FailInErase)
        /\ pending' = IF mem[0] # Magic THEN Erasure ELSE <<>>
        /\ torn' = (torn \/ Head(pending).cut)
        /\ tried' = IF call.op = "write" THEN [tried EXCEPT ![call.key] = @ \cup {call.data}]
                    ELSE tried
    BY <1>4, Zenon DEF PowerFail
  <2>2. call.op # "erase"
    BY <1>0, <2>1, CallFields
  <2>3. PICK m0, f, t : WritingFrom(m0, f, t) /\ call.op = "write"
    BY <2>1, <2>2, StoreCases
  <2> DEFINE k == call.key
             d == call.data
  <2>4. /\ m0 \in [Addr -> Cells] /\ Keeps(m0, stored, tried, torn) /\ MayWrite(m0, f, k, d)
        /\ f.addr \in Nat
        /\ t \in 0 .. RecLen(k, d) /\ mem = Mix(m0, f.addr, Rec(k, d), t)
        /\ ToDo(pending, f.addr, Rec(k, d), t)
        /\ ~f.found => CutMarked(pending, f.addr)
    BY <2>3 DEF WritingFrom
  <2>5. k \in Key /\ d \in Data
    BY <1>0, <2>3, CallFields
  <2>6. tried' = [tried EXCEPT ![k] = @ \cup {d}]
    BY <2>1, <2>3
  <2> HIDE DEF k, d
  <2>7. ~torn' => ~torn /\ (t # 1 \/ f.found)
    <3> SUFFICES ASSUME ~torn', t = 1, ~f.found PROVE FALSE
      BY <2>1
    <3>1. Head(pending) = pending[1] /\ 1 \in DOMAIN pending
      BY <1>0, <2>1
    <3>2. pending[1].addr - f.addr = 1
      BY <2>4, <3>1 DEF ToDo
    <3>3. pending[1].cut
      BY <2>4, <3>1, <3>2 DEF CutMarked
    <3> QED
      BY <2>1, <3>1, <3>3
  <2>8. Keeps(mem, stored, tried', torn')
    <3>1. torn' \in BOOLEAN
      BY <1>T DEF TypeOK
    <3>2. /\ m0 \in [Addr -> Cells] /\ Keeps(m0, stored, tried, torn) /\ MayWrite(m0, f, k, d)
          /\ t \in 0 .. RecLen(k, d) /\ mem = Mix(m0, f.addr, Rec(k, d), t)
      BY <2>4
    <3>3. ~torn' => ~torn /\ (t # 1 \/ f.found)
      BY <2>7
    <3>4. tried' = [tried EXCEPT ![k] = @ \cup {d}]
      BY <2>6
    <3>5. stored \in [Key -> Data \cup {NoData}] /\ tried \in [Key -> SUBSET Data]
      BY <1>0
    <3>6. Keeps(mem, stored, tried', TRUE)
      BY <2>5, <3>2, <3>4, <3>5, CutShort
    <3>7. ASSUME ~torn' PROVE Keeps(mem, stored, tried', FALSE)
      <4>1. torn = FALSE /\ (t # 1 \/ f.found)
        BY <3>3, <3>7, <1>0 DEF TypeOK
      <4>2. Keeps(m0, stored, tried, FALSE)
        BY <3>2, <4>1
      <4> QED
        BY <2>5, <3>2, <3>4, <3>5, <4>1, <4>2, CutShort
    <3> QED
      BY <3>1, <3>6, <3>7
  <2>9. pending' = <<>>
    BY <2>1, <2>8 DEF Keeps
  <2> QED
    BY <1>T, <2>1, <2>8, <2>9 DEF StoreInv
<1>5. CASE UNCHANGED vars
  <2>1. UNCHANGED <<mem, pending, call, stored, tried, torn>>
    BY <1>5 DEF vars
  <2>2. \A m0, f, t : WritingFrom(m0, f, t) => WritingFrom(m0, f, t)'
    BY <2>1 DEF WritingFrom
  <2>3. \A m0, t : ErasingFrom(m0, t) => ErasingFrom(m0, t)'
    BY <2>1 DEF ErasingFrom
  <2> QED
    BY <1>T, <2>1, <2>2, <2>3 DEF StoreInv
<1> QED
  BY <1>1, <1>2, <1>3, <1>4, <1>5 DEF Next

LEMMA StoreInvariance ==
  ASSUME ~FailInErase
  PROVE  Spec => []StoreInv
<1>1. StoreInv /\ [Next]_vars => StoreInv'
  BY NextStoreInv
<1> QED
  BY <1>1, InitStoreInv, PTL DEF Spec

\* A key whose last writing was complete is read back as written, one that was ever
\* written completely is never missing, and one that was never begun is, whatever
\* writings a power failure cut short, at whatever page.
THEOREM WrittenIsReadBack ==
  ASSUME ~FailInErase
  PROVE  Spec => []ReadsWhatWasWritten
<1>1. StoreInv => ReadsWhatWasWritten
  <2> SUFFICES ASSUME StoreInv, pending = <<>>, NEW k \in Key, NEW d \in Data, NEW r,
                      r = ConfigRead(mem, k, Len(d))
               PROVE  /\ stored[k] = d /\ tried[k] = {} => r = [rv |-> "OK", data |-> d]
                      /\ stored[k] # NoData => r.rv # "ENOENT"
                      /\ stored[k] = NoData /\ tried[k] = {} => r.rv = "ENOENT"
    BY Zenon DEF ReadsWhatWasWritten
  <2>1. /\ stored[k] # NoData => Find(mem, k).found
        /\ stored[k] # NoData /\ tried[k] = {}
             => ConfigRead(mem, k, Len(stored[k])) = [rv |-> "OK", data |-> stored[k]]
        /\ stored[k] = NoData /\ tried[k] = {} => ~Find(mem, k).found
    BY StoreCases DEF Keeps
  <2>2. d # NoData
    <3>1. Len(d) \in 1 .. Erased - 1
      BY RecFields
    <3>2. Len(d) # 0
      BY <3>1
    <3> QED
      BY <3>2 DEF NoData
  <2>3. ~Find(mem, k).found => r.rv = "ENOENT"
    BY DEF ConfigRead
  <2>4. Find(mem, k).found => r.rv # "ENOENT"
    BY DEF ConfigRead
  <2> QED
    BY <2>1, <2>2, <2>3, <2>4
<1> QED
  BY <1>1, StoreInvariance, PTL

\* What passes the checksum is one of the values a record is made of, where the
\* checksum tells them from their mixtures.
LEMMA ReadIsValue ==
  ASSUME CrcTellsApart, NEW m \in [Addr -> Cells], NEW C, NEW e, Sound(m, C, e),
         NEW k \in Key, NEW V \in SUBSET Data, MadeBy(m, k, V),
         NEW d \in Data, NEW r, r = ConfigRead(m, k, Len(d)), r.rv = "OK"
  PROVE  r.data \in V
<1> DEFINE n == Len(idOf[k])
           l == Len(d)
<1>1. n \in Nat /\ l \in Nat
  BY RecFields
<1> HIDE DEF n, l
<1>2. PICK a : a \in Nat /\ HasId(m, a, k) /\ Find(m, k) = At(a)
  <2>1. \A x \in C : x \in Nat
    BY DEF Sound, Chain
  <2>2. Find(m, k) = Missing(e) => r.rv = "ENOENT"
    BY ConfigReadAt
  <2> QED
    BY <2>1, <2>2, FindSound
<1>3. r = ReadAt(m, a, l) /\ Made(m, a, V)
  <2>1. At(a).found = TRUE /\ At(a).addr = a
    BY DEF At
  <2> QED
    BY <1>2, <2>1, ConfigReadAt DEF MadeBy, l
<1> DEFINE x == Read(m, a + 3 + n, l)
<1>4. Cell(m, a) = n
  BY <1>2 DEF HasId, n
<1> HIDE DEF x
<1>5. /\ Cell(m, a + 1) = l /\ Cell(m, a + 2) = Crc(n, x) /\ r.data = x
  BY <1>3, <1>4 DEF ReadAt, HeaderLen, x
<1>6. /\ \E v \in V : Len(v) = l /\ Cell(m, a + 2) = Crc(n, v)
      /\ \A i \in 1 .. l : Known(Cell(m, a + 3 + n + i - 1), i, V, l)
  BY <1>3, <1>4, <1>5, Zenon DEF Made
<1>7. x \in Mixtures(l)
  <2>1. x = [i \in 1 .. l |-> Cell(m, a + 3 + n + i - 1)]
    BY Zenon DEF Read, x
  <2>2. ASSUME NEW i \in 1 .. l PROVE Cell(m, a + 3 + n + i - 1) \in Cells
    <3>1. a + 3 + n + i - 1 \in Nat
      BY <1>1, <1>2
    <3> QED
      BY <3>1, CellFacts
  <2>3. x \in [1 .. l -> Cells]
    BY <2>1, <2>2
  <2>4. ASSUME NEW i \in 1 .. l
        PROVE  x[i] = Erased \/ \E v \in Data : Len(v) = l /\ x[i] = v[i]
    <3>1. x[i] = Cell(m, a + 3 + n + i - 1)
      BY <2>1
    <3>2. Known(x[i], i, V, l)
      BY <1>6, <3>1
    <3> QED
      BY <3>2 DEF Known
  <2> QED
    BY <2>3, <2>4, Zenon DEF Mixtures
<1>8. PICK v \in V : Len(v) = l /\ Cell(m, a + 2) = Crc(n, v)
  BY <1>6
<1>9. x = v
  BY <1>5, <1>7, <1>8 DEF CrcTellsApart, n
<1> QED
  BY <1>5, <1>8, <1>9

\* Where the checksum of a value is that of no other mixture, a key whose writings were
\* cut short is read as one of the values written, or not at all.
THEOREM MixturesAreRejected ==
  ASSUME ~FailInErase, CrcTellsApart
  PROVE  Spec => []MixturesRejected
<1>1. StoreInv => MixturesRejected
  <2> SUFFICES ASSUME StoreInv, pending = <<>>, NEW k \in Key, NEW d \in Data, NEW r,
                      r = ConfigRead(mem, k, Len(d)), r.rv = "OK"
               PROVE  r.data \in tried[k] \cup {stored[k]}
    BY Zenon DEF MixturesRejected
  <2> DEFINE V == Values(stored, tried, k)
  <2>1. mem \in [Addr -> Cells] /\ V \in SUBSET Data
    <3>1. stored \in [Key -> Data \cup {NoData}] /\ tried \in [Key -> SUBSET Data]
          /\ mem \in [Addr -> Cells]
      BY DEF StoreInv, TypeOK
    <3> QED
      BY <3>1 DEF Values
  <2> HIDE DEF V
  <2>2. Keeps(mem, stored, tried, torn)
    BY StoreCases
  <2>3. PICK C, e : Sound(mem, C, e)
    BY <2>2 DEF Keeps
  <2>4. MadeBy(mem, k, V)
    BY <2>2 DEF Keeps, V
  <2>5. r.data \in V
    BY <2>1, <2>3, <2>4, ReadIsValue
  <2> QED
    BY <2>5 DEF V, Values
<1> QED
  BY <1>1, StoreInvariance, PTL

\* The chain of records ends inside the store, unless the power failed within the
\* header of a new record.
THEOREM ChainEnds ==
  ASSUME ~FailInErase
  PROVE  Spec => []ChainEndsInside
<1>1. StoreInv => ChainEndsInside
  <2> SUFFICES ASSUME StoreInv, pending = <<>>, ~torn, NEW k \in Key
               PROVE  Find(mem, k).addr < End
    BY DEF ChainEndsInside
  <2>1. mem \in [Addr -> Cells]
    BY DEF StoreInv, TypeOK
  <2>2. PICK C, e : Sound(mem, C, e) /\ e < End
    BY StoreCases DEF Keeps
  <2>3. Chain(mem, C, e)
    BY <2>2 DEF Sound
  <2>4. e \in Nat /\ \A a \in C : a \in Nat /\ a < e
    BY <2>1, <2>3, ChainFacts
  <2>5. CASE \E a \in C : Find(mem, k) = At(a)
    <3>1. PICK a \in C : Find(mem, k) = At(a)
      BY <2>5
    <3>2. Find(mem, k).addr = a
      BY <3>1 DEF At
    <3> QED
      BY <2>2, <2>4, <3>2, SizeAssumption
  <2>6. CASE Find(mem, k) = Missing(e)
    BY <2>2, <2>6 DEF Missing
  <2> QED
    BY <2>1, <2>3, <2>5, <2>6, FindInChain
<1> QED
  BY <1>1, StoreInvariance, PTL

\* A page of a writing leaves every other key as it was when the writing began.
LEMMA OthersKept ==
  ASSUME StoreInv, ProgramPage, call.op = "write", NEW k \in Key \ {call.key}
  PROVE  \E m0 : SameKey(m0, mem, k) /\ SameKey(m0, mem', k)
<1>1. pending # <<>> /\ mem' = Programmed(mem, Head(pending))
  BY Zenon DEF ProgramPage
<1>2. PICK m0, f, t : WritingFrom(m0, f, t)
  BY <1>1, StoreCases
<1> DEFINE j == call.key
           v == call.data
           l == Len(Head(pending).cells)
<1>3. /\ m0 \in [Addr -> Cells] /\ Keeps(m0, stored, tried, torn) /\ MayWrite(m0, f, j, v)
      /\ f.addr \in Nat
      /\ t \in 0 .. RecLen(j, v) /\ mem = Mix(m0, f.addr, Rec(j, v), t)
      /\ ToDo(pending, f.addr, Rec(j, v), t)
  BY <1>2 DEF WritingFrom
<1>4. j \in Key /\ v \in Data /\ k \in Key \ {j}
  <2>1. call \in Call
    BY DEF StoreInv, TypeOK, Call
  <2> QED
    BY <2>1, CallFields
<1> HIDE DEF j, v
<1>5. PICK C, e : Sound(m0, C, e)
  BY <1>3 DEF Keeps
<1>6. t + l \in 0 .. RecLen(j, v) /\ mem' = Mix(m0, f.addr, Rec(j, v), t + l)
  <2>1. Rec(j, v) \in Seq(Cells) /\ Len(Rec(j, v)) = RecLen(j, v)
    BY <1>4, RecFields
  <2>2. /\ t + l \in 1 .. Len(Rec(j, v))
        /\ Programmed(Mix(m0, f.addr, Rec(j, v), t), Head(pending))
             = Mix(m0, f.addr, Rec(j, v), t + l)
    BY <1>1, <1>3, <2>1, ToDoStep
  <2> QED
    BY <1>1, <1>3, <2>1, <2>2
<1>7. ASSUME NEW u \in 0 .. RecLen(j, v), NEW m, m = Mix(m0, f.addr, Rec(j, v), u)
      PROVE  SameKey(m0, m, k)
  <2>1. \A i \in Key \ {j} : SameKey(m0, m, i)
    BY <1>3, <1>4, <1>5, <1>7, Written
  <2> QED
    BY <1>4, <2>1
<1> QED
  BY <1>3, <1>6, <1>7

\* While a key is written, page by page, and when the power fails in between, every
\* other key reads as before.
THEOREM OthersUntouched ==
  ASSUME ~FailInErase
  PROVE  Spec => OtherKeysUntouched
<1> DEFINE Same == \A k \in Key, d \in Data :
              (call.op # "erase" /\ call'.op # "erase" /\ (call.op = "write" => call.key # k))
                => ConfigRead(mem', k, Len(d)) = ConfigRead(mem, k, Len(d))
<1>1. StoreInv /\ [Next]_vars => Same
  <2> SUFFICES ASSUME StoreInv, [Next]_vars, NEW k \in Key, NEW d \in Data,
                      call.op # "erase", call.op = "write" => call.key # k
               PROVE  ConfigRead(mem', k, Len(d)) = ConfigRead(mem, k, Len(d))
    OBVIOUS
  <2>1. mem' = mem \/ ProgramPage
    BY DEF Next, vars, ConfigWrite, ConfigErase, PowerFail
  <2>2. ASSUME ProgramPage PROVE ConfigRead(mem', k, Len(d)) = ConfigRead(mem, k, Len(d))
    <3>1. pending # <<>>
      BY <2>2, Zenon DEF ProgramPage
    <3>2. call.op = "write"
      BY <3>1, StoreCases
    <3>3. PICK m0 : SameKey(m0, mem, k) /\ SameKey(m0, mem', k)
      BY <2>2, <3>2, OthersKept
    <3> QED
      BY <3>3 DEF SameKey
  <2> QED
    BY <2>1, <2>2
<1>2. StoreInv /\ [Next]_vars => [Same]_vars
  BY <1>1
<1> QED
  BY <1>2, StoreInvariance, PTL DEF Spec, OtherKeysUntouched

(***************************************************************************)
(* The store as KeyStore describes it.                                     *)
(***************************************************************************)

\* A record of another length is noticed, so that what a key holds follows from what
\* reading it with every length returns.
LEMMA ContentKept ==
  ASSUME NEW m0, NEW m, NEW k, SameKey(m0, m, k)
  PROVE  Content(m, k) = Content(m0, k)
<1> DEFINE n == Cell(m, Find(m, k).addr + 1)
           n0 == Cell(m0, Find(m0, k).addr + 1)
<1>1. CASE ~Find(m0, k).found
  <2>1. ~Find(m, k).found
    BY <1>1 DEF SameKey
  <2> QED
    BY <1>1, <2>1, Zenon DEF Content, ConfigRead
<1>2. CASE Find(m0, k).found
  <2>1. Find(m, k).found
    BY <1>2 DEF SameKey
  <2>2. ConfigRead(m, k, n0).rv = "EINVAL" <=> n # n0
    BY <2>1 DEF ConfigRead
  <2>3. ConfigRead(m0, k, n0).rv # "EINVAL"
    BY <1>2 DEF ConfigRead
  <2>4. n = n0
    BY <2>2, <2>3 DEF SameKey
  <2> QED
    BY <2>4 DEF Content, SameKey
<1> QED
  BY <1>1, <1>2

\* What a key holds is one of the values its record is made of, or noticed damage.
LEMMA ContentIsValue ==
  ASSUME CrcTellsApart, NEW m \in [Addr -> Cells], NEW C, NEW e, Sound(m, C, e),
         NEW k \in Key, NEW V \in SUBSET Data, MadeBy(m, k, V)
  PROVE  /\ Find(m, k).found
              => Content(m, k) \in {Store!Damaged} \cup {Store!Holds(v) : v \in V}
         /\ ~Find(m, k).found => Content(m, k) = Store!Missing
<1>1. ASSUME ~Find(m, k).found PROVE Content(m, k) = Store!Missing
  BY <1>1, Zenon DEF Content, ConfigRead, Store!Missing
<1>2. ASSUME Find(m, k).found
      PROVE  Content(m, k) \in {Store!Damaged} \cup {Store!Holds(v) : v \in V}
  <2> DEFINE f == Find(m, k)
             n == Cell(m, f.addr + 1)
             x == Read(m, f.addr + HeaderLen + Cell(m, f.addr), n)
  <2>1. PICK d \in V : Len(d) = n
    BY <1>2, Zenon DEF MadeBy, Made
  <2>2. \/ Content(m, k) = [rv |-> "EIO", data |-> NoData]
        \/ Content(m, k) = [rv |-> "OK", data |-> x]
    BY <1>2, Zenon DEF Content, ConfigRead
  <2> HIDE DEF f, n, x
  <2>3. CASE Content(m, k) = [rv |-> "EIO", data |-> NoData]
    BY <2>3 DEF Store!Damaged
  <2>4. CASE Content(m, k) = [rv |-> "OK", data |-> x]
    <3>1. Content(m, k) = ConfigRead(m, k, Len(d))
      BY <2>1 DEF Content, n, f
    <3>2. Content(m, k).rv = "OK" /\ Content(m, k).data = x
      BY <2>4
    <3>3. x \in V
      <4>1. d \in Data
        BY <2>1
      <4> QED
        BY <3>1, <3>2, <4>1, ReadIsValue
    <3> QED
      BY <2>4, <3>3 DEF Store!Holds
  <2> QED
    BY <2>2, <2>3, <2>4
<1> QED
  BY <1>1, <1>2

\* At rest every key is steady, under a writing all but its own, under an erasure none.
LEMMA SteadyKeys ==
  /\ call = NoCall => \A j \in Key : Steady(j)
  /\ \A k, d : call = WriteCall(k, d) => \A j \in Key : Steady(j) <=> j # k
  /\ call' = NoCall => \A j \in Key : Steady(j)'
  /\ \A k, d : call' = WriteCall(k, d) => \A j \in Key : Steady(j)' <=> j # k
  /\ call' = EraseCall => \A j \in Key : ~Steady(j)'
<1>1. NoCall.op = "none" /\ EraseCall.op = "erase"
  BY DEF NoCall, EraseCall
<1>2. \A k, d : WriteCall(k, d).op = "write" /\ WriteCall(k, d).key = k
  BY DEF WriteCall
<1> QED
  BY <1>1, <1>2 DEF Steady

LEMMA ContentsAt ==
  /\ \A k \in Key : Contents[k] = IF Steady(k) THEN Content(mem, k) ELSE Store!Unknown
  /\ \A k \in Key : Contents'[k] = IF Steady(k)' THEN Content(mem', k) ELSE Store!Unknown
  /\ Contents = [k \in Key |-> Contents[k]]
  /\ Contents' = [k \in Key |-> Contents'[k]]
  BY Zenon DEF Contents, Store!Unknown

\* The invariant after a step that ends its call.
LEMMA KeepsAtEnd ==
  ASSUME StoreInv', call' = NoCall
  PROVE  Keeps(mem', stored', tried', torn')
<1>1. NoCall.op = "none" /\ EraseCall.op = "erase"
  BY DEF NoCall, EraseCall
<1>2. \A m0, f, t : ~WritingFrom(m0, f, t)'
  BY <1>1 DEF WritingFrom
<1>3. \A m0, t : ~ErasingFrom(m0, t)'
  BY <1>1 DEF ErasingFrom
<1> QED
  BY <1>2, <1>3, Zenon DEF StoreInv

LEMMA WriteBegins ==
  ASSUME StoreInv, StoreInv', NEW k \in Key, NEW d \in Data, ConfigWrite(k, d)
  PROVE  Store!BeginWrite(k, d)
<1>1. /\ pending = <<>> /\ call' = WriteCall(k, d) /\ mem' = mem
      /\ UNCHANGED <<stored, tried>>
  BY Zenon DEF ConfigWrite
<1>2. call = NoCall /\ call \in Call /\ call' \in Call
  BY <1>1 DEF StoreInv, TypeOK, Call
<1>3. \A j \in Key : Steady(j) /\ (Steady(j)' <=> j # k)
  BY <1>1, <1>2, SteadyKeys
<1>4. ASSUME NEW j \in Key
      PROVE  Contents'[j] = IF j = k THEN Store!Unknown ELSE Contents[j]
  BY <1>1, <1>3, ContentsAt
<1>5. Contents' = [Contents EXCEPT ![k] = Store!Unknown]
  BY <1>4, ContentsAt, Zenon
<1> QED
  BY <1>1, <1>2, <1>5 DEF Store!BeginWrite

LEMMA EraseBegins ==
  ASSUME StoreInv, StoreInv', ConfigErase
  PROVE  Store!BeginErase
<1>1. pending = <<>> /\ call' = EraseCall /\ UNCHANGED <<stored, tried>>
  BY DEF ConfigErase
<1>2. call = NoCall /\ call' \in Call
  BY <1>1 DEF StoreInv, TypeOK, Call
<1>3. \A j \in Key : ~Steady(j)'
  BY <1>1, <1>2, SteadyKeys
<1>4. Contents' = Store!Uncertain
  BY <1>3, ContentsAt DEF Store!Uncertain
<1> QED
  BY <1>1, <1>2, <1>4 DEF Store!BeginErase

\* A page of a call leaves what the other keys hold.
LEMMA PageKeepsContent ==
  ASSUME StoreInv, ProgramPage, NEW k \in Key, Steady(k)
  PROVE  call.op = "write" /\ Content(mem', k) = Content(mem, k)
<1>1. pending # <<>>
  BY Zenon DEF ProgramPage
<1>2. call.op = "write" /\ k # call.key
  BY <1>1, StoreCases DEF Steady
<1>3. PICK m0 : SameKey(m0, mem, k) /\ SameKey(m0, mem', k)
  BY <1>2, OthersKept
<1> QED
  BY <1>2, <1>3, ContentKept

\* A complete writing has replaced what its key holds.
LEMMA WriteEnds ==
  ASSUME StoreInv, StoreInv', ProgramPage, pending' = <<>>, CrcTellsApart,
         NEW k \in Key, NEW d \in Data, call = WriteCall(k, d), call' = NoCall,
         stored' = [stored EXCEPT ![k] = d], tried' = [tried EXCEPT ![k] = {}]
  PROVE  Store!EndWrite(k, d)
<1>1. /\ mem' \in [Addr -> Cells] /\ call \in Call /\ call' \in Call
      /\ stored \in [Key -> Data \cup {NoData}] /\ tried \in [Key -> SUBSET Data]
  BY DEF StoreInv, TypeOK, Call
<1>2. stored'[k] = d /\ tried'[k] = {}
  BY <1>1
<1>3. Keeps(mem', stored', tried', torn')
  BY KeepsAtEnd
<1>4. d # NoData
  <2>1. Len(d) # 0
    BY RecFields
  <2> QED
    BY <2>1 DEF NoData
<1>5. Content(mem', k) = Store!Holds(d)
  <2>1. Find(mem', k).found
    BY <1>2, <1>3, <1>4 DEF Keeps
  <2>2. ConfigRead(mem', k, Len(d)) = [rv |-> "OK", data |-> d]
    BY <1>2, <1>3, <1>4 DEF Keeps
  <2>3. Cell(mem', Find(mem', k).addr + 1) = Len(d)
    <3>1. ConfigRead(mem', k, Len(d)).rv # "EINVAL"
      BY <2>2
    <3> QED
      BY <2>1, <3>1, Zenon DEF ConfigRead
  <2> QED
    BY <2>2, <2>3 DEF Content, Store!Holds
<1>6. \A j \in Key : Steady(j)' /\ (Steady(j) <=> j # k)
  BY <1>1, SteadyKeys
<1>7. ASSUME NEW j \in Key
      PROVE  Contents'[j] = IF j = k THEN Store!Holds(d) ELSE Contents[j]
  BY <1>5, <1>6, PageKeepsContent, ContentsAt
<1>8. Contents' = [Contents EXCEPT ![k] = Store!Holds(d)]
  BY <1>7, ContentsAt
<1> QED
  BY <1>8 DEF Store!EndWrite

LEMMA EraseEnds ==
  ASSUME StoreInv, StoreInv', ProgramPage, pending' = <<>>,
         call = EraseCall, call' = NoCall,
         stored' = [k \in Key |-> NoData], tried' = [k \in Key |-> {}]
  PROVE  Store!EndErase
<1>1. call' \in Call
  BY DEF StoreInv, TypeOK, Call
<1>2. Keeps(mem', stored', tried', torn')
  BY KeepsAtEnd
<1>3. ASSUME NEW k \in Key PROVE Contents'[k] = Store!Missing
  <2>1. stored'[k] = NoData /\ tried'[k] = {}
    OBVIOUS
  <2>2. ~Find(mem', k).found
    BY <1>2, <2>1 DEF Keeps
  <2>3. Content(mem', k) = Store!Missing
    BY <2>2, Zenon DEF Content, ConfigRead, Store!Missing
  <2>4. Steady(k)'
    BY <1>1, SteadyKeys
  <2> QED
    BY <2>3, <2>4, ContentsAt
<1>4. Contents' = Store!Nothing
  BY <1>3, ContentsAt DEF Store!Nothing
<1> QED
  BY <1>4 DEF Store!EndErase

LEMMA PageRefines ==
  ASSUME StoreInv, StoreInv', ProgramPage, CrcTellsApart
  PROVE  [Store!StoreNext]_Store!storeVars
<1>1. /\ pending # <<>> /\ pending' = Tail(pending) /\ pending \in Seq(Page)
      /\ call \in Call
  <2>1. pending # <<>> /\ pending' = Tail(pending)
    BY Zenon DEF ProgramPage
  <2>2. pending \in Seq(Page) /\ call \in Call
    BY DEF StoreInv, TypeOK, Call
  <2> QED
    BY <2>1, <2>2
<1>2. CASE Len(pending) > 1
  <2>1. UNCHANGED <<call, stored, tried>>
    BY <1>2, Zenon DEF ProgramPage
  <2>2. ASSUME NEW j \in Key PROVE Contents'[j] = Contents[j]
    <3>1. Steady(j)' <=> Steady(j)
      BY <2>1 DEF Steady
    <3> QED
      BY <3>1, PageKeepsContent, ContentsAt
  <2>3. Contents' = Contents
    BY <2>2, ContentsAt
  <2> QED
    BY <2>1, <2>3 DEF Store!storeVars
<1>3. CASE ~(Len(pending) > 1)
  <2>1. pending' = <<>>
    BY <1>1, <1>3, LastPage
  <2>2. /\ call' = NoCall
        /\ IF call.op = "write"
             THEN /\ stored' = [stored EXCEPT ![call.key] = call.data]
                  /\ tried' = [tried EXCEPT ![call.key] = {}]
             ELSE /\ stored' = [k \in Key |-> NoData]
                  /\ tried' = [k \in Key |-> {}]
    BY <1>3, Zenon DEF ProgramPage
  <2>3. CASE call.op = "write"
    <3>1. PICK k \in Key, d \in Data : k = call.key /\ d = call.data /\ call = WriteCall(k, d)
      BY <1>1, <2>3, CallFields
    <3>2. Store!EndWrite(k, d)
      BY <2>1, <2>2, <2>3, <3>1, WriteEnds
    <3> QED
      BY <3>2 DEF Store!StoreNext
  <2>4. CASE call.op # "write"
    <3>1. call = EraseCall
      BY <1>1, <2>4, StoreCases, CallFields
    <3>2. Store!EndErase
      BY <2>1, <2>2, <2>4, <3>1, EraseEnds
    <3> QED
      BY <3>2 DEF Store!StoreNext
  <2> QED
    BY <2>3, <2>4
<1> QED
  BY <1>2, <1>3

\* A writing cut short leaves its key one of the values written, or damage noticed.
LEMMA FailRefines ==
  ASSUME ~FailInErase, StoreInv, StoreInv', PowerFail, CrcTellsApart
  PROVE  Store!StoreNext
<1>1. /\ pending # <<>> /\ UNCHANGED <<mem, stored>>
      /\ (call = EraseCall => FailInErase)
      /\ pending' = IF mem[0] # Magic THEN Erasure ELSE <<>>
      /\ call' = IF mem[0] # Magic THEN EraseCall ELSE NoCall
      /\ tried' = IF call.op = "write" THEN [tried EXCEPT ![call.key] = @ \cup {call.data}]
                  ELSE tried
  BY Zenon DEF PowerFail
<1>2. /\ call \in Call /\ call' \in Call /\ mem \in [Addr -> Cells]
      /\ stored \in [Key -> Data \cup {NoData}] /\ tried \in [Key -> SUBSET Data]
      /\ stored' \in [Key -> Data \cup {NoData}] /\ tried' \in [Key -> SUBSET Data]
  BY DEF StoreInv, TypeOK, Call
<1>3. call.op = "write"
  BY <1>1, <1>2, StoreCases, CallFields
<1>4. PICK k \in Key, d \in Data : k = call.key /\ d = call.data /\ call = WriteCall(k, d)
  BY <1>2, <1>3, CallFields
<1>5. mem[0] = Magic
  <2>1. PICK m0, f, t : WritingFrom(m0, f, t)
    BY <1>1, <1>3, StoreCases
  <2>2. /\ m0 \in [Addr -> Cells] /\ Keeps(m0, stored, tried, torn) /\ MayWrite(m0, f, k, d)
        /\ t \in 0 .. RecLen(k, d) /\ mem = Mix(m0, f.addr, Rec(k, d), t)
    BY <1>4, <2>1 DEF WritingFrom
  <2>3. PICK C, e : Sound(m0, C, e)
    BY <2>2 DEF Keeps
  <2>4. mem[0] = m0[0]
    BY <2>2, <2>3, Written
  <2> QED
    BY <2>2, <2>4 DEF Keeps
<1>6. call' = NoCall /\ pending' = <<>> /\ tried' = [tried EXCEPT ![k] = @ \cup {d}]
  BY <1>1, <1>3, <1>4, <1>5
<1>7. Keeps(mem, stored, tried', torn')
  <2>1. Keeps(mem', stored', tried', torn')
    BY <1>6, KeepsAtEnd
  <2> QED
    BY <1>1, <2>1
<1>8. Content(mem, k) \in Store!Left(k, tried'[k])
  <2> DEFINE V == Values(stored, tried', k)
  <2>1. V \in SUBSET Data /\ V = tried'[k] \cup ({stored[k]} \ {NoData})
    BY <1>2 DEF Values
  <2>2. MadeBy(mem, k, V) /\ (stored[k] # NoData => Find(mem, k).found)
    BY <1>7 DEF Keeps
  <2>3. PICK C, e : Sound(mem, C, e)
    BY <1>7 DEF Keeps
  <2> HIDE DEF V
  <2>4. /\ Find(mem, k).found
             => Content(mem, k) \in {Store!Damaged} \cup {Store!Holds(v) : v \in V}
        /\ ~Find(mem, k).found => Content(mem, k) = Store!Missing
    BY <1>2, <2>1, <2>2, <2>3, ContentIsValue
  <2>5. CASE ~Find(mem, k).found
    BY <2>2, <2>4, <2>5 DEF Store!Left
  <2>6. ASSUME NEW v \in V, Content(mem, k) = Store!Holds(v)
        PROVE  Content(mem, k) \in Store!Left(k, tried'[k])
    <3>1. v \in tried'[k] \/ (v = stored[k] /\ stored[k] # NoData)
      BY <2>1
    <3> QED
      BY <2>6, <3>1 DEF Store!Left
  <2>7. CASE Content(mem, k) = Store!Damaged
    BY <2>7 DEF Store!Left
  <2> QED
    BY <2>4, <2>5, <2>6, <2>7
<1>9. \A j \in Key : Steady(j)' /\ (Steady(j) <=> j # k)
  BY <1>2, <1>4, <1>6, SteadyKeys
<1>10. ASSUME NEW j \in Key
       PROVE  Contents'[j] = IF j = k THEN Content(mem, k) ELSE Contents[j]
  BY <1>1, <1>9, ContentsAt
<1>11. Contents' = [Contents EXCEPT ![k] = Content(mem, k)]
  BY <1>10, ContentsAt
<1>12. Store!CutWrite(k, d)
  BY <1>1, <1>4, <1>6, <1>8, <1>11 DEF Store!CutWrite
<1> QED
  BY <1>12 DEF Store!StoreNext

LEMMA InitRefines ==
  ASSUME Init
  PROVE  Store!StoreInit
<1>1. call = EraseCall
  BY DEF Init
<1>2. \A j \in Key : ~Steady(j)
  BY <1>1 DEF Steady, EraseCall
<1>3. Contents = Store!Uncertain
  BY <1>2, ContentsAt DEF Store!Uncertain
<1> QED
  BY <1>1, <1>3 DEF Init, Store!StoreInit

\* The chain of records, written page by page and cut short at any of them, is the
\* store of values that KeyStore describes.
THEOREM StoreImplementsKeyStore ==
  ASSUME ~FailInErase, CrcTellsApart
  PROVE  Spec => ImplementsKeyStore
<1>1. ASSUME StoreInv, StoreInv', [Next]_vars
      PROVE  [Store!StoreNext]_Store!storeVars
  <2>1. ASSUME NEW k \in Key, NEW d \in Data, ConfigWrite(k, d)
        PROVE  Store!StoreNext
    BY <1>1, <2>1, WriteBegins DEF Store!StoreNext
  <2>2. ConfigErase => Store!StoreNext
    BY <1>1, EraseBegins DEF Store!StoreNext
  <2>3. ProgramPage => [Store!StoreNext]_Store!storeVars
    BY <1>1, PageRefines
  <2>4. PowerFail => Store!StoreNext
    BY <1>1, FailRefines
  <2>5. UNCHANGED vars => UNCHANGED Store!storeVars
    BY DEF vars, Store!storeVars, Contents, Steady
  <2> QED
    BY <1>1, <2>1, <2>2, <2>3, <2>4, <2>5 DEF Next
<1> QED
  BY <1>1, InitRefines, StoreInvariance, PTL
  DEF Spec, ImplementsKeyStore, Store!StoreSpec

=============================================================================
