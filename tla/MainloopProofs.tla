--------------------------- MODULE MainloopProofs ---------------------------
(***************************************************************************)
(* Proofs about Mainloop, for any finite set of timers, any intervals, any *)
(* clients and any descriptors, under a clock that does not go back: no    *)
(* timer is lost, none is called before its interval has passed, and every *)
(* open connection has its one entry in the list of descriptors.           *)
(***************************************************************************)
EXTENDS Mainloop, FiniteSetTheorems, SequenceTheorems, WellFoundedInduction, TLAPS

(***************************************************************************)
(* Induction and recursion over the natural numbers, stated for sets and   *)
(* functions: a proof by these takes for T the set of the numbers that     *)
(* satisfy what it is about, for step the function a recursion repeats.    *)
(***************************************************************************)

\* A non-empty set of natural numbers has a least element.
LEMMA LeastExists ==
  ASSUME NEW S \in SUBSET Nat, S # {}
  PROVE  \E m \in S : \A n \in S : m <= n
<1> DEFINE R == OpToRel(<, Nat)
<1>1. IsWellFoundedOn(R, Nat)
  BY NatLessThanWellFounded, Zenon
<1>2. \A p, q \in Nat : p < q => <<p, q>> \in R
  BY DEF OpToRel
<1>3. PICK m \in S : \A n \in S : ~(<<n, m>> \in R)
  <2> HIDE DEF R
  <2> QED
    BY <1>1, WFMin
<1>4. ASSUME NEW n \in S PROVE m <= n
  <2>1. m \in Nat /\ n \in Nat /\ (n < m => <<n, m>> \in R)
    BY <1>2
  <2> HIDE DEF R
  <2> QED
    BY <1>3, <2>1
<1> QED
  BY <1>4

\* A set that has 0, and the successor of every number it has, has them all.
LEMMA NaturalInduction ==
  ASSUME NEW T, 0 \in T, \A n \in Nat : n \in T => n + 1 \in T
  PROVE  Nat \subseteq T
<1> SUFFICES ASSUME Nat \ T # {} PROVE FALSE
  OBVIOUS
<1>1. PICK n \in Nat \ T : \A m \in Nat \ T : n <= m
  BY LeastExists
<1>2. n # 0 /\ n - 1 \in Nat /\ n - 1 + 1 = n /\ ~(n <= n - 1)
  OBVIOUS
<1>3. n - 1 \in T
  BY <1>1, <1>2
<1> QED
  BY <1>2, <1>3

\* f is the function on 0 .. n that starts at c and goes on by step.
Recursion(n, c, step, f) == f[0] = c /\ \A i \in 1 .. n : f[i] = step[<<i, f[i - 1]>>]

\* There is such a function, whatever c and step are: the functions that are right
\* up to m exist for every m.
LEMMA RecursionExists ==
  ASSUME NEW n \in Nat, NEW S, NEW c \in S, NEW step \in [(1 .. n) \X S -> S]
  PROVE  \E f \in [0 .. n -> S] : Recursion(n, c, step, f)
<1> DEFINE Is(m, f) == f[0] = c /\ \A i \in 1 .. m : f[i] = step[<<i, f[i - 1]>>]
           T == {m \in Nat : m <= n => \E f \in [0 .. n -> S] : Is(m, f)}
<1>1. 0 \in T
  <2> DEFINE f0 == [i \in 0 .. n |-> c]
  <2>1. f0 \in [0 .. n -> S] /\ f0[0] = c /\ 1 .. 0 = {}
    OBVIOUS
  <2> QED
    BY <2>1
<1>2. ASSUME NEW m \in Nat, m \in T PROVE m + 1 \in T
  <2>1. CASE m + 1 <= n
    <3>1. PICK f \in [0 .. n -> S] : Is(m, f)
      BY <1>2, <2>1
    <3> DEFINE v == step[<<m + 1, f[m]>>]
               g == [f EXCEPT ![m + 1] = v]
    <3>2. m \in 0 .. n /\ m + 1 \in 1 .. n /\ m + 1 \in 0 .. n /\ f[m] \in S /\ v \in S
      BY <2>1
    <3>3. g \in [0 .. n -> S] /\ g[m + 1] = v /\ \A i \in 0 .. m : g[i] = f[i]
      <4> HIDE DEF v
      <4> QED
        BY <3>2
    <3>4. Is(m + 1, g)
      <4>1. ASSUME NEW i \in 1 .. m + 1 PROVE g[i] = step[<<i, g[i - 1]>>]
        <5> HIDE DEF g
        <5>1. CASE i = m + 1
          BY <5>1, <3>3
        <5>2. CASE i \in 1 .. m
          <6>1. i \in 0 .. m /\ i - 1 \in 0 .. m
            BY <5>2
          <6> QED
            BY <6>1, <5>2, <3>1, <3>3
        <5> QED
          BY <5>1, <5>2
      <4>2. g[0] = c
        BY <3>1, <3>3
      <4> QED
        BY <4>1, <4>2
    <3> HIDE DEF g, Is
    <3> QED
      BY <3>3, <3>4
  <2> QED
    BY <2>1
<1> HIDE DEF T
<1>3. n \in T
  BY <1>1, <1>2, NaturalInduction
<1>4. PICK f \in [0 .. n -> S] : Is(n, f)
  BY <1>3 DEF T
<1> QED
  BY <1>4 DEF Recursion

(***************************************************************************)
(* The sorted insertion.                                                   *)
(***************************************************************************)

\* What changing one field of an entry does.
LEMMA EntryFields ==
  ASSUME NEW e \in Entry
  PROVE  /\ e.id \in Timer /\ e.due \in Int /\ e.remove \in BOOLEAN
         /\ \A d \in Int :
              /\ [e EXCEPT !.due = d] \in Entry /\ [e EXCEPT !.due = d].id = e.id
              /\ [e EXCEPT !.due = d].due = d /\ [e EXCEPT !.due = d].remove = e.remove
         /\ \A b \in BOOLEAN :
              /\ [e EXCEPT !.remove = b] \in Entry /\ [e EXCEPT !.remove = b].id = e.id
              /\ [e EXCEPT !.remove = b].due = e.due
              /\ b = e.remove => [e EXCEPT !.remove = b] = e
  BY Zenon DEF Entry

\* The place for e in a list: behind k timers that are sooner, before one that
\* is not.
IsPlace(list, e, k) ==
  /\ k \in 0 .. Len(list)
  /\ \A i \in 1 .. k : list[i].due < e.due
  /\ k < Len(list) => ~(list[k + 1].due < e.due)

LEMMA PlaceExists ==
  ASSUME NEW list \in Seq(Entry), NEW e \in Entry
  PROVE  \E k : IsPlace(list, e, k) /\ Inserted(list, e) = InsertAt(list, k + 1, e)
<1> DEFINE S == {i \in 1 .. Len(list) : ~(list[i].due < e.due)}
<1>1. \E k \in 0 .. Len(list) : IsPlace(list, e, k)
  <2>1. CASE S = {}
    <3>1. Len(list) \in 0 .. Len(list) /\ \A i \in 1 .. Len(list) : list[i].due < e.due
      BY <2>1
    <3> QED
      BY <3>1 DEF IsPlace
  <2>2. CASE S # {}
    <3>1. S \in SUBSET Nat
      OBVIOUS
    <3>2. PICK m \in S : \A n \in S : m <= n
      <4> HIDE DEF S
      <4> QED
        BY <2>2, <3>1, LeastExists
    <3>3. /\ m - 1 \in 0 .. Len(list) /\ m - 1 < Len(list) /\ (m - 1) + 1 = m
          /\ \A i \in 1 .. m - 1 : i \in 1 .. Len(list) /\ ~(m <= i)
      OBVIOUS
    <3>4. ~(list[m].due < e.due) /\ \A i \in 1 .. m - 1 : list[i].due < e.due
      BY <3>2, <3>3
    <3> QED
      BY <3>3, <3>4 DEF IsPlace
  <2> QED
    BY <2>1, <2>2
<1> DEFINE P(k) == k \in 0 .. Len(list) /\ IsPlace(list, e, k)
           place == CHOOSE k \in 0 .. Len(list) :
                      /\ \A i \in 1 .. k : list[i].due < e.due
                      /\ k < Len(list) => ~(list[k + 1].due < e.due)
<1>2. IsPlace(list, e, place)
  BY <1>1 DEF IsPlace
<1>3. Inserted(list, e) = InsertAt(list, place + 1, e)
  BY DEF Inserted
<1> QED
  BY <1>2, <1>3

\* Inserting e behind at least one entry and dropping the first: what is where.
LEMMA TailOfInserted ==
  ASSUME NEW list \in Seq(Entry), NEW e \in Entry, NEW k \in 1 .. Len(list)
  PROVE  /\ Tail(InsertAt(list, k + 1, e)) \in Seq(Entry)
         /\ Len(Tail(InsertAt(list, k + 1, e))) = Len(list)
         /\ \A i \in 1 .. Len(list) : Tail(InsertAt(list, k + 1, e))[i] =
              IF i < k THEN list[i + 1] ELSE IF i = k THEN e ELSE list[i]
<1> DEFINE p == SubSeq(list, 1, k)
           q == SubSeq(list, k + 1, Len(list))
           pe == p \o <<e>>
           w == pe \o q
<1>1. p \in Seq(Entry) /\ Len(p) = k /\ \A i \in 1 .. k : p[i] = list[i]
  BY SubSeqProperties, ElementOfSeq
<1>2. /\ q \in Seq(Entry) /\ Len(q) = Len(list) - k
      /\ \A i \in 1 .. Len(list) - k : q[i] = list[k + i]
  BY SubSeqProperties, ElementOfSeq
<1>3. /\ pe \in Seq(Entry) /\ Len(pe) = k + 1
      /\ \A i \in 1 .. k + 1 : pe[i] = IF i <= k THEN list[i] ELSE e
  <2>1. <<e>> \in Seq(Entry) /\ Len(<<e>>) = 1 /\ <<e>>[1] = e
    OBVIOUS
  <2> HIDE DEF p
  <2> QED
    BY <1>1, <2>1, ConcatProperties
<1> HIDE DEF p, q, pe
<1>4. /\ w \in Seq(Entry) /\ Len(w) = Len(list) + 1
      /\ \A i \in 1 .. Len(list) + 1 : w[i] =
           IF i <= k + 1 THEN pe[i] ELSE q[i - (k + 1)]
  <2>1. /\ w \in Seq(Entry) /\ Len(w) = Len(pe) + Len(q)
        /\ \A i \in 1 .. Len(pe) + Len(q) : w[i] =
             IF i <= Len(pe) THEN pe[i] ELSE q[i - Len(pe)]
    BY <1>2, <1>3, ConcatProperties
  <2>2. Len(pe) = k + 1 /\ Len(pe) + Len(q) = Len(list) + 1
    BY <1>2, <1>3
  <2> HIDE DEF w
  <2> QED
    BY <2>1, <2>2
<1>5. InsertAt(list, k + 1, e) = w
  <2>1. (k + 1) - 1 = k
    OBVIOUS
  <2> QED
    BY <2>1 DEF InsertAt, p, q, pe
<1> HIDE DEF w
<1>6. /\ Tail(w) \in Seq(Entry) /\ Len(Tail(w)) = Len(list)
      /\ \A i \in 1 .. Len(list) : Tail(w)[i] = w[i + 1]
  <2>1. w # <<>>
    BY <1>4
  <2> QED
    BY <1>4, <2>1, HeadTailProperties
<1>7. ASSUME NEW i \in 1 .. Len(list)
      PROVE  w[i + 1] = IF i < k THEN list[i + 1] ELSE IF i = k THEN e ELSE list[i]
  <2>1. CASE i <= k
    <3>1. i + 1 \in 1 .. k + 1 /\ i + 1 \in 1 .. Len(list) + 1 /\ i + 1 <= k + 1
      BY <2>1
    <3>2. w[i + 1] = pe[i + 1]
      BY <3>1, <1>4
    <3> QED
      BY <3>1, <3>2, <1>3, <2>1
  <2>2. CASE ~(i <= k)
    <3> DEFINE n == (i + 1) - (k + 1)
    <3>1. n \in 1 .. Len(list) - k /\ k + n = i /\ i + 1 \in 1 .. Len(list) + 1
          /\ ~(i + 1 <= k + 1)
      BY <2>2
    <3>2. w[i + 1] = q[n]
      BY <3>1, <1>4
    <3>3. q[n] = list[k + n]
      BY <3>1, <1>2
    <3> QED
      BY <3>1, <3>2, <3>3, <2>2
  <2> QED
    BY <2>1, <2>2
<1> QED
  BY <1>5, <1>6, <1>7

(***************************************************************************)
(* What Kept() keeps.                                                      *)
(***************************************************************************)

IsKept(list, kept) ==
  kept = [n \in 0 .. Len(list) |->
           IF n = 0 THEN <<>>
           ELSE IF list[n].remove THEN kept[n - 1] ELSE Append(kept[n - 1], list[n])]

\* The recursion in Kept has a solution, and Kept takes one.
LEMMA KeptExists ==
  ASSUME NEW E, NEW list \in Seq(E)
  PROVE  \E kept : IsKept(list, kept) /\ Kept(list) = kept[Len(list)]
<1> DEFINE n == Len(list)
           step == [p \in (1 .. n) \X Seq(E) |->
                      IF list[p[1]].remove THEN p[2] ELSE Append(p[2], list[p[1]])]
<1>1. n \in Nat /\ <<>> \in Seq(E) /\ step \in [(1 .. n) \X Seq(E) -> Seq(E)]
  <2>1. ASSUME NEW p \in (1 .. n) \X Seq(E)
        PROVE  (IF list[p[1]].remove THEN p[2] ELSE Append(p[2], list[p[1]])) \in Seq(E)
    OBVIOUS
  <2> QED
    BY <2>1
<1>2. PICK f \in [0 .. n -> Seq(E)] :
        f[0] = <<>> /\ \A i \in 1 .. n : f[i] = step[<<i, f[i - 1]>>]
  <2>1. PICK f \in [0 .. n -> Seq(E)] : Recursion(n, <<>>, step, f)
    <3> HIDE DEF step, n
    <3> QED
      BY <1>1, RecursionExists, Zenon
  <2> QED
    BY <2>1 DEF Recursion
<1>3. IsKept(list, f)
  <2>1. \A i \in 1 .. n : f[i - 1] \in Seq(E) /\
          step[<<i, f[i - 1]>>] = IF list[i].remove THEN f[i - 1] ELSE Append(f[i - 1], list[i])
    <3> SUFFICES ASSUME NEW i \in 1 .. n
                 PROVE  /\ f[i - 1] \in Seq(E)
                        /\ step[<<i, f[i - 1]>>] =
                             IF list[i].remove THEN f[i - 1] ELSE Append(f[i - 1], list[i])
      OBVIOUS
    <3>1. i - 1 \in 0 .. n
      BY <1>1
    <3>2. <<i, f[i - 1]>> \in (1 .. n) \X Seq(E)
      BY <3>1
    <3> QED
      BY <3>2, Zenon
  <2> HIDE DEF step
  <2>2. \A i \in 0 .. n : i = 0 \/ i \in 1 .. n
    BY <1>1
  <2> QED
    BY <2>1, <2>2, <1>2 DEF IsKept
<1>4. IsKept(list, CHOOSE kept : IsKept(list, kept))
  BY <1>3
<1> QED
  BY <1>4, Zenon DEF Kept, IsKept

\* One entry at a time.
LEMMA KeptStep ==
  ASSUME NEW E, NEW list \in Seq(E), NEW kept, IsKept(list, kept)
  PROVE  /\ kept[0] = <<>>
         /\ \A m \in Nat : m < Len(list) =>
              /\ list[m + 1].remove => kept[m + 1] = kept[m]
              /\ ~list[m + 1].remove => kept[m + 1] = Append(kept[m], list[m + 1])
<1>1. Len(list) \in Nat
  OBVIOUS
<1>2. kept[0] = <<>>
  BY <1>1 DEF IsKept
<1>3. ASSUME NEW m \in Nat, m < Len(list)
      PROVE  kept[m + 1] = IF list[m + 1].remove THEN kept[m] ELSE Append(kept[m], list[m + 1])
  <2>1. m + 1 \in 0 .. Len(list) /\ m + 1 # 0 /\ m + 1 - 1 = m
    BY <1>1, <1>3
  <2>2. ASSUME NEW n \in 0 .. Len(list), n # 0
        PROVE  kept[n] = IF list[n].remove THEN kept[n - 1] ELSE Append(kept[n - 1], list[n])
    BY <2>2, Zenon DEF IsKept
  <2> QED
    BY <2>1, <2>2
<1> QED
  BY <1>2, <1>3

\* place gives the index in the first m entries of list of every entry of kept.
Places(list, m, kept, place) ==
  /\ place \in [1 .. Len(kept) -> {i \in 1 .. m : ~list[i].remove}]
  /\ \A j \in 1 .. Len(kept) : kept[j] = list[place[j]]
  /\ \A i \in 1 .. m : ~list[i].remove => \E j \in 1 .. Len(kept) : place[j] = i
  /\ \A j, k \in 1 .. Len(kept) : j < k => place[j] < place[k]

\* One more entry, kept or not.
LEMMA OneMorePlace ==
  ASSUME NEW E, NEW list \in Seq(E), NEW m \in Nat, m < Len(list),
         NEW kept \in Seq(E), NEW place, Places(list, m, kept, place)
  PROVE  /\ list[m + 1].remove => Places(list, m + 1, kept, place)
         /\ ~list[m + 1].remove =>
              /\ Append(kept, list[m + 1]) \in Seq(E)
              /\ \E q : Places(list, m + 1, Append(kept, list[m + 1]), q)
<1> DEFINE n == Len(kept)
           U(k) == {i \in 1 .. k : ~list[i].remove}
<1>1. /\ n \in Nat /\ m + 1 \in 1 .. Len(list) /\ list[m + 1] \in E
      /\ place \in [1 .. n -> U(m)]
      /\ \A i \in 1 .. m + 1 : i = m + 1 \/ i \in 1 .. m
      /\ U(m) \subseteq 1 .. m
  BY DEF Places
<1>2. CASE list[m + 1].remove
  <2>1. U(m + 1) = U(m)
    BY <1>1, <1>2
  <2>2. \A i \in 1 .. m + 1 : ~list[i].remove => i \in 1 .. m
    BY <1>1, <1>2
  <2> QED
    BY <1>2, <2>1, <2>2 DEF Places
<1>3. CASE ~list[m + 1].remove
  <2> DEFINE K == Append(kept, list[m + 1])
             q == [j \in 1 .. n + 1 |-> IF j = n + 1 THEN m + 1 ELSE place[j]]
  <2>1. /\ K \in Seq(E) /\ Len(K) = n + 1 /\ K[n + 1] = list[m + 1]
        /\ \A j \in 1 .. n : K[j] = kept[j]
    BY <1>1
  <2>2. /\ \A j \in 1 .. n + 1 : j = n + 1 \/ j \in 1 .. n
        /\ n + 1 \in 1 .. n + 1
        /\ \A j \in 1 .. n : j \in 1 .. n + 1 /\ j # n + 1 /\ j < n + 1 /\ ~(n + 1 < j)
    BY <1>1
  <2>3. q[n + 1] = m + 1 /\ \A j \in 1 .. n : q[j] = place[j] /\ place[j] \in U(m)
    BY <1>1, <2>2
  <2>4. m + 1 \in U(m + 1) /\ U(m) \subseteq U(m + 1) /\ \A i \in U(m) : i < m + 1
    BY <1>1, <1>3
  <2>5. q \in [1 .. n + 1 -> U(m + 1)]
    <3>1. \A j \in 1 .. n + 1 : (IF j = n + 1 THEN m + 1 ELSE place[j]) \in U(m + 1)
      <4> HIDE DEF U, n
      <4> QED
        BY <1>1, <2>2, <2>4
    <3> QED
      BY <3>1
  <2>6. \A j \in 1 .. n + 1 : K[j] = list[q[j]]
    <3> HIDE DEF K, q, U
    <3> QED
      BY <2>1, <2>2, <2>3 DEF Places
  <2>7. \A i \in 1 .. m + 1 : ~list[i].remove => \E j \in 1 .. n + 1 : q[j] = i
    <3> HIDE DEF K, q, U
    <3> QED
      BY <1>1, <2>2, <2>3 DEF Places
  <2>8. \A j, k \in 1 .. n + 1 : j < k => q[j] < q[k]
    <3> SUFFICES ASSUME NEW j \in 1 .. n + 1, NEW k \in 1 .. n + 1, j < k
                 PROVE  q[j] < q[k]
      OBVIOUS
    <3>1. j \in 1 .. n
      BY <1>1
    <3>2. CASE k = n + 1
      BY <2>3, <2>4, <3>1, <3>2
    <3>3. CASE k \in 1 .. n
      <4> HIDE DEF q
      <4> QED
        BY <2>3, <3>1, <3>3 DEF Places
    <3> QED
      BY <2>2, <3>2, <3>3
  <2>9. Places(list, m + 1, K, q)
    <3> HIDE DEF K, q
    <3> QED
      BY <2>1, <2>5, <2>6, <2>7, <2>8 DEF Places
  <2> QED
    BY <1>3, <2>1, <2>9
<1> QED
  BY <1>2, <1>3

\* Kept() leaves the unmarked entries, every one of them, in their order.
LEMMA KeptPlaces ==
  ASSUME NEW E, NEW list \in Seq(E)
  PROVE  Kept(list) \in Seq(E) /\ \E place : Places(list, Len(list), Kept(list), place)
<1>1. PICK kept : IsKept(list, kept) /\ Kept(list) = kept[Len(list)]
  BY KeptExists
<1>2. Len(list) \in Nat
  OBVIOUS
<1> DEFINE Good(m) == kept[m] \in Seq(E) /\ \E place : Places(list, m, kept[m], place)
           T == {m \in Nat : m <= Len(list) => Good(m)}
<1>3. 0 \in T
  <2>1. kept[0] = <<>>
    BY <1>1, KeptStep
  <2>2. Places(list, 0, <<>>, <<>>)
    BY DEF Places
  <2>3. Good(0)
    BY <2>1, <2>2, EmptySeq, Zenon
  <2> QED
    BY <2>3
<1>4. ASSUME NEW m \in Nat, m \in T PROVE m + 1 \in T
  <2> SUFFICES ASSUME m + 1 <= Len(list) PROVE Good(m + 1)
    OBVIOUS
  <2>0. m < Len(list)
    BY <1>2
  <2>1. Good(m)
    BY <1>4, <2>0
  <2>2. /\ list[m + 1].remove => kept[m + 1] = kept[m]
        /\ ~list[m + 1].remove => kept[m + 1] = Append(kept[m], list[m + 1])
    <3> HIDE DEF Good, T
    <3> QED
      BY <1>1, <2>0, KeptStep
  <2>3. PICK place : Places(list, m, kept[m], place)
    BY <2>1
  <2>4. /\ list[m + 1].remove => Places(list, m + 1, kept[m], place)
        /\ ~list[m + 1].remove =>
             /\ Append(kept[m], list[m + 1]) \in Seq(E)
             /\ \E q : Places(list, m + 1, Append(kept[m], list[m + 1]), q)
    BY <2>0, <2>1, <2>3, OneMorePlace
  <2> QED
    BY <2>1, <2>2, <2>4, Zenon
<1> HIDE DEF T
<1>5. Len(list) \in T
  BY <1>2, <1>3, <1>4, NaturalInduction
<1> QED
  BY <1>1, <1>2, <1>5 DEF T

\* Where nothing is marked, everything is kept.
LEMMA KeptAll ==
  ASSUME NEW E, NEW list \in Seq(E), \A i \in DOMAIN list : ~list[i].remove
  PROVE  Kept(list) = list
<1>1. PICK kept : IsKept(list, kept) /\ Kept(list) = kept[Len(list)]
  BY KeptExists
<1>2. Len(list) \in Nat
  OBVIOUS
<1> DEFINE Good(m) == /\ kept[m] \in Seq(E) /\ Len(kept[m]) = m
                      /\ \A i \in 1 .. m : kept[m][i] = list[i]
           T == {m \in Nat : m <= Len(list) => Good(m)}
<1>3. 0 \in T
  <2>1. kept[0] = <<>>
    BY <1>1, KeptStep
  <2>2. <<>> \in Seq(E) /\ Len(<<>>) = 0 /\ 1 .. 0 = {}
    OBVIOUS
  <2>3. Good(0)
    BY <2>1, <2>2
  <2> QED
    BY <2>3
<1>4. ASSUME NEW m \in Nat, m \in T PROVE m + 1 \in T
  <2> SUFFICES ASSUME m + 1 <= Len(list) PROVE Good(m + 1)
    OBVIOUS
  <2>1. Good(m) /\ m < Len(list) /\ m + 1 \in 1 .. Len(list) /\ list[m + 1] \in E
    BY <1>2, <1>4
  <2>2. kept[m + 1] = Append(kept[m], list[m + 1])
    BY <1>1, <2>1, KeptStep
  <2> DEFINE k == kept[m]
  <2>3. ASSUME NEW i \in 1 .. m + 1 PROVE Append(k, list[m + 1])[i] = list[i]
    BY <2>1
  <2> QED
    BY <2>1, <2>2, <2>3
<1> HIDE DEF T
<1>5. Len(list) \in T
  BY <1>2, <1>3, <1>4, NaturalInduction
<1>6. Good(Len(list))
  BY <1>2, <1>5 DEF T
<1> QED
  BY <1>1, <1>6, SeqEqual

(***************************************************************************)
(* The inductive invariant.  Nothing in the list is marked between steps:  *)
(* rescheduling marks the head, which is then the entry that is freed,     *)
(* because the new entry, due later than now, cannot have become the head. *)
(* This is where the clock must not go back.                               *)
(***************************************************************************)
Ordered == \A i, j \in DOMAIN timers : i < j => timers[i].due <= timers[j].due

NoneMarked == \A i \in DOMAIN timers : ~timers[i].remove

Unique == \A i, j \in DOMAIN timers : timers[i].id = timers[j].id => i = j

\* What is left to the expiry of a timer, and how long ago it was called.
Elapsed(t, due, s) == due <= ival[t] /\ s = IF due <= 0 THEN ival[t] ELSE ival[t] - due

TimerInv ==
  /\ timers \in Seq(Entry) /\ now \in Int /\ now <= 0
  /\ since \in [Timer -> Nat]
  /\ Ordered /\ NoneMarked /\ Unique
  /\ \A t \in Timer : \E i \in DOMAIN timers : timers[i].id = t
  /\ \A i \in DOMAIN timers : Elapsed(timers[i].id, timers[i].due, since[timers[i].id])

LEMMA InitTimerInv == Init => TimerInv
<1> SUFFICES ASSUME Init PROVE TimerInv
  OBVIOUS
<1>1. NewTimer \subseteq Entry /\ \A e \in NewTimer : e.due = ival[e.id] /\ ~e.remove
  <2>1. ASSUME NEW t \in Timer
        PROVE  LET e == [id |-> t, due |-> ival[t], remove |-> FALSE]
               IN  e \in Entry /\ e.due = ival[e.id] /\ ~e.remove
    BY TimerAssumption DEF Entry
  <2> QED
    BY <2>1, Zenon DEF NewTimer
<1>2. Cardinality(Timer) \in Nat
  BY TimerAssumption, FS_CardinalityType
<1>3. timers \in Seq(Entry) /\ DOMAIN timers = 1 .. Cardinality(Timer)
      /\ \A i \in DOMAIN timers : timers[i] \in NewTimer /\ timers[i].id \in Timer
  <2>1. timers \in [1 .. Cardinality(Timer) -> Entry]
        /\ \A i \in 1 .. Cardinality(Timer) : timers[i] \in NewTimer
    BY <1>1, Zenon DEF Init
  <2>2. \A i \in 1 .. Cardinality(Timer) : timers[i].id \in Timer
    BY <2>1, EntryFields
  <2> QED
    BY <2>1, <2>2, <1>2
<1>4. Ordered /\ Unique
  <2>1. \A i \in DOMAIN timers : timers[i].due \in Int /\ timers[i].due = ival[timers[i].id]
    BY <1>1, <1>3 DEF Entry
  <2>2. \A i, j \in DOMAIN timers : i \in Int /\ j \in Int /\ (i < j => timers[i].due < timers[j].due)
    BY <1>3 DEF Init
  <2> QED
    BY <2>1, <2>2 DEF Ordered, Unique
<1>5. \A i \in DOMAIN timers : Elapsed(timers[i].id, timers[i].due, since[timers[i].id])
  BY <1>1, <1>3, TimerAssumption DEF Init, Elapsed
<1> QED
  BY <1>1, <1>3, <1>4, <1>5 DEF Init, TimerInv, NoneMarked

\* The clock goes on: what is left goes down, what has passed goes up.
LEMMA AdvanceTimerInv ==
  ASSUME TimerInv, Advance
  PROVE  TimerInv'
<1>1. /\ DOMAIN timers = 1 .. Len(timers) /\ Len(timers) \in Nat
      /\ \A i \in DOMAIN timers : timers[i] \in Entry
  BY DEF TimerInv
<1>2. timers' = [i \in DOMAIN timers |-> [timers[i] EXCEPT !.due = @ - 1]]
  BY DEF Advance, Shifted
<1>3. DOMAIN timers' = DOMAIN timers
      /\ \A i \in DOMAIN timers :
           /\ timers'[i] \in Entry /\ timers'[i].id = timers[i].id
           /\ timers'[i].due = timers[i].due - 1
           /\ timers'[i].remove = timers[i].remove
  <2>1. ASSUME NEW i \in DOMAIN timers
        PROVE  /\ timers'[i] \in Entry /\ timers'[i].id = timers[i].id
               /\ timers'[i].due = timers[i].due - 1
               /\ timers'[i].remove = timers[i].remove
    <3>1. timers[i] \in Entry /\ timers[i].due - 1 \in Int
      BY <1>1, EntryFields
    <3>2. timers'[i] = [timers[i] EXCEPT !.due = timers[i].due - 1]
      BY <1>2
    <3> QED
      <4>1. \A d \in Int :
              /\ [timers[i] EXCEPT !.due = d] \in Entry
              /\ [timers[i] EXCEPT !.due = d].id = timers[i].id
              /\ [timers[i] EXCEPT !.due = d].due = d
              /\ [timers[i] EXCEPT !.due = d].remove = timers[i].remove
        BY <3>1, EntryFields, Zenon
      <4> QED
        BY <3>1, <3>2, <4>1, Zenon
  <2> QED
    BY <2>1, <1>2
<1>4. timers' \in Seq(Entry)
  <2>1. timers' \in [1 .. Len(timers) -> Entry]
    BY <1>1, <1>2, <1>3
  <2> QED
    BY <2>1, <1>1
<1>5. now' \in Int /\ now' <= 0 /\ since' \in [Timer -> Nat]
  BY DEF TimerInv, Advance, Shifted
<1>6. Ordered' /\ NoneMarked' /\ Unique'
      /\ \A t \in Timer : \E i \in DOMAIN timers' : timers'[i].id = t
  <2>1. \A i \in DOMAIN timers : timers[i].due \in Int
    BY <1>1, EntryFields
  <2>2. Ordered'
    BY <1>3, <2>1 DEF TimerInv, Ordered
  <2>3. NoneMarked' /\ Unique'
    BY <1>3 DEF TimerInv, NoneMarked, Unique
  <2>4. \A t \in Timer : \E i \in DOMAIN timers' : timers'[i].id = t
    BY <1>3 DEF TimerInv
  <2> QED
    BY <2>2, <2>3, <2>4
<1>7. ASSUME NEW i \in DOMAIN timers
      PROVE  Elapsed(timers[i].id, timers[i].due - 1, since'[timers[i].id])
  <2> DEFINE t == timers[i].id
  <2>1. t \in Timer /\ timers[i].due \in Int /\ ival[t] \in Nat \ {0}
    BY <1>1, TimerAssumption DEF Entry
  <2>2. since'[t] = IF since[t] < ival[t] THEN since[t] + 1 ELSE since[t]
    BY <2>1 DEF Advance
  <2>3. Elapsed(t, timers[i].due, since[t])
    BY DEF TimerInv
  <2> QED
    BY <2>1, <2>2, <2>3 DEF Elapsed
<1> QED
  BY <1>3, <1>4, <1>5, <1>6, <1>7 DEF TimerInv

\* A timer expires: it takes its new place, and its old entry goes.
LEMMA ExpireTimerInv ==
  ASSUME TimerInv, Expire
  PROVE  TimerInv' /\ ~Head(timers).remove /\ since[Head(timers).id] = ival[Head(timers).id]
<1> DEFINE n == Len(timers)
           t == timers[1].id
           e == [id |-> t, due |-> ival[t], remove |-> FALSE]
           m == TimerMarked(timers, t)
<1>1. /\ n \in Nat /\ n > 0 /\ DOMAIN timers = 1 .. n /\ Head(timers) = timers[1]
      /\ \A i \in 1 .. n : timers[i] \in Entry /\ timers[i].due \in Int
      /\ timers[1].due < 0 /\ 1 \in 1 .. n
  <2>1. n \in Nat /\ DOMAIN timers = 1 .. n /\ timers # <<>> /\ Head(timers) = timers[1]
    BY DEF TimerInv, Expire, Expired
  <2>2. n > 0
    BY <2>1 DEF TimerInv
  <2>3. \A i \in 1 .. n : timers[i] \in Entry /\ timers[i].due \in Int
    BY <2>1, ElementOfSeq, EntryFields DEF TimerInv
  <2>4. timers[1].due < 0 /\ 1 \in 1 .. n
    BY <2>1, <2>2, <2>3 DEF TimerInv, Expire, Expired
  <2> QED
    BY <2>1, <2>2, <2>3, <2>4
<1>2. t \in Timer /\ ival[t] \in Nat \ {0} /\ e \in Entry
  BY <1>1, TimerAssumption DEF Entry
<1>3. ~timers[1].remove
  BY <1>1 DEF TimerInv, NoneMarked
<1>4. since[t] = ival[t]
  <2>1. Elapsed(t, timers[1].due, since[t])
    BY <1>1 DEF TimerInv
  <2> QED
    BY <2>1, <1>1 DEF Elapsed
<1>5. m \in Seq(Entry) /\ Len(m) = n
      /\ \A i \in 1 .. n : m[i].due = timers[i].due /\ (i # 1 => m[i] = timers[i])
  <2>1. m = [i \in 1 .. n |-> [timers[i] EXCEPT !.remove = @ \/ timers[i].id = t]]
    BY <1>1 DEF TimerMarked
  <2>2. \A i \in 1 .. n : m[i] \in Entry /\ m[i].due = timers[i].due
    <3>1. ASSUME NEW i \in 1 .. n PROVE m[i] \in Entry /\ m[i].due = timers[i].due
      <4>1. (timers[i].remove \/ timers[i].id = t) \in BOOLEAN
        BY <1>1, EntryFields
      <4>2. m[i] = [timers[i] EXCEPT !.remove = timers[i].remove \/ timers[i].id = t]
        BY <2>1, Zenon
      <4>3. \A b \in BOOLEAN : /\ [timers[i] EXCEPT !.remove = b] \in Entry
                              /\ [timers[i] EXCEPT !.remove = b].due = timers[i].due
        BY <1>1, EntryFields
      <4> QED
        BY <4>1, <4>2, <4>3, Zenon
    <3> QED
      BY <3>1
  <2>3. ASSUME NEW i \in 1 .. n, i # 1 PROVE m[i] = timers[i]
    <3>1. ~timers[i].remove /\ timers[i].id # t
      BY <1>1, <2>3 DEF TimerInv, NoneMarked, Unique
    <3>2. m[i] = [timers[i] EXCEPT !.remove = timers[i].remove \/ timers[i].id = t]
      BY <2>1, Zenon
    <3>3. (timers[i].remove \/ timers[i].id = t) = timers[i].remove
      BY <3>1, <1>1, EntryFields
    <3> QED
      BY <3>2, <3>3, <1>1, EntryFields, Zenon
  <2> HIDE DEF m
  <2>4. m \in Seq(Entry) /\ Len(m) = n
    BY <2>1, <2>2, <1>1
  <2> QED
    BY <2>2, <2>3, <2>4
<1> HIDE DEF m
<1>6. PICK k : IsPlace(m, e, k) /\ Inserted(m, e) = InsertAt(m, k + 1, e)
  <2> HIDE DEF e
  <2> QED
    BY <1>2, <1>5, PlaceExists
<1>7. k \in 1 .. n /\ (\A i \in 1 .. k : timers[i].due < ival[t])
      /\ (k < n => timers[k + 1].due >= ival[t])
  <2>1. k \in 0 .. n /\ (\A i \in 1 .. k : m[i].due < ival[t])
        /\ (k < n => ~(m[k + 1].due < ival[t]))
    BY <1>5, <1>6 DEF IsPlace
  <2>2. k # 0
    <3>1. m[1].due < ival[t] /\ 0 < n /\ 0 + 1 = 1
      BY <1>1, <1>2, <1>5
    <3> QED
      BY <2>1, <3>1
  <2> QED
    BY <2>1, <2>2, <1>1, <1>2, <1>5
<1>8. timers' = Tail(InsertAt(m, k + 1, e)) /\ since' = [since EXCEPT ![t] = 0]
      /\ now' = now
  <2>1. TimerAdded(timers, t) = Inserted(m, e)
    BY DEF TimerAdded, NextDue, m
  <2> QED
    BY <1>1, <1>3, <1>6, <2>1 DEF Expire
<1> HIDE DEF e
<1>9. /\ timers' \in Seq(Entry) /\ Len(timers') = n /\ DOMAIN timers' = 1 .. n
      /\ \A i \in 1 .. n : timers'[i] =
           IF i < k THEN timers[i + 1] ELSE IF i = k THEN e ELSE timers[i]
  <2>1. /\ timers' \in Seq(Entry) /\ Len(timers') = n
        /\ \A i \in 1 .. n : timers'[i] =
             IF i < k THEN m[i + 1] ELSE IF i = k THEN e ELSE m[i]
    <3>1. k \in 1 .. Len(m)
      BY <1>5, <1>7
    <3>2. /\ Tail(InsertAt(m, k + 1, e)) \in Seq(Entry)
          /\ Len(Tail(InsertAt(m, k + 1, e))) = Len(m)
          /\ \A i \in 1 .. Len(m) : Tail(InsertAt(m, k + 1, e))[i] =
               IF i < k THEN m[i + 1] ELSE IF i = k THEN e ELSE m[i]
      <4>1. m \in Seq(Entry) /\ e \in Entry
        BY <1>2, <1>5
      <4> HIDE DEF m
      <4> QED
        BY <3>1, <4>1, TailOfInserted, ZenonT(120)
    <3> QED
      BY <1>5, <1>8, <3>2
  <2>2. \A i \in 1 .. n : /\ i < k => m[i + 1] = timers[i + 1]
                          /\ i > k => m[i] = timers[i]
    BY <1>5, <1>7
  <2>3. \A i \in 1 .. n : ~(i < k) /\ i # k => i > k
    BY <1>7
  <2> QED
    BY <2>1, <2>2, <2>3
<1>10. e.id = t /\ e.due = ival[t] /\ ~e.remove
  BY DEF e
<1>11. Ordered'
  <2>1. \A i, j \in 1 .. n : i < j => timers[i].due <= timers[j].due
    BY <1>1 DEF TimerInv, Ordered
  <2>2. \A j \in 1 .. n : j > k => timers[j].due >= ival[t]
    <3>1. ASSUME NEW j \in 1 .. n, j > k PROVE timers[j].due >= ival[t]
      <4>1. k < n /\ k + 1 \in 1 .. n /\ (k + 1 = j \/ k + 1 < j)
        BY <3>1, <1>7
      <4> QED
        BY <4>1, <2>1, <1>1, <1>2, <1>7
    <3> QED
      BY <3>1
  <2>3. ASSUME NEW i \in 1 .. n, NEW j \in 1 .. n, i < j
        PROVE  timers'[i].due <= timers'[j].due
    <3>1. CASE j < k
      <4>1. i < k /\ i + 1 < j + 1 /\ i + 1 \in 1 .. n /\ j + 1 \in 1 .. n
        BY <3>1, <2>3, <1>7
      <4> QED
        BY <4>1, <3>1, <2>1, <1>9
    <3>2. CASE j = k
      <4>1. i < k /\ i + 1 \in 1 .. k /\ i + 1 \in 1 .. n
        BY <3>2, <2>3, <1>7
      <4>2. timers'[i] = timers[i + 1] /\ timers'[j] = e
        BY <4>1, <3>2, <1>9
      <4>3. timers[i + 1].due < ival[t] /\ timers[i + 1].due \in Int
        BY <4>1, <1>1, <1>7
      <4> QED
        BY <4>2, <4>3, <1>2, <1>10
    <3>3. CASE j > k
      <4>1. timers'[j] = timers[j] /\ timers[j].due >= ival[t]
        BY <3>3, <2>2, <1>7, <1>9
      <4>2. CASE i < k
        <5>1. i + 1 \in 1 .. k /\ i + 1 \in 1 .. n /\ timers'[i] = timers[i + 1]
          BY <4>2, <1>7, <1>9
        <5>2. timers[i + 1].due < ival[t] /\ timers[i + 1].due \in Int /\ timers[j].due \in Int
          BY <5>1, <1>1, <1>7
        <5> QED
          BY <5>1, <5>2, <4>1, <1>2
      <4>3. CASE i = k
        BY <4>1, <4>3, <1>9, <1>10
      <4>4. CASE i > k
        BY <4>1, <4>4, <2>1, <2>3, <1>7, <1>9
      <4> QED
        BY <4>2, <4>3, <4>4, <1>7
    <3> QED
      BY <3>1, <3>2, <3>3, <1>7
  <2> QED
    BY <2>3, <1>9 DEF Ordered
<1>12. \A i \in 1 .. n : \E j \in 1 .. n :
         \/ i = k /\ j = 1
         \/ i < k /\ j = i + 1 /\ timers'[i] = timers[j]
         \/ i > k /\ j = i /\ j # 1 /\ timers'[i] = timers[j]
  <2>1. ASSUME NEW i \in 1 .. n, i < k
        PROVE  i + 1 \in 1 .. n /\ timers'[i] = timers[i + 1]
    BY <2>1, <1>7, <1>9
  <2>2. ASSUME NEW i \in 1 .. n, i > k
        PROVE  i # 1 /\ timers'[i] = timers[i]
    BY <2>2, <1>7, <1>9
  <2> QED
    BY <2>1, <2>2, <1>1, <1>7
<1>12a. ASSUME NEW i \in 1 .. n, i # k
        PROVE  \E j \in 1 .. n : j # 1 /\ timers'[i] = timers[j]
  <2>1. PICK j \in 1 .. n :
          \/ i < k /\ j = i + 1 /\ timers'[i] = timers[j]
          \/ i > k /\ j # 1 /\ timers'[i] = timers[j]
    BY <1>12, <1>12a
  <2> QED
    BY <2>1, <1>7
<1>13. Unique'
  <2>1. \A i, j \in 1 .. n : timers[i].id = timers[j].id => i = j
    BY <1>1 DEF TimerInv, Unique
  <2>2. \A i \in 1 .. n : timers'[i].id = t <=> i = k
    <3>1. \A i \in 1 .. n : i # k => \E j \in 1 .. n : j # 1 /\ timers'[i] = timers[j]
      BY <1>12a
    <3> QED
      BY <3>1, <2>1, <1>1, <1>7, <1>9, <1>10
  <2>3. ASSUME NEW i \in 1 .. n, NEW j \in 1 .. n, timers'[i].id = timers'[j].id
        PROVE  i = j
    <3>1. CASE i = k
      BY <3>1, <2>2, <2>3
    <3>2. CASE j = k
      BY <3>2, <2>2, <2>3
    <3>3. CASE i # k /\ j # k
      <4>1. PICK a \in 1 .. n :
              \/ i < k /\ a = i + 1 /\ timers'[i] = timers[a]
              \/ i > k /\ a = i /\ timers'[i] = timers[a]
        BY <3>3, <1>12
      <4>2. PICK b \in 1 .. n :
              \/ j < k /\ b = j + 1 /\ timers'[j] = timers[b]
              \/ j > k /\ b = j /\ timers'[j] = timers[b]
        BY <3>3, <1>12
      <4>3. a = b
        BY <4>1, <4>2, <2>1, <2>3
      <4> QED
        BY <4>1, <4>2, <4>3, <1>7
    <3> QED
      BY <3>1, <3>2, <3>3
  <2> QED
    BY <2>3, <1>9 DEF Unique
<1>14. NoneMarked'
  <2>1. \A j \in 1 .. n : ~timers[j].remove
    BY <1>1 DEF TimerInv, NoneMarked
  <2> QED
    <3>1. ASSUME NEW i \in 1 .. n PROVE ~timers'[i].remove
      <4>1. CASE i = k
        BY <4>1, <1>9, <1>10
      <4>2. CASE i # k
        BY <4>2, <1>12a, <2>1
      <4> QED
        BY <4>1, <4>2
    <3> QED
      BY <3>1, <1>9 DEF NoneMarked
<1>15. ASSUME NEW u \in Timer PROVE \E i \in 1 .. n : timers'[i].id = u
  <2>1. PICK j \in 1 .. n : timers[j].id = u
    BY <1>1 DEF TimerInv
  <2>2. CASE j = 1
    BY <2>1, <2>2, <1>7, <1>9, <1>10
  <2>3. CASE j # 1 /\ j <= k
    <3>1. j - 1 \in 1 .. n /\ j - 1 < k /\ (j - 1) + 1 = j
      BY <2>3, <1>7
    <3>2. timers'[j - 1] = timers[j]
      BY <3>1, <1>9
    <3> QED
      BY <2>1, <3>1, <3>2
  <2>4. CASE j > k
    <3>1. timers'[j] = timers[j]
      BY <2>4, <1>7, <1>9
    <3> QED
      BY <2>1, <3>1
  <2> QED
    BY <2>2, <2>3, <2>4, <1>7
<1>16. since' \in [Timer -> Nat]
  BY <1>2, <1>8 DEF TimerInv
<1>17. ASSUME NEW i \in 1 .. n
       PROVE  Elapsed(timers'[i].id, timers'[i].due, since'[timers'[i].id])
  <2>1. CASE i = k
    <3>1. timers'[i] = e /\ since'[t] = 0
      BY <2>1, <1>2, <1>8, <1>9 DEF TimerInv
    <3> QED
      BY <3>1, <1>2, <1>10 DEF Elapsed
  <2>2. CASE i # k
    <3>1. PICK j \in 1 .. n : j # 1 /\ timers'[i] = timers[j]
      BY <2>2, <1>12a
    <3>2. timers[j].id # t /\ timers[j].id \in Timer
      BY <3>1, <1>1 DEF TimerInv, Unique, Entry
    <3>3. since'[timers[j].id] = since[timers[j].id]
      BY <3>2, <1>8 DEF TimerInv
    <3>4. Elapsed(timers[j].id, timers[j].due, since[timers[j].id])
      BY <1>1 DEF TimerInv
    <3> QED
      BY <3>1, <3>3, <3>4
  <2> QED
    BY <2>1, <2>2
<1> QED
  BY <1>1, <1>3, <1>4, <1>8, <1>9, <1>11, <1>13, <1>14, <1>15, <1>16, <1>17 DEF TimerInv

\* Every step keeps the invariant; removing what is marked finds nothing.
LEMMA NextTimerInv ==
  ASSUME TimerInv, [Next]_vars
  PROVE  TimerInv'
<1>1. CASE Advance
  BY <1>1, AdvanceTimerInv
<1>2. CASE Expire
  BY <1>2, ExpireTimerInv
<1>3. CASE EndPoll
  <2>1. timers' = timers /\ now' = 0 /\ since' = since
    BY <1>3, KeptAll DEF EndPoll, TimerInv, NoneMarked
  <2> QED
    BY <2>1 DEF TimerInv, Ordered, NoneMarked, Unique
<1>4. CASE StartTimers
  <2>1. timers' = timers /\ now' = 0 /\ since' = since
    BY <1>4 DEF StartTimers
  <2> QED
    BY <2>1 DEF TimerInv, Ordered, NoneMarked, Unique
<1>5. ASSUME UNCHANGED timerVars PROVE TimerInv'
  BY <1>5 DEF timerVars, TimerInv, Ordered, NoneMarked, Unique
<1>6. CASE \/ Select \/ Skip \/ ReadBus \/ ReadServer
           \/ (\E c \in Client : ReadClient(c)) \/ (\E u \in User : Arrive(u))
           \/ UNCHANGED vars
  <2>1. UNCHANGED timerVars
    BY <1>6 DEF Select, Skip, ReadBus, ReadServer, ReadClient, Arrive, vars, timerVars
  <2> QED
    BY <2>1, <1>5
<1> QED
  BY <1>1, <1>2, <1>3, <1>4, <1>6 DEF Next, PollStep

LEMMA Invariance == Spec => []TimerInv
  BY InitTimerInv, NextTimerInv, PTL DEF Spec

(***************************************************************************)
(* The list of descriptors.                                                *)
(***************************************************************************)

Unmarked(list) == {i \in DOMAIN list : ~list[i].remove}

\* The descriptor a user has.
Own(s, u) == IF u = Server THEN 1 ELSE IF u = Bus THEN 0 ELSE s[u]

\* The list and the sockets agree.
Matched(list, s) ==
  /\ \A i \in Unmarked(list) : list[i].fd = Own(s, list[i].user)
  /\ \A c \in Client : s[c] # NoFd =>
       \E i \in Unmarked(list) : list[i].fd = s[c] /\ list[i].user = c
  /\ \A i, j \in Unmarked(list) : list[i].fd = list[j].fd => i = j

Sockets == [Client -> (Fd \ {0, 1}) \cup {NoFd}]

LEMMA FdEntryFields ==
  ASSUME NEW e \in FdEntry
  PROVE  /\ e.fd \in Fd /\ e.user \in User /\ e.remove \in BOOLEAN
         /\ \A b \in BOOLEAN :
              /\ [e EXCEPT !.remove = b] \in FdEntry /\ [e EXCEPT !.remove = b].remove = b
              /\ [e EXCEPT !.remove = b].fd = e.fd /\ [e EXCEPT !.remove = b].user = e.user
  BY Zenon DEF FdEntry

\* A connection is added under a descriptor that nobody has.
LEMMA MatchedAdded ==
  ASSUME NEW list \in Seq(FdEntry), NEW s \in Sockets, Matched(list, s),
         NEW c \in Client, s[c] = NoFd,
         NEW fd \in Fd \ ({0, 1} \cup {s[d] : d \in Client})
  PROVE  /\ FdAdded(list, fd, c) \in Seq(FdEntry)
         /\ Len(FdAdded(list, fd, c)) = Len(list) + 1
         /\ Matched(FdAdded(list, fd, c), [s EXCEPT ![c] = fd])
<1> DEFINE e == [fd |-> fd, user |-> c, remove |-> FALSE]
           new == <<e>> \o list
           t == [s EXCEPT ![c] = fd]
<1>1. e \in FdEntry /\ e.fd = fd /\ e.user = c /\ ~e.remove
  BY DEF FdEntry, User
<1>2. \A i \in DOMAIN list : list[i] \in FdEntry /\ list[i].fd \in Fd /\ list[i].user \in User
  BY ElementOfSeq, FdEntryFields
<1>3. \A i \in Unmarked(list) : list[i].fd # fd
  <2>1. ASSUME NEW i \in Unmarked(list) PROVE list[i].fd # fd
    <3>1. list[i].fd = Own(s, list[i].user) /\ list[i].user \in User
      BY <1>2 DEF Matched, Unmarked
    <3> QED
      BY <3>1 DEF Own, User
  <2> QED
    BY <2>1
<1>4. FdAdded(list, fd, c) = new
  BY <1>3, Zenon DEF FdAdded, Registered, Unmarked
<1>5. /\ Len(list) \in Nat /\ DOMAIN list = 1 .. Len(list)
      /\ new \in Seq(FdEntry) /\ Len(new) = Len(list) + 1 /\ DOMAIN new = 1 .. Len(list) + 1
      /\ new[1] = e /\ \A i \in 1 .. Len(list) : new[i + 1] = list[i]
  <2> HIDE DEF e
  <2> QED
    BY <1>1
<1>6. t \in Sockets /\ t[c] = fd /\ \A d \in Client : d # c => t[d] = s[d]
  BY DEF Sockets
<1> HIDE DEF e, new, t
<1>7. /\ 1 \in Unmarked(new)
      /\ \A i \in Unmarked(list) : i + 1 \in Unmarked(new) /\ new[i + 1] = list[i]
      /\ \A i \in Unmarked(new) : i # 1 => i - 1 \in Unmarked(list) /\ new[i] = list[i - 1]
                                           /\ i \in Int
  <2>1. ASSUME NEW i \in DOMAIN new, i # 1
        PROVE  i - 1 \in DOMAIN list /\ new[i] = list[i - 1] /\ i \in Int
    <3>1. i - 1 \in 1 .. Len(list) /\ i - 1 + 1 = i /\ i \in Int
      BY <1>5, <2>1
    <3> QED
      BY <1>5, <3>1
  <2>2. 1 \in DOMAIN new /\ \A i \in DOMAIN list : i + 1 \in DOMAIN new /\ new[i + 1] = list[i]
    BY <1>5
  <2> QED
    BY <1>1, <1>5, <2>1, <2>2 DEF Unmarked
<1>8. \A i \in Unmarked(new) : new[i].fd = Own(t, new[i].user)
  <2>1. ASSUME NEW i \in Unmarked(new), i # 1 PROVE new[i].fd = Own(t, new[i].user)
    <3>1. i - 1 \in Unmarked(list) /\ new[i] = list[i - 1]
      BY <1>7, <2>1
    <3>2. new[i].fd = Own(s, new[i].user) /\ new[i].user \in User /\ new[i].fd \in Fd
      BY <1>2, <3>1 DEF Matched, Unmarked
    <3>3. CASE new[i].user = c
      <4>1. Own(s, c) = NoFd
        BY UserAssumption DEF Own
      <4> QED
        BY <3>2, <3>3, <4>1, UserAssumption
    <3> QED
      BY <3>2, <3>3, <1>6 DEF Own, User
  <2>2. Own(t, c) = fd
    BY <1>6, UserAssumption DEF Own
  <2> QED
    BY <1>1, <1>5, <2>1, <2>2
<1>9. ASSUME NEW d \in Client, t[d] # NoFd
      PROVE  \E i \in Unmarked(new) : new[i].fd = t[d] /\ new[i].user = d
  <2>1. CASE d = c
    BY <1>1, <1>5, <1>6, <1>7, <2>1
  <2>2. CASE d # c
    <3>1. PICK i \in Unmarked(list) : list[i].fd = s[d] /\ list[i].user = d
      BY <1>6, <1>9, <2>2 DEF Matched
    <3> QED
      BY <1>6, <1>7, <2>2, <3>1
  <2> QED
    BY <2>1, <2>2
<1>10. ASSUME NEW i \in Unmarked(new), NEW j \in Unmarked(new), new[i].fd = new[j].fd
       PROVE  i = j
  <2>1. CASE i = 1 \/ j = 1
    BY <1>1, <1>3, <1>5, <1>7, <1>10, <2>1
  <2>2. CASE i # 1 /\ j # 1
    <3>1. i - 1 = j - 1 /\ i \in Int /\ j \in Int
      BY <1>7, <1>10, <2>2 DEF Matched
    <3> QED
      BY <3>1
  <2> QED
    BY <2>1, <2>2
<1> QED
  BY <1>4, <1>5, <1>8, <1>9, <1>10 DEF Matched, t

\* A connection is closed and marked.
LEMMA MatchedMarked ==
  ASSUME NEW list \in Seq(FdEntry), NEW s \in Sockets, Matched(list, s),
         NEW c \in Client
  PROVE  /\ FdMarked(list, s[c], c) \in Seq(FdEntry)
         /\ Len(FdMarked(list, s[c], c)) = Len(list)
         /\ Matched(FdMarked(list, s[c], c), [s EXCEPT ![c] = NoFd])
<1> DEFINE new == FdMarked(list, s[c], c)
           t == [s EXCEPT ![c] = NoFd]
           b(i) == list[i].remove \/ (list[i].fd = s[c] /\ list[i].user = c)
<1>1. /\ Len(list) \in Nat /\ DOMAIN list = 1 .. Len(list)
      /\ \A i \in 1 .. Len(list) : list[i] \in FdEntry
  OBVIOUS
<1>2. /\ DOMAIN new = 1 .. Len(list)
      /\ \A i \in 1 .. Len(list) : new[i] = [list[i] EXCEPT !.remove = b(i)]
  BY <1>1 DEF FdMarked
<1>3. ASSUME NEW i \in 1 .. Len(list)
      PROVE  /\ new[i] \in FdEntry /\ new[i].fd = list[i].fd /\ new[i].user = list[i].user
             /\ new[i].remove = b(i) /\ list[i].user \in User
  <2>1. b(i) \in BOOLEAN
    OBVIOUS
  <2>2. new[i] = [list[i] EXCEPT !.remove = b(i)] /\ list[i] \in FdEntry
    BY <1>1, <1>2
  <2> HIDE DEF b, new
  <2>3. \A v \in BOOLEAN :
          /\ [list[i] EXCEPT !.remove = v] \in FdEntry
          /\ [list[i] EXCEPT !.remove = v].remove = v
          /\ [list[i] EXCEPT !.remove = v].fd = list[i].fd
          /\ [list[i] EXCEPT !.remove = v].user = list[i].user
    BY <2>2, FdEntryFields
  <2>4. list[i].user \in User
    BY <2>2, FdEntryFields
  <2> QED
    BY <2>1, <2>2, <2>3, <2>4, Zenon
<1>4. new \in Seq(FdEntry) /\ Len(new) = Len(list)
  <2>1. new \in [1 .. Len(list) -> FdEntry]
    BY <1>1, <1>3 DEF FdMarked
  <2> HIDE DEF new
  <2> QED
    BY <1>1, <2>1
<1>5. t[c] = NoFd /\ \A d \in Client : d # c => t[d] = s[d]
  BY DEF Sockets
<1>6. \A i \in Unmarked(new) : i \in Unmarked(list) /\ list[i].user # c
  <2>1. ASSUME NEW i \in Unmarked(new) PROVE i \in Unmarked(list) /\ list[i].user # c
    <3>1. i \in 1 .. Len(list) /\ ~b(i)
      BY <1>2, <1>3 DEF Unmarked
    <3>2. i \in Unmarked(list) /\ list[i].fd = Own(s, list[i].user)
      BY <1>1, <3>1 DEF Unmarked, Matched
    <3> QED
      BY <3>1, <3>2, UserAssumption DEF Own
  <2> QED
    BY <2>1
<1>7. \A i \in Unmarked(list) : list[i].user # c => i \in Unmarked(new)
  BY <1>1, <1>2, <1>3 DEF Unmarked
<1> HIDE DEF new, t, b
<1>8. \A i \in Unmarked(new) : i \in 1 .. Len(list) /\ new[i].fd = list[i].fd
                               /\ new[i].user = list[i].user /\ list[i].user \in User
  BY <1>2, <1>3 DEF Unmarked
<1>9. \A i \in Unmarked(new) : new[i].fd = Own(t, new[i].user)
  BY <1>5, <1>6, <1>8 DEF Matched, Own, User
<1>10. ASSUME NEW d \in Client, t[d] # NoFd
       PROVE  \E i \in Unmarked(new) : new[i].fd = t[d] /\ new[i].user = d
  <2>1. d # c /\ t[d] = s[d]
    BY <1>5, <1>10
  <2>2. PICK i \in Unmarked(list) : list[i].fd = s[d] /\ list[i].user = d
    BY <1>10, <2>1 DEF Matched
  <2> QED
    BY <1>7, <1>8, <2>1, <2>2
<1>11. \A i, j \in Unmarked(new) : new[i].fd = new[j].fd => i = j
  BY <1>6, <1>8 DEF Matched
<1> QED
  BY <1>4, <1>9, <1>10, <1>11 DEF Matched, new, t

\* What is marked goes.
LEMMA MatchedKept ==
  ASSUME NEW list \in Seq(FdEntry), NEW s, Matched(list, s)
  PROVE  Kept(list) \in Seq(FdEntry) /\ Matched(Kept(list), s)
<1> DEFINE K == Kept(list)
<1>1. K \in Seq(FdEntry) /\ DOMAIN list = 1 .. Len(list)
  BY KeptPlaces
<1>2. PICK place : Places(list, Len(list), K, place)
  BY KeptPlaces
<1> HIDE DEF K
<1>3. Len(K) \in Nat /\ DOMAIN K = 1 .. Len(K)
  BY <1>1
<1>4. \A j \in 1 .. Len(K) : place[j] \in Unmarked(list) /\ K[j] = list[place[j]] /\ j \in Unmarked(K)
  BY <1>1, <1>2, <1>3 DEF Places, Unmarked
<1>5. \A i \in Unmarked(list) : \E j \in Unmarked(K) : K[j] = list[i]
  <2>1. ASSUME NEW i \in Unmarked(list) PROVE \E j \in Unmarked(K) : K[j] = list[i]
    <3>1. i \in 1 .. Len(list) /\ ~list[i].remove
      BY <1>1 DEF Unmarked
    <3>2. PICK j \in 1 .. Len(K) : place[j] = i
      BY <1>2, <3>1 DEF Places
    <3> QED
      BY <1>4, <3>2
  <2> QED
    BY <2>1
<1>6. \A j, k \in 1 .. Len(K) : place[j] = place[k] => j = k
  <2>1. ASSUME NEW j \in 1 .. Len(K), NEW k \in 1 .. Len(K), j # k PROVE place[j] # place[k]
    <3>1. place[j] \in Int /\ place[k] \in Int
      BY <1>1, <1>4 DEF Unmarked
    <3>2. j < k \/ k < j
      BY <1>3, <2>1
    <3>3. place[j] < place[k] \/ place[k] < place[j]
      BY <1>2, <3>2 DEF Places
    <3> QED
      BY <3>1, <3>3
  <2> QED
    BY <2>1
<1>7. Unmarked(K) = 1 .. Len(K)
  BY <1>3, <1>4 DEF Unmarked
<1>8. \A j \in Unmarked(K) : K[j].fd = Own(s, K[j].user)
  BY <1>4, <1>7 DEF Matched
<1>9. \A c \in Client : s[c] # NoFd =>
        \E i \in Unmarked(K) : K[i].fd = s[c] /\ K[i].user = c
  <2>1. ASSUME NEW c \in Client, s[c] # NoFd
        PROVE  \E i \in Unmarked(K) : K[i].fd = s[c] /\ K[i].user = c
    <3>1. PICK i \in Unmarked(list) : list[i].fd = s[c] /\ list[i].user = c
      BY <2>1 DEF Matched
    <3> QED
      BY <1>5, <3>1
  <2> QED
    BY <2>1
<1>10. \A j, k \in Unmarked(K) : K[j].fd = K[k].fd => j = k
  BY <1>4, <1>6, <1>7 DEF Matched
<1> QED
  BY <1>1, <1>8, <1>9, <1>10 DEF Matched, K

\* The inductive invariant of the walk over the descriptors.  That an unmarked
\* entry of a client carries the descriptor the client has now is what makes the
\* lowest free descriptor one that no unmarked entry carries.
FdInv ==
  /\ phase \in {"select", "fds", "timers"}
  /\ fds \in Seq(FdEntry) /\ left \in 0 .. Len(fds) /\ (phase # "fds" => left = 0)
  /\ ready \subseteq Fd /\ sock \in Sockets /\ input \subseteq User
  /\ Matched(fds, sock)

LEMMA InitFdInv == Init => FdInv
<1> SUFFICES ASSUME Init PROVE FdInv
  OBVIOUS
<1> DEFINE e == [fd |-> 1, user |-> Server, remove |-> FALSE]
           b == [fd |-> 0, user |-> Bus, remove |-> FALSE]
<1>1. e \in FdEntry /\ e.fd = 1 /\ e.user = Server /\ b \in FdEntry /\ b.fd = 0 /\ b.user = Bus
  BY UserAssumption DEF FdEntry, User
<1>2. fds = <<e, b>>
  BY DEF Init
<1>3. sock \in Sockets /\ \A c \in Client : sock[c] = NoFd
  BY DEF Init, Sockets
<1> HIDE DEF e, b
<1>4. fds \in Seq(FdEntry) /\ DOMAIN fds = {1, 2} /\ fds[1] = e /\ fds[2] = b /\ Len(fds) = 2
  BY <1>1, <1>2
<1>5. Matched(fds, sock)
  BY <1>1, <1>3, <1>4, UserAssumption DEF Matched, Unmarked, Own
<1> QED
  BY <1>3, <1>4, <1>5 DEF FdInv, Init

LEMMA NextFdInv ==
  ASSUME FdInv, [Next]_vars
  PROVE  FdInv'
<1>1. Len(fds) \in Nat /\ left \in Nat
  BY DEF FdInv
<1>2. CASE Select
  <2>1. Readable \subseteq Fd
    <3>1. \A i \in DOMAIN fds : fds[i].fd \in Fd
      BY ElementOfSeq, FdEntryFields DEF FdInv
    <3> QED
      BY <3>1 DEF Readable
  <2>2. left' \in 0 .. Len(fds) /\ phase' = "fds" /\ UNCHANGED <<fds, sock, input>>
    BY <1>1, <1>2 DEF Select
  <2> QED
    BY <1>2, <2>1, <2>2 DEF FdInv, Select
<1>3. CASE Skip \/ ReadBus
  <2>1. left' \in 0 .. Len(fds) /\ phase = "fds" /\ UNCHANGED <<phase, fds, ready, sock>>
    BY <1>1, <1>3 DEF Skip, ReadBus, Called, Visiting, FdInv
  <2>2. input' \subseteq User
    BY <1>3 DEF Skip, ReadBus, FdInv
  <2> QED
    BY <2>1, <2>2 DEF FdInv
<1>4. CASE ReadServer
  <2>1. phase = "fds" /\ left' = left - 1 /\ left > 0 /\ UNCHANGED <<phase, ready>>
    BY <1>4 DEF ReadServer, Called, Visiting
  <2>2. CASE UNCHANGED <<fds, sock, input>>
    BY <1>1, <2>1, <2>2 DEF FdInv
  <2>3. ASSUME NEW c \in Client, NEW fd \in Unused, Free(c),
               sock' = [sock EXCEPT ![c] = fd], fds' = FdAdded(fds, fd, c),
               input' \in {input, input \ {Server}}
        PROVE  FdInv'
    <3>1. fd \in Fd \ ({0, 1} \cup {sock[d] : d \in Client}) /\ sock[c] = NoFd
      BY <2>3 DEF Unused, Free
    <3>2. fds' \in Seq(FdEntry) /\ Len(fds') = Len(fds) + 1 /\ Matched(fds', sock')
      BY <2>3, <3>1, MatchedAdded DEF FdInv
    <3>3. sock' \in Sockets
      BY <2>3, <3>1 DEF FdInv, Sockets
    <3> QED
      BY <1>1, <2>1, <2>3, <3>2, <3>3 DEF FdInv
  <2> QED
    BY <1>4, <2>2, <2>3 DEF ReadServer
<1>5. ASSUME NEW c \in Client, ReadClient(c) PROVE FdInv'
  <2>1. /\ phase = "fds" /\ left' = left - 1 /\ left > 0 /\ UNCHANGED <<phase, ready>>
        /\ input' \subseteq User
    BY <1>5 DEF ReadClient, Called, Visiting, FdInv
  <2>2. CASE UNCHANGED <<fds, sock>>
    BY <1>1, <2>1, <2>2 DEF FdInv
  <2>3. CASE fds' = FdMarked(fds, sock[c], c) /\ sock' = [sock EXCEPT ![c] = NoFd]
    <3>1. fds' \in Seq(FdEntry) /\ Len(fds') = Len(fds) /\ Matched(fds', sock')
      BY <2>3, MatchedMarked DEF FdInv
    <3>2. sock' \in Sockets
      BY <2>3 DEF FdInv, Sockets
    <3> QED
      BY <1>1, <2>1, <3>1, <3>2 DEF FdInv
  <2> QED
    BY <1>5, <2>2, <2>3 DEF ReadClient
<1>6. CASE EndPoll
  <2>1. left = 0 /\ UNCHANGED <<left, sock, input>> /\ phase' = "select" /\ ready' = {}
    BY <1>6 DEF EndPoll, FdInv
  <2>2. fds' \in Seq(FdEntry) /\ Matched(fds', sock')
    BY <1>6, MatchedKept DEF EndPoll, FdInv
  <2> QED
    BY <2>1, <2>2 DEF FdInv
<1>7. CASE \/ StartTimers \/ Expire \/ Advance \/ UNCHANGED vars
  <2>1. UNCHANGED fdVars /\ phase' \in {phase, "timers"} /\ (phase' # phase => left = 0)
    BY <1>7 DEF StartTimers, Expire, Advance, vars, fdVars
  <2> QED
    BY <2>1 DEF FdInv, fdVars
<1>8. ASSUME NEW u \in User, Arrive(u) PROVE FdInv'
  BY <1>8 DEF Arrive, FdInv
<1> QED
  BY <1>2, <1>3, <1>4, <1>5, <1>6, <1>7, <1>8 DEF Next, PollStep

LEMMA FdInvariance == Spec => []FdInv
  BY InitFdInv, NextFdInv, PTL DEF Spec

(***************************************************************************)
(* The results.                                                            *)
(***************************************************************************)

\* Every variable keeps its type, the timers their order, and no more entries
\* are left to be visited than there are.
THEOREM TypeCorrect == Spec => []TypeOK
<1>1. TimerInv /\ FdInv => TypeOK
  <2> SUFFICES ASSUME TimerInv, FdInv PROVE TypeOK
    OBVIOUS
  <2>1. ASSUME NEW t \in Timer PROVE since[t] <= ival[t]
    <3>1. PICK i \in DOMAIN timers : timers[i].id = t
      BY DEF TimerInv
    <3>2. Elapsed(t, timers[i].due, since[t]) /\ timers[i].due \in Int
      BY <3>1, ElementOfSeq, EntryFields DEF TimerInv
    <3>3. ival[t] \in Nat \ {0}
      BY TimerAssumption
    <3> QED
      BY <3>2, <3>3 DEF Elapsed
  <2>2. sock \in [Client -> Fd \cup {NoFd}]
    BY DEF FdInv, Sockets
  <2> QED
    BY <2>1, <2>2 DEF TypeOK, TimerInv, FdInv, Ordered
<1> QED
  BY Invariance, FdInvariance, <1>1, PTL

\* Every open connection has its one entry in the list of descriptors, closed
\* ones have none, whatever was closed and opened in the same walk.
THEOREM ConnectionsAreRegistered == Spec => []ConnectionsRegistered
<1>1. FdInv => ConnectionsRegistered
  <2> SUFFICES ASSUME FdInv PROVE ConnectionsRegistered
    OBVIOUS
  <2>1. ASSUME NEW i \in Unmarked(fds), fds[i].user \in Client
        PROVE  fds[i].fd = sock[fds[i].user]
    BY <2>1, UserAssumption DEF FdInv, Matched, Own
  <2> QED
    BY <2>1 DEF ConnectionsRegistered, FdInv, Matched, Unmarked, Free
<1> QED
  BY FdInvariance, <1>1, PTL

\* With a clock that does not go back, no periodic timer is ever lost.
THEOREM TimersAreKept == Spec => []TimersKept
<1>1. TimerInv => TimersKept
  BY DEF TimerInv, TimersKept, Live, NoneMarked, Unique
<1> QED
  BY Invariance, <1>1, PTL

\* No timer is called before its interval has passed since its last call.
THEOREM TicksAreSpaced == Spec => TicksSpaced
<1>1. TimerInv /\ [Next]_vars =>
        [\A t \in Timer : Expire /\ since'[t] = 0 /\ Head(timers).id = t /\ ~Head(timers).remove
           => since[t] >= ival[t]]_vars
  <2> SUFFICES ASSUME TimerInv, NEW t \in Timer, Expire, Head(timers).id = t
               PROVE  since[t] >= ival[t]
    OBVIOUS
  <2>1. since[t] = ival[t] /\ ival[t] \in Nat
    BY ExpireTimerInv, TimerAssumption
  <2> QED
    BY <2>1
<1> QED
  BY Invariance, <1>1, PTL DEF Spec, TicksSpaced
=============================================================================
