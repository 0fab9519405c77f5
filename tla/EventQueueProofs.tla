-------------------------- MODULE EventQueueProofs --------------------------
(***************************************************************************)
(* Proofs about EventQueue, for a ring of any size and any events that fit *)
(* in it.  They are about the build without preemption: the same formulas  *)
(* fail when interrupts preempt a push between its two steps.              *)
(***************************************************************************)
EXTENDS EventQueue, SequenceTheorems, WellFoundedInduction, TLAPS

(***************************************************************************)
(* Induction and recursion over the natural numbers, for sets and          *)
(* functions.                                                              *)
(***************************************************************************)

\* A non-empty set of natural numbers has a least element.
LEMMA LeastExists ==
  ASSUME NEW S \in SUBSET Nat, S # {}
  PROVE  \E m \in S : \A n \in S : m <= n
<1> DEFINE R == OpToRel(<, Nat)
<1>1. IsWellFoundedOn(R, Nat)
  BY NatLessThanWellFounded, Zenon
<1>2. \A p, q \in Nat : p < q => <<p, q>> \in R
  BY DEF OpToRel
<1>3. PICK m \in S : \A n \in S : ~(<<n, m>> \in R)
  <2> HIDE DEF R
  <2> QED
    BY <1>1, WFMin
<1>4. ASSUME NEW n \in S PROVE m <= n
  <2>1. m \in Nat /\ n \in Nat /\ (n < m => <<n, m>> \in R)
    BY <1>2
  <2> HIDE DEF R
  <2> QED
    BY <1>3, <2>1
<1> QED
  BY <1>4

\* A set that has 0, and the successor of every number it has, has them all.
LEMMA NaturalInduction ==
  ASSUME NEW T, 0 \in T, \A n \in Nat : n \in T => n + 1 \in T
  PROVE  Nat \subseteq T
<1> SUFFICES ASSUME Nat \ T # {} PROVE FALSE
  OBVIOUS
<1>1. PICK n \in Nat \ T : \A m \in Nat \ T : n <= m
  BY LeastExists
<1>2. n # 0 /\ n - 1 \in Nat /\ n - 1 + 1 = n /\ ~(n <= n - 1)
  OBVIOUS
<1>3. n - 1 \in T
  BY <1>1, <1>2
<1> QED
  BY <1>2, <1>3

\* f is the function on 0 .. n that starts at c and goes on by step.
Recursion(n, c, step, f) == f[0] = c /\ \A i \in 1 .. n : f[i] = step[<<i, f[i - 1]>>]

\* There is such a function, whatever c and step are: the functions that are right
\* up to m exist for every m.
LEMMA RecursionExists ==
  ASSUME NEW n \in Nat, NEW S, NEW c \in S, NEW step \in [(1 .. n) \X S -> S]
  PROVE  \E f \in [0 .. n -> S] : Recursion(n, c, step, f)
<1> DEFINE Is(m, f) == f[0] = c /\ \A i \in 1 .. m : f[i] = step[<<i, f[i - 1]>>]
           T == {m \in Nat : m <= n => \E f \in [0 .. n -> S] : Is(m, f)}
<1>1. 0 \in T
  <2> DEFINE f0 == [i \in 0 .. n |-> c]
  <2>1. f0 \in [0 .. n -> S] /\ f0[0] = c /\ 1 .. 0 = {}
    OBVIOUS
  <2> QED
    BY <2>1
<1>2. ASSUME NEW m \in Nat, m \in T PROVE m + 1 \in T
  <2>1. CASE m + 1 <= n
    <3>1. PICK f \in [0 .. n -> S] : Is(m, f)
      BY <1>2, <2>1
    <3> DEFINE v == step[<<m + 1, f[m]>>]
               g == [f EXCEPT ![m + 1] = v]
    <3>2. m \in 0 .. n /\ m + 1 \in 1 .. n /\ m + 1 \in 0 .. n /\ f[m] \in S /\ v \in S
      BY <2>1
    <3>3. g \in [0 .. n -> S] /\ g[m + 1] = v /\ \A i \in 0 .. m : g[i] = f[i]
      <4> HIDE DEF v
      <4> QED
        BY <3>2
    <3>4. Is(m + 1, g)
      <4>1. ASSUME NEW i \in 1 .. m + 1 PROVE g[i] = step[<<i, g[i - 1]>>]
        <5> HIDE DEF g
        <5>1. CASE i = m + 1
          BY <5>1, <3>3
        <5>2. CASE i \in 1 .. m
          <6>1. i \in 0 .. m /\ i - 1 \in 0 .. m
            BY <5>2
          <6> QED
            BY <6>1, <5>2, <3>1, <3>3
        <5> QED
          BY <5>1, <5>2
      <4>2. g[0] = c
        BY <3>1, <3>3
      <4> QED
        BY <4>1, <4>2
    <3> HIDE DEF g, Is
    <3> QED
      BY <3>3, <3>4
  <2> QED
    BY <2>1
<1> HIDE DEF T
<1>3. n \in T
  BY <1>1, <1>2, NaturalInduction
<1>4. PICK f \in [0 .. n -> S] : Is(n, f)
  BY <1>3 DEF T
<1> QED
  BY <1>4 DEF Recursion

(***************************************************************************)
(* Arithmetic of the ring.                                                 *)
(***************************************************************************)

\* The index arithmetic of pushb() and popb() stays inside the ring.
LEMMA AdvClosed ==
  ASSUME NEW i \in Idx, NEW n \in 0 .. Size
  PROVE  Adv(i, n) \in Idx
  BY SizeAssumption DEF Idx, Adv

\* A distance is a number of bytes less than a whole turn, and 0 only at home.
LEMMA DistClosed ==
  ASSUME NEW i \in Idx, NEW j \in Idx
  PROVE  /\ Dist(i, j) \in Idx
         /\ Dist(i, j) \in 0 .. Size - 1
         /\ Dist(i, j) = 0 <=> i = j
  BY SizeAssumption DEF Idx, Dist

\* The bytes in use and the room for more make up the ring but for one byte.
LEMMA RoomType ==
  ASSUME head \in Idx, tail \in Idx
  PROVE  Used \in Idx /\ Room \in Idx /\ Used + Room = Size - 1
<1>1. Used \in Idx
  BY DistClosed DEF Used
<1> QED
  BY <1>1, SizeAssumption DEF Room, Idx

\* Going n on from j adds n to the distance, if that stays short of the ring.
LEMMA DistAdv ==
  ASSUME NEW i \in Idx, NEW j \in Idx, NEW n \in 0 .. Size, Dist(i, j) + n < Size
  PROVE  Dist(i, Adv(j, n)) = Dist(i, j) + n
  BY SizeAssumption DEF Idx, Adv, Dist

\* Moving the origin n on, not beyond j, takes n off the distance to j.
LEMMA DistFrom ==
  ASSUME NEW i \in Idx, NEW j \in Idx, NEW n \in 0 .. Size, n <= Dist(i, j)
  PROVE  Dist(Adv(i, n), j) = Dist(i, j) - n
  BY SizeAssumption DEF Idx, Adv, Dist

\* An origin moved n on beyond j sees j almost a turn away.
LEMMA DistPast ==
  ASSUME NEW i \in Idx, NEW j \in Idx, NEW n \in 0 .. Size - 1, Dist(i, j) < n
  PROVE  Dist(Adv(i, n), j) = Dist(i, j) + Size - n
  BY SizeAssumption DEF Idx, Adv, Dist

\* From h, a place before it is reached by going round.
LEMMA DistRound ==
  ASSUME NEW t \in Idx, NEW h \in Idx, NEW i \in Idx, Dist(t, i) < Dist(t, h)
  PROVE  Dist(h, i) = Dist(t, i) + Size - Dist(t, h)
  BY SizeAssumption DEF Idx, Dist

\* From h, a place at or after it is reached directly.
LEMMA DistOn ==
  ASSUME NEW t \in Idx, NEW h \in Idx, NEW i \in Idx, Dist(t, i) >= Dist(t, h)
  PROVE  Dist(h, i) = Dist(t, i) - Dist(t, h)
  BY SizeAssumption DEF Idx, Dist

(***************************************************************************)
(* The inductive invariant.  Without preemption one push runs at a time,   *)
(* so the room it saw is still the room when it writes; then a push fills  *)
(* free bytes only, and the queue stays a row of whole events.             *)
(***************************************************************************)
OnePush ==
  \A l \in Level : Pushing(l) =>
    /\ pend[l].room = Room
    /\ \A h \in Level : Pushing(h) => h = l

IInv == TypeOK /\ OnePush /\ Framed /\ NoUnknownEvent

LEMMA InitIInv == Init => IInv
<1> SUFFICES ASSUME Init PROVE IInv
  OBVIOUS
<1>1. TypeOK
  BY SizeAssumption, EventAssumption, PusherAssumption, BuildAssumption
  DEF Init, TypeOK, Idx, Byte, Zero, Level, None
<1>2. OnePush
  BY DEF Init, OnePush, Pushing
<1>3. Framed
  BY SizeAssumption DEF Init, Framed, Queued, Used, Dist, Idx
<1>4. NoUnknownEvent
  BY DEF Init, NoUnknownEvent
<1> QED
  BY <1>1, <1>2, <1>3, <1>4 DEF IInv

\* What PushBegin does to the invariant: it only remembers the room.
LEMMA PushBeginIInv ==
  ASSUME IInv, ~Preemptive, NEW l \in Level, NEW e \in Event, PushBegin(l, e)
  PROVE  IInv'
<1> USE DEF IInv
<1>1. Used \in Idx /\ Room \in Idx
  BY RoomType DEF TypeOK
<1>2. \A h \in Level : ~Pushing(h)
  BY SizeAssumption, PusherAssumption DEF PushBegin, Runs, MayStart, Level, Pushing
<1>3. TypeOK'
  BY <1>1 DEF PushBegin, TypeOK, Idx
<1>4. OnePush'
  BY <1>2 DEF PushBegin, OnePush, Pushing, Room, Used, TypeOK
<1>5. Framed'
  BY DEF PushBegin, Framed, Queued, Used, Whole
<1>6. NoUnknownEvent'
  BY DEF PushBegin, NoUnknownEvent
<1> QED
  BY <1>3, <1>4, <1>5, <1>6

\* A push with room: the event lands on free bytes, right behind the queue.
LEMMA WriteFramed ==
  ASSUME TypeOK, Framed, NEW e \in Event, evSize[e] <= Room,
         data' = Written(data, head, e),
         head' = Adv(head, evSize[e]),
         tail' = tail
  PROVE  /\ data' \in [Idx -> Byte \cup {Zero}]
         /\ head' \in Idx
         /\ Used' = Used + evSize[e]
         /\ \A i \in Idx : Queued(i) => Queued(i)' /\ data'[i] = data[i]
         /\ Framed'
<1> DEFINE n == evSize[e]
<1>1. n \in 1 .. Size - 1 /\ Used \in Idx /\ Used + n < Size
  <2>1. n \in 1 .. Size - 1
    BY EventAssumption
  <2>2. Used \in Idx /\ Room \in Idx /\ Used + Room = Size - 1
    BY RoomType DEF TypeOK
  <2> QED
    BY <2>1, <2>2, SizeAssumption DEF Idx
<1>2. head' \in Idx /\ Used' = Used + n
  <2>1. head' \in Idx
    BY <1>1, AdvClosed, SizeAssumption DEF TypeOK
  <2>2. Dist(tail, Adv(head, n)) = Dist(tail, head) + n
    BY <1>1, DistAdv, SizeAssumption DEF TypeOK, Used
  <2> QED
    BY <2>1, <2>2 DEF Used, TypeOK, Dist, Adv
<1>3. \A i \in Idx : data'[i] = IF Dist(head, i) < n THEN <<e, Dist(head, i)>>
                                                   ELSE data[i]
  BY DEF Written
<1>4. data' \in [Idx -> Byte \cup {Zero}]
  <2>1. \A i \in Idx : Dist(head, i) \in Nat
    BY DistClosed DEF TypeOK, Idx
  <2> QED
    BY <2>1 DEF TypeOK, Written, Byte
<1>5. ASSUME NEW i \in Idx, Queued(i)
      PROVE  Queued(i)' /\ data'[i] = data[i] /\ Dist(head, i) >= n
  <2>1. Dist(tail, i) \in Nat /\ Dist(tail, i) < Used
    BY <1>5, DistClosed DEF Queued, TypeOK, Idx
  <2>2. Dist(head, i) = Dist(tail, i) + Size - Used
    BY <1>5, DistRound DEF Queued, Used, TypeOK
  <2>3. Queued(i)'
    BY <2>1, <1>1, <1>2 DEF Queued, Dist, Idx
  <2>4. ~(Dist(head, i) < n) /\ Dist(head, i) >= n
    BY <2>1, <2>2, <1>1, SizeAssumption DEF Idx
  <2> QED
    BY <2>3, <2>4, <1>3
<1>6. ASSUME NEW i \in Idx, Queued(i)', ~Queued(i)
      PROVE  Dist(head, i) < n /\ Dist(head, i) = Dist(tail, i) - Used
  <2>1. Dist(tail, i) \in Nat /\ Dist(tail, i) >= Used /\ Dist(tail, i) < Used + n
    <3>1. Dist(tail, i) \in Nat
      BY DistClosed DEF TypeOK, Idx
    <3>2. ~(Dist(tail, i) < Used) /\ Dist(tail, i) < Used + n
      BY <1>6, <1>2 DEF Queued, Dist, Idx
    <3> QED
      BY <3>1, <3>2, <1>1 DEF Idx
  <2>2. Dist(head, i) = Dist(tail, i) - Used
    BY <2>1, DistOn DEF TypeOK, Used
  <2> QED
    BY <2>1, <2>2, <1>1 DEF Idx
<1>7. Dist(head, head) = 0 /\ data'[head] = <<e, 0>>
  <2>1. Dist(head, head) = 0 /\ head \in Idx
    BY DistClosed DEF TypeOK
  <2>2. 0 < n
    BY <1>1
  <2> QED
    BY <2>1, <2>2, <1>3
<1>8. head' # tail' => data'[tail'][2] = 0
  <2>1. CASE head = tail
    BY <2>1, <1>7
  <2>2. CASE head # tail
    <3>1. Queued(tail)
      BY <2>2, DistClosed, SizeAssumption DEF Queued, Used, TypeOK, Idx
    <3> QED
      BY <3>1, <2>2, <1>5 DEF Framed, TypeOK
  <2> QED
    BY <2>1, <2>2
<1>9. ASSUME NEW i \in Idx, Queued(i)', data'[i][2] = 0
      PROVE  /\ data'[i][1] \in Event
             /\ Dist(tail', i) + evSize[data'[i][1]] <= Used'
             /\ Whole(data', i, data'[i][1])
             /\ Adv(i, evSize[data'[i][1]]) # head'
                   => data'[Adv(i, evSize[data'[i][1]])][2] = 0
  <2>1. CASE Queued(i)
    <3> DEFINE f == data[i][1]
               next == Adv(i, evSize[f])
    <3>1. data'[i] = data[i]
      BY <2>1, <1>5
    <3>2. /\ f \in Event
          /\ Dist(tail, i) + evSize[f] <= Used
          /\ Whole(data, i, f)
          /\ next # head => data[next][2] = 0
      BY <2>1, <3>1, <1>9 DEF Framed
    <3>3. evSize[f] \in 1 .. Size - 1 /\ Dist(tail, i) \in Idx
      BY <3>2, EventAssumption, DistClosed DEF TypeOK
    <3>4. ASSUME NEW j \in Idx, Dist(i, j) < evSize[f]
          PROVE  Queued(j)
      <4>1. Dist(i, j) \in Idx
        BY DistClosed
      <4>2. Adv(i, Dist(i, j)) = j
        BY <4>1, SizeAssumption DEF Adv, Dist, Idx
      <4>3. Dist(tail, Adv(i, Dist(i, j))) = Dist(tail, i) + Dist(i, j)
        BY <4>1, <3>2, <3>3, <3>4, <1>1, DistAdv, SizeAssumption DEF TypeOK, Idx
      <4> QED
        BY <4>1, <4>2, <4>3, <3>2, <3>3, <3>4, <1>1 DEF Queued, Idx
    <3>5. Whole(data', i, f)
      BY <3>2, <3>4, <1>5 DEF Whole, Dist, Idx
    <3>6. next # head' => data'[next][2] = 0
      <4>1. CASE next = head
        BY <4>1, <1>7
      <4>2. CASE next # head
        <5>1. next \in Idx
          BY <3>3, AdvClosed, SizeAssumption
        <5>2. Dist(tail, next) = Dist(tail, i) + evSize[f]
          BY <3>2, <3>3, <1>1, DistAdv, SizeAssumption DEF TypeOK, Idx
        <5>3. Dist(tail, next) # Used
          BY <5>1, <4>2, SizeAssumption DEF Used, Dist, Idx, TypeOK
        <5>4. Queued(next)
          BY <5>2, <5>3, <3>2, <3>3, <1>1 DEF Queued, Idx
        <5> QED
          BY <5>1, <5>4, <4>2, <3>2, <1>5
      <4> QED
        BY <4>1, <4>2
    <3>7. Dist(tail', i) + evSize[f] <= Used'
      BY <3>2, <3>3, <1>1, <1>2 DEF Idx
    <3> QED
      BY <3>1, <3>2, <3>5, <3>6, <3>7
  <2>2. CASE ~Queued(i)
    <3>1. Dist(head, i) < n /\ Dist(head, i) = Dist(tail, i) - Used
      BY <2>2, <1>6, <1>9
    <3>2. data'[i] = <<e, Dist(head, i)>>
      BY <3>1, <1>3
    <3>3. Dist(head, i) = 0
      BY <3>2, <1>9
    <3>4. i = head
      BY <3>3, DistClosed DEF TypeOK
    <3>5. data'[i][1] = e
      BY <3>2
    <3>6. Dist(tail', i) + n <= Used'
      BY <3>4, <1>1, <1>2 DEF Used, Idx
    <3>7. Whole(data', i, e)
      BY <3>4, <1>3 DEF Whole, Dist
    <3> QED
      BY <3>4, <3>5, <3>6, <3>7
  <2> QED
    BY <2>1, <2>2
<1>10. Framed'
  BY <1>8, <1>9 DEF Framed
<1> QED
  BY <1>2, <1>4, <1>5, <1>10

\* What PushCommit does to the invariant.
LEMMA PushCommitIInv ==
  ASSUME IInv, NEW l \in Level, PushCommit(l)
  PROVE  IInv'
<1> USE DEF IInv
<1> DEFINE e == pend[l].ev
<1>1. /\ e \in Event
      /\ pend[l].room = Room
      /\ \A h \in Level : h # l => ~Pushing(h)
  BY DEF PushCommit, OnePush, Pushing, TypeOK, None
<1>2. /\ thread' \in {"boot", "wait", "idle", "dispatch", "halted"}
      /\ thread' # "halted"
  BY DEF PushCommit, TypeOK, NoUnknownEvent
<1>3. pend' \in [Level -> [ev : Event, room : Idx] \cup {None}]
  BY DEF PushCommit, TypeOK
<1>4. \A h \in Level : ~Pushing(h)'
  BY <1>1 DEF PushCommit, Pushing, TypeOK
<1>5. xruns' \in 0 .. MaxXruns
  BY BuildAssumption DEF PushCommit, TypeOK
<1>6. CASE Room >= evSize[e]
  <2>1. data' = Written(data, head, e) /\ head' = Adv(head, evSize[e]) /\ tail' = tail
    BY <1>1, <1>6 DEF PushCommit
  <2>2. evSize[e] <= Room
    BY <1>1, <1>6, EventAssumption, RoomType DEF TypeOK, Idx
  <2>3. data' \in [Idx -> Byte \cup {Zero}] /\ head' \in Idx /\ Framed'
    BY <1>1, <2>1, <2>2, WriteFramed
  <2>4. TypeOK'
    BY <1>2, <1>3, <1>5, <2>3 DEF TypeOK, PushCommit
  <2> QED
    BY <1>2, <1>4, <2>3, <2>4 DEF OnePush, NoUnknownEvent, PushCommit
<1>7. CASE ~(Room >= evSize[e])
  <2>1. UNCHANGED <<data, head, tail>>
    BY <1>1, <1>7 DEF PushCommit
  <2>2. TypeOK'
    BY <1>2, <1>3, <1>5, <2>1 DEF TypeOK, PushCommit
  <2>3. Framed'
    BY <2>1 DEF Framed, Queued, Used
  <2> QED
    BY <1>2, <1>4, <2>2, <2>3 DEF OnePush, NoUnknownEvent, PushCommit
<1> QED
  BY <1>6, <1>7

\* What EvqPop does to the invariant: it takes one whole event, so the tail is
\* on a type byte again.
LEMMA EvqPopIInv ==
  ASSUME IInv, EvqPop
  PROVE  IInv'
<1> USE DEF IInv
<1> DEFINE e == data[tail][1]
           n == evSize[e]
<1>1. Used \in Idx /\ Dist(tail, tail) = 0 /\ tail \in Idx /\ head \in Idx /\ Used > 0
  <2>1. Used \in Idx /\ Dist(tail, tail) = 0 /\ tail \in Idx /\ head \in Idx
    BY RoomType, DistClosed DEF TypeOK
  <2>2. Used # 0
    BY <2>1, DistClosed DEF EvqPop, Used
  <2> QED
    BY <2>1, <2>2 DEF Idx
<1>2. /\ data[tail][2] = 0
      /\ e \in Event
      /\ n <= Used
      /\ Whole(data, tail, e)
      /\ Adv(tail, n) # head => data[Adv(tail, n)][2] = 0
      /\ n \in 1 .. Size - 1
  <2>1. Queued(tail) /\ data[tail][2] = 0
    BY <1>1 DEF Queued, Framed, EvqPop
  <2>2. /\ e \in Event
        /\ Dist(tail, tail) + n <= Used
        /\ Whole(data, tail, e)
        /\ Adv(tail, n) # head => data[Adv(tail, n)][2] = 0
    BY <1>1, <2>1 DEF Framed
  <2>3. n \in 1 .. Size - 1
    BY <2>2, EventAssumption
  <2> QED
    BY <1>1, <2>1, <2>2, <2>3 DEF Idx
<1>3. /\ tail' = Adv(tail, n)
      /\ cur' = [ev |-> e, intact |-> TRUE]
      /\ thread' = "dispatch"
      /\ UNCHANGED <<data, head, xruns, usedMax, pend>>
  BY <1>2, EventAssumption DEF EvqPop, IsType
<1>4. tail' \in Idx
  BY <1>1, <1>2, <1>3, AdvClosed, SizeAssumption
<1>5. TypeOK'
  BY <1>2, <1>3, <1>4 DEF TypeOK
<1>6. OnePush'
  BY <1>3 DEF OnePush, Pushing, EvqPop, ThreadRuns
<1>7. Used' = Used - n
  <2>1. Dist(Adv(tail, n), head) = Dist(tail, head) - n
    BY <1>1, <1>2, DistFrom, SizeAssumption DEF Used
  <2> QED
    BY <1>3, <2>1 DEF Used
<1>8. ASSUME NEW i \in Idx, Dist(tail', i) < Used'
      PROVE  Queued(i) /\ Dist(tail', i) = Dist(tail, i) - n
  <2>1. Dist(tail, i) \in Nat /\ Dist(tail, i) < Size
    BY <1>1, DistClosed, SizeAssumption
  <2>2. CASE Dist(tail, i) < n
    <3>1. Dist(Adv(tail, n), i) = Dist(tail, i) + Size - n
      BY <1>1, <1>2, <2>2, DistPast
    <3> QED
      BY <1>1, <1>2, <1>3, <1>7, <1>8, <2>1, <3>1, SizeAssumption DEF Idx
  <2>3. CASE ~(Dist(tail, i) < n)
    <3>1. Dist(Adv(tail, n), i) = Dist(tail, i) - n
      BY <1>1, <1>2, <2>1, <2>3, DistFrom, SizeAssumption
    <3> QED
      BY <1>1, <1>2, <1>3, <1>7, <1>8, <2>1, <3>1 DEF Queued, Idx
  <2> QED
    BY <2>2, <2>3
<1>9. Framed'
  <2>1. head' # tail' => data'[tail'][2] = 0
    BY <1>2, <1>3
  <2>2. ASSUME NEW i \in Idx, Dist(tail', i) < Used', data[i][2] = 0
        PROVE  /\ data[i][1] \in Event
               /\ Dist(tail', i) + evSize[data[i][1]] <= Used'
               /\ Whole(data, i, data[i][1])
               /\ Adv(i, evSize[data[i][1]]) # head
                     => data[Adv(i, evSize[data[i][1]])][2] = 0
    <3> DEFINE f == data[i][1]
    <3>1. Queued(i) /\ Dist(tail', i) = Dist(tail, i) - n
      BY <1>8, <2>2
    <3>2. /\ f \in Event
          /\ Dist(tail, i) + evSize[f] <= Used
          /\ Whole(data, i, f)
          /\ Adv(i, evSize[f]) # head => data[Adv(i, evSize[f])][2] = 0
      BY <3>1, <2>2 DEF Framed
    <3>3. evSize[f] \in Nat /\ Dist(tail, i) \in Nat
      BY <1>1, <3>2, EventAssumption, DistClosed, SizeAssumption
    <3>4. Dist(tail', i) + evSize[f] <= Used'
      BY <1>1, <1>2, <1>7, <3>1, <3>2, <3>3 DEF Idx
    <3> QED
      BY <3>2, <3>4
  <2> QED
    BY <1>3, <2>1, <2>2 DEF Framed, Queued
<1> QED
  BY <1>3, <1>5, <1>6, <1>9 DEF NoUnknownEvent

\* Going idle, waking up and ending a dispatch leave the ring alone.
LEMMA LoopIInv ==
  ASSUME IInv, IdleEnter \/ IdleReturn \/ DispatchEnd \/ UNCHANGED vars
  PROVE  IInv'
<1> USE DEF IInv
<1>1. UNCHANGED <<data, head, tail, xruns, usedMax, pend>>
  BY DEF IdleEnter, IdleReturn, DispatchEnd, vars
<1>2. TypeOK'
  <2>1. thread' \in {"boot", "wait", "idle", "dispatch", "halted"}
    BY DEF TypeOK, IdleEnter, IdleReturn, DispatchEnd, vars
  <2>2. cur' \in [ev : Event \cup {NoEvent}, intact : BOOLEAN]
    <3>1. cur' = cur \/ cur' = [ev |-> NoEvent, intact |-> TRUE]
      BY DEF IdleEnter, IdleReturn, DispatchEnd, vars
    <3>2. [ev |-> NoEvent, intact |-> TRUE] \in [ev : Event \cup {NoEvent}, intact : BOOLEAN]
      OBVIOUS
    <3>3. cur \in [ev : Event \cup {NoEvent}, intact : BOOLEAN]
      BY DEF TypeOK
    <3> QED
      BY <3>1, <3>2, <3>3, Zenon
  <2> QED
    BY <1>1, <2>1, <2>2 DEF TypeOK
<1>3. OnePush'
  BY <1>1 DEF OnePush, Pushing, Room, Used
<1>4. Framed'
  BY <1>1 DEF Framed, Queued, Used
<1>5. NoUnknownEvent'
  BY DEF NoUnknownEvent, IdleEnter, IdleReturn, DispatchEnd, vars
<1> QED
  BY <1>2, <1>3, <1>4, <1>5

LEMMA NextIInv ==
  ASSUME IInv, ~Preemptive, [Next]_vars
  PROVE  IInv'
<1>1. ASSUME NEW l \in Level, NEW e \in Event, PushBegin(l, e)
      PROVE  IInv'
  BY <1>1, PushBeginIInv
<1>2. ASSUME NEW l \in Level, PushCommit(l)
      PROVE  IInv'
  BY <1>2, PushCommitIInv
<1>3. CASE EvqPop
  BY <1>3, EvqPopIInv
<1>4. CASE IdleEnter \/ IdleReturn \/ DispatchEnd \/ UNCHANGED vars
  BY <1>4, LoopIInv
<1> QED
  BY <1>1, <1>2, <1>3, <1>4 DEF Next

(***************************************************************************)
(* The theorems.                                                           *)
(***************************************************************************)

LEMMA Invariance ==
  ASSUME ~Preemptive
  PROVE  Spec => []IInv
<1>1. IInv /\ [Next]_vars => IInv'
  BY NextIInv
<1> QED
  BY <1>1, InitIInv, PTL DEF Spec

\* Without preemption every variable of the queue keeps its type: head and tail
\* stay inside the ring whatever is pushed.
THEOREM TypeCorrect ==
  ASSUME ~Preemptive
  PROVE  Spec => []TypeOK
<1>1. IInv => TypeOK
  BY DEF IInv
<1> QED
  BY <1>1, Invariance, PTL

\* Without preemption the ring holds whole events end to end, for every ring
\* size and every set of events that fit in the ring.
THEOREM QueueFramed ==
  ASSUME ~Preemptive
  PROVE  Spec => []Framed
<1>1. IInv => Framed
  BY DEF IInv
<1> QED
  BY <1>1, Invariance, PTL

\* Without preemption the assertion of ev_size() never fails and every event
\* reaches its handlers whole.
THEOREM NoAssertionFailure ==
  ASSUME ~Preemptive
  PROVE  Spec => []NoUnknownEvent
<1>1. IInv => NoUnknownEvent
  BY DEF IInv
<1> QED
  BY <1>1, Invariance, PTL

\* Without preemption no push overwrites a byte that waits to be popped, and no
\* pop loses one it did not deliver.
THEOREM NoOverwrite ==
  ASSUME ~Preemptive
  PROVE  Spec => QueuedBytesKept
<1> DEFINE Kept == \A i \in Idx : Queued(i) =>
                     \/ Queued(i)' /\ data'[i] = data[i]
                     \/ tail' # tail /\ Dist(tail, i) < Dist(tail, tail')
<1>1. ASSUME IInv, [Next]_vars
      PROVE  [Kept]_vars
  <2> USE <1>1 DEF IInv
  <2>1. ASSUME NEW l \in Level, PushCommit(l)
        PROVE  Kept
    <3>1. pend[l].ev \in Event /\ pend[l].room = Room
      BY <2>1 DEF PushCommit, OnePush, Pushing, TypeOK, None
    <3>2. CASE Room >= evSize[pend[l].ev]
      <4>1. /\ data' = Written(data, head, pend[l].ev)
            /\ head' = Adv(head, evSize[pend[l].ev])
            /\ tail' = tail
        BY <2>1, <3>1, <3>2 DEF PushCommit
      <4>2. evSize[pend[l].ev] <= Room
        BY <3>1, <3>2, EventAssumption, RoomType DEF TypeOK, Idx
      <4> QED
        BY <3>1, <4>1, <4>2, WriteFramed
    <3>3. CASE ~(Room >= evSize[pend[l].ev])
      <4>1. UNCHANGED <<data, head, tail>>
        BY <2>1, <3>1, <3>3 DEF PushCommit
      <4> QED
        BY <4>1 DEF Queued, Used
    <3> QED
      BY <3>2, <3>3
  <2>2. CASE EvqPop
    <3> DEFINE n == evSize[data[tail][1]]
    <3>1. tail \in Idx /\ head \in Idx /\ Used \in Idx
      BY RoomType DEF TypeOK
    <3>2. Queued(tail) /\ data[tail][2] = 0
      <4>1. Dist(tail, tail) = 0 /\ Used # 0
        BY <2>2, <3>1, DistClosed DEF EvqPop, Used
      <4> QED
        BY <2>2, <3>1, <4>1 DEF Queued, EvqPop, Framed, Idx
    <3>3. n \in 1 .. Size - 1 /\ n <= Used /\ data[tail][1] \in Event
      <4>1. data[tail][1] \in Event /\ Dist(tail, tail) + n <= Used
        BY <3>1, <3>2 DEF Framed
      <4>2. Dist(tail, tail) = 0 /\ n \in 1 .. Size - 1
        BY <3>1, <4>1, DistClosed, EventAssumption
      <4> QED
        BY <4>1, <4>2
    <3>4. tail' = Adv(tail, n) /\ UNCHANGED <<data, head>>
      BY <2>2, <3>2, <3>3, EventAssumption DEF EvqPop, IsType
    <3>5. Dist(tail, tail') = n /\ tail' # tail
      <4>1. Dist(tail, tail) = 0
        BY <3>1, DistClosed
      <4>2. Dist(tail, Adv(tail, n)) = Dist(tail, tail) + n
        BY <3>1, <3>3, <4>1, DistAdv, SizeAssumption
      <4> QED
        BY <3>3, <3>4, <4>1, <4>2
    <3>6. Used' = Used - n
      <4>1. Dist(Adv(tail, n), head) = Dist(tail, head) - n
        BY <3>1, <3>3, DistFrom, SizeAssumption DEF Used
      <4> QED
        BY <3>4, <4>1 DEF Used
    <3>7. ASSUME NEW i \in Idx, Queued(i), ~(Dist(tail, i) < n)
          PROVE  Queued(i)'
      <4>1. Dist(tail, i) \in Nat /\ Dist(tail, i) >= n
        <5>1. Dist(tail, i) \in Nat
          BY <3>1, DistClosed DEF Idx
        <5> QED
          BY <3>3, <3>7, <5>1
      <4>2. Dist(Adv(tail, n), i) = Dist(tail, i) - n
        BY <3>1, <3>3, <4>1, DistFrom, SizeAssumption
      <4>3. Dist(tail, i) < Used
        BY <3>7 DEF Queued
      <4>4. Dist(tail', i) = Dist(tail, i) - n
        BY <3>4, <4>2
      <4>5. Dist(tail', i) < Used'
        BY <3>1, <3>3, <3>6, <4>1, <4>3, <4>4 DEF Idx
      <4> QED
        BY <4>5 DEF Queued, Dist, Idx
    <3> QED
      BY <3>4, <3>5, <3>7
  <2>3. CASE \/ \E l \in Level, e \in Event : PushBegin(l, e)
             \/ IdleEnter \/ IdleReturn \/ DispatchEnd
    <3>1. UNCHANGED <<data, head, tail>>
      BY <2>3 DEF PushBegin, IdleEnter, IdleReturn, DispatchEnd
    <3> QED
      BY <3>1 DEF Queued, Used
  <2> QED
    BY <2>1, <2>2, <2>3 DEF Next
<1> QED
  BY <1>1, Invariance, PTL DEF Spec, QueuedBytesKept

(***************************************************************************)
(* The events in the ring, read off one byte after the other.              *)
(***************************************************************************)

Ring == [Idx -> Byte \cup {Zero}]
Known == Event \cup {NoEvent}

\* events[n] is what the first n of m bytes of ring d hold, from index p on.
ReadOff(d, p, m, events) ==
  events = [n \in 0 .. m |->
              IF n = 0 THEN <<>>
              ELSE LET i == Adv(p, n - 1)
                   IN  IF d[i][2] = 0 THEN Append(events[n - 1], d[i][1]) ELSE events[n - 1]]

\* The recursion in EventsOf has a solution, and EventsOf takes one.
LEMMA ReadOffExists ==
  ASSUME NEW d \in Ring, NEW p \in Idx, NEW m \in 0 .. Size - 1
  PROVE  \E events \in [0 .. m -> Seq(Known)] :
           ReadOff(d, p, m, events) /\ EventsOf(d, p, m) = events[m]
<1> DEFINE at(n) == d[Adv(p, n - 1)]
           S == Seq(Known)
           step == [x \in (1 .. m) \X S |->
                      IF at(x[1])[2] = 0 THEN Append(x[2], at(x[1])[1]) ELSE x[2]]
<1>1. \A n \in 1 .. m : at(n) \in Byte \cup {Zero} /\ at(n)[1] \in Known
  <2> SUFFICES ASSUME NEW n \in 1 .. m PROVE at(n) \in Byte \cup {Zero} /\ at(n)[1] \in Known
    OBVIOUS
  <2>1. n - 1 \in 0 .. Size
    BY SizeAssumption
  <2>2. at(n) \in Byte \cup {Zero}
    BY <2>1, AdvClosed DEF Ring
  <2> QED
    BY <2>2 DEF Byte, Zero, Known
<1>2. m \in Nat /\ <<>> \in S /\ step \in [(1 .. m) \X S -> S]
  <2>1. ASSUME NEW x \in (1 .. m) \X S
        PROVE  (IF at(x[1])[2] = 0 THEN Append(x[2], at(x[1])[1]) ELSE x[2]) \in S
    <3>1. x[1] \in 1 .. m /\ x[2] \in S
      OBVIOUS
    <3>2. at(x[1])[1] \in Known
      BY <3>1, <1>1
    <3> HIDE DEF at
    <3> QED
      BY <3>1, <3>2
  <2> QED
    BY <2>1, SizeAssumption
<1>3. PICK f \in [0 .. m -> S] : f[0] = <<>> /\ \A i \in 1 .. m : f[i] = step[<<i, f[i - 1]>>]
  <2>1. PICK f \in [0 .. m -> S] : Recursion(m, <<>>, step, f)
    <3> HIDE DEF step, S
    <3> QED
      BY <1>2, RecursionExists, Zenon
  <2> QED
    BY <2>1 DEF Recursion
<1>4. ReadOff(d, p, m, f)
  <2>1. \A i \in 1 .. m : f[i - 1] \in S /\
          step[<<i, f[i - 1]>>] = IF at(i)[2] = 0 THEN Append(f[i - 1], at(i)[1]) ELSE f[i - 1]
    <3> SUFFICES ASSUME NEW i \in 1 .. m
                 PROVE  /\ f[i - 1] \in S
                        /\ step[<<i, f[i - 1]>>] =
                             IF at(i)[2] = 0 THEN Append(f[i - 1], at(i)[1]) ELSE f[i - 1]
      OBVIOUS
    <3>1. i - 1 \in 0 .. m
      BY <1>2
    <3>2. <<i, f[i - 1]>> \in (1 .. m) \X S
      BY <3>1
    <3> HIDE DEF at
    <3> QED
      BY <3>2, Zenon
  <2> HIDE DEF step
  <2>2. \A i \in 0 .. m : i = 0 \/ i \in 1 .. m
    BY <1>2
  <2> QED
    BY <2>1, <2>2, <1>3 DEF ReadOff
<1>5. EventsOf(d, p, m) = (CHOOSE g : ReadOff(d, p, m, g))[m]
  BY Zenon DEF EventsOf, ReadOff
<1>6. f = CHOOSE g : ReadOff(d, p, m, g)
  <2>1. ASSUME NEW g, ReadOff(d, p, m, g) PROVE g = f
    <3> DEFINE T == {n \in Nat : n <= m => g[n] = f[n]}
    <3>1. \A n \in 1 .. m : g[n] = IF at(n)[2] = 0 THEN Append(g[n - 1], at(n)[1]) ELSE g[n - 1]
      <4>1. \A n \in 1 .. m : n \in 0 .. m /\ n # 0
        BY <1>2
      <4> QED
        BY <2>1, <4>1, Zenon DEF ReadOff
    <3>2. \A n \in 1 .. m : f[n] = IF at(n)[2] = 0 THEN Append(f[n - 1], at(n)[1]) ELSE f[n - 1]
      <4>1. \A n \in 1 .. m : n \in 0 .. m /\ n # 0
        BY <1>2
      <4> QED
        BY <1>4, <4>1, Zenon DEF ReadOff
    <3>3. 0 \in T
      <4>1. 0 \in 0 .. m
        BY <1>2
      <4>2. g[0] = <<>> /\ f[0] = <<>>
        BY <2>1, <1>4, <4>1, Zenon DEF ReadOff
      <4> QED
        BY <4>2
    <3>4. ASSUME NEW n \in Nat, n \in T PROVE n + 1 \in T
      <4>1. CASE n + 1 <= m
        <5>1. n + 1 \in 1 .. m /\ n <= m /\ n + 1 - 1 = n
          BY <4>1, <1>2
        <5>2. g[n] = f[n]
          BY <3>4, <5>1
        <5>3. /\ g[n + 1] = IF at(n + 1)[2] = 0 THEN Append(g[n], at(n + 1)[1]) ELSE g[n]
              /\ f[n + 1] = IF at(n + 1)[2] = 0 THEN Append(f[n], at(n + 1)[1]) ELSE f[n]
          <6> HIDE DEF at
          <6> QED
            BY <5>1, <3>1, <3>2
        <5> QED
          BY <5>2, <5>3
      <4> QED
        BY <4>1
    <3> HIDE DEF T
    <3>5. Nat \subseteq T
      BY <3>3, <3>4, NaturalInduction
    <3>6. \A n \in 0 .. m : g[n] = f[n]
      BY <3>5, <1>2 DEF T
    <3>7. \E e : g = [n \in 0 .. m |-> e[n]]
      <4>1. g = [n \in 0 .. m |-> g[n]]
        BY <2>1, Zenon DEF ReadOff
      <4> QED
        BY <4>1
    <3> QED
      BY <3>6, <3>7
  <2> QED
    BY <2>1, <1>4
<1> QED
  BY <1>4, <1>5, <1>6

\* What EventsOf says of no byte, and of one byte more.
LEMMA EventsStep ==
  ASSUME NEW d \in Ring, NEW p \in Idx
  PROVE  /\ EventsOf(d, p, 0) = <<>>
         /\ \A m \in 0 .. Size - 1 : EventsOf(d, p, m) \in Seq(Known)
         /\ \A m \in Nat : m + 1 < Size =>
              EventsOf(d, p, m + 1) = IF d[Adv(p, m)][2] = 0
                                      THEN Append(EventsOf(d, p, m), d[Adv(p, m)][1])
                                      ELSE EventsOf(d, p, m)
<1> DEFINE at(n) == d[Adv(p, n - 1)]
<1>1. ASSUME NEW m \in 0 .. Size - 1
      PROVE  \E f \in [0 .. m -> Seq(Known)] :
               /\ EventsOf(d, p, m) = f[m]
               /\ f[0] = <<>>
               /\ \A n \in 1 .. m :
                    f[n] = IF at(n)[2] = 0 THEN Append(f[n - 1], at(n)[1]) ELSE f[n - 1]
  <2>1. PICK f \in [0 .. m -> Seq(Known)] : ReadOff(d, p, m, f) /\ EventsOf(d, p, m) = f[m]
    BY ReadOffExists
  <2>2. 0 \in 0 .. m /\ \A n \in 1 .. m : n \in 0 .. m /\ n # 0
    BY SizeAssumption
  <2>3. f[0] = <<>>
    BY <2>1, <2>2, Zenon DEF ReadOff
  <2>4. \A n \in 1 .. m : f[n] = IF at(n)[2] = 0 THEN Append(f[n - 1], at(n)[1]) ELSE f[n - 1]
    BY <2>1, <2>2, Zenon DEF ReadOff
  <2> QED
    BY <2>1, <2>3, <2>4
<1>2. 0 \in 0 .. Size - 1
  BY SizeAssumption
<1>3. EventsOf(d, p, 0) = <<>>
  BY <1>1, <1>2
<1>4. \A m \in 0 .. Size - 1 : EventsOf(d, p, m) \in Seq(Known)
  <2> SUFFICES ASSUME NEW m \in 0 .. Size - 1 PROVE EventsOf(d, p, m) \in Seq(Known)
    OBVIOUS
  <2>1. PICK f \in [0 .. m -> Seq(Known)] : EventsOf(d, p, m) = f[m]
    BY <1>1
  <2>2. m \in 0 .. m
    BY SizeAssumption
  <2> QED
    BY <2>1, <2>2
<1>5. ASSUME NEW m \in Nat, m + 1 < Size
      PROVE  EventsOf(d, p, m + 1) = IF at(m + 1)[2] = 0
                                     THEN Append(EventsOf(d, p, m), at(m + 1)[1])
                                     ELSE EventsOf(d, p, m)
  <2>1. m \in 0 .. Size - 1 /\ m + 1 \in 0 .. Size - 1
    BY <1>5, SizeAssumption
  <2>2. PICK f \in [0 .. m -> Seq(Known)] :
               /\ EventsOf(d, p, m) = f[m]
               /\ f[0] = <<>>
               /\ \A n \in 1 .. m :
                    f[n] = IF at(n)[2] = 0 THEN Append(f[n - 1], at(n)[1]) ELSE f[n - 1]
    BY <1>1, <2>1
  <2>3. PICK g \in [0 .. m + 1 -> Seq(Known)] :
               /\ EventsOf(d, p, m + 1) = g[m + 1]
               /\ g[0] = <<>>
               /\ \A n \in 1 .. m + 1 :
                    g[n] = IF at(n)[2] = 0 THEN Append(g[n - 1], at(n)[1]) ELSE g[n - 1]
    BY <1>1, <2>1
  <2> DEFINE T == {n \in Nat : n <= m => g[n] = f[n]}
  <2>4. ASSUME NEW n \in Nat, n \in T PROVE n + 1 \in T
    <3>1. CASE n + 1 <= m
      <4>1. n + 1 \in 1 .. m /\ n + 1 \in 1 .. m + 1 /\ n <= m /\ n + 1 - 1 = n
        BY <3>1
      <4>2. g[n] = f[n]
        BY <2>4, <4>1
      <4>3. g[n + 1] = IF at(n + 1)[2] = 0 THEN Append(g[n], at(n + 1)[1]) ELSE g[n]
        <5> HIDE DEF at
        <5>1. \A i \in 1 .. m + 1 :
                g[i] = IF at(i)[2] = 0 THEN Append(g[i - 1], at(i)[1]) ELSE g[i - 1]
          BY <2>3
        <5> QED
          BY <4>1, <5>1
      <4>4. f[n + 1] = IF at(n + 1)[2] = 0 THEN Append(f[n], at(n + 1)[1]) ELSE f[n]
        <5> HIDE DEF at
        <5>1. \A i \in 1 .. m :
                f[i] = IF at(i)[2] = 0 THEN Append(f[i - 1], at(i)[1]) ELSE f[i - 1]
          BY <2>2
        <5> QED
          BY <4>1, <5>1
      <4> QED
        BY <4>2, <4>3, <4>4
    <3> QED
      BY <3>1
  <2>5. 0 \in T
    BY <2>2, <2>3
  <2> HIDE DEF T, at
  <2>6. m \in T
    BY <2>4, <2>5, NaturalInduction
  <2>7. g[m] = f[m]
    BY <2>6 DEF T
  <2>8. m + 1 \in 1 .. m + 1 /\ m + 1 - 1 = m
    OBVIOUS
  <2> QED
    BY <2>2, <2>3, <2>7, <2>8
<1>6. \A m \in Nat : Adv(p, m + 1 - 1) = Adv(p, m)
  BY SizeAssumption
<1> QED
  BY <1>3, <1>4, <1>5, <1>6

\* Rings that agree on m bytes hold the same events in them.
LEMMA EventsSame ==
  ASSUME NEW d \in Ring, NEW f \in Ring, NEW p \in Idx, NEW m \in 0 .. Size - 1,
         \A k \in 0 .. m - 1 : f[Adv(p, k)] = d[Adv(p, k)]
  PROVE  EventsOf(f, p, m) = EventsOf(d, p, m)
<1> DEFINE T == {n \in Nat : n <= m => EventsOf(f, p, n) = EventsOf(d, p, n)}
<1>1. 0 \in T
  BY EventsStep
<1>2. ASSUME NEW n \in Nat, n \in T PROVE n + 1 \in T
  <2>1. CASE n + 1 <= m
    <3>1. n \in 0 .. m - 1 /\ n + 1 < Size /\ n <= m
      BY <2>1, SizeAssumption
    <3>2. f[Adv(p, n)] = d[Adv(p, n)] /\ EventsOf(f, p, n) = EventsOf(d, p, n)
      BY <1>2, <3>1
    <3>3. /\ EventsOf(d, p, n + 1) = IF d[Adv(p, n)][2] = 0
                                     THEN Append(EventsOf(d, p, n), d[Adv(p, n)][1])
                                     ELSE EventsOf(d, p, n)
          /\ EventsOf(f, p, n + 1) = IF f[Adv(p, n)][2] = 0
                                     THEN Append(EventsOf(f, p, n), f[Adv(p, n)][1])
                                     ELSE EventsOf(f, p, n)
      BY <3>1, EventsStep
    <3>4. EventsOf(f, p, n + 1) = EventsOf(d, p, n + 1)
      BY <3>2, <3>3
    <3> QED
      BY <3>4
  <2> QED
    BY <2>1
<1> HIDE DEF T
<1>3. m \in T
  BY <1>1, <1>2, NaturalInduction, SizeAssumption
<1> QED
  BY <1>3, SizeAssumption DEF T

\* Bytes that are no type bytes add no event.
LEMMA EventsQuiet ==
  ASSUME NEW d \in Ring, NEW p \in Idx, NEW a \in 0 .. Size - 1, NEW b \in a .. Size - 1,
         \A k \in a .. b - 1 : d[Adv(p, k)][2] # 0
  PROVE  EventsOf(d, p, b) = EventsOf(d, p, a)
<1> DEFINE T == {n \in Nat : a + n <= b => EventsOf(d, p, a + n) = EventsOf(d, p, a)}
<1>1. 0 \in T
  BY SizeAssumption
<1>2. ASSUME NEW n \in Nat, n \in T PROVE n + 1 \in T
  <2>1. CASE a + (n + 1) <= b
    <3>1. /\ a + n \in a .. b - 1 /\ a + n \in Nat /\ (a + n) + 1 < Size /\ a + n <= b
          /\ (a + n) + 1 = a + (n + 1)
      BY <2>1, SizeAssumption
    <3>2. d[Adv(p, a + n)][2] # 0 /\ EventsOf(d, p, a + n) = EventsOf(d, p, a)
      BY <1>2, <3>1
    <3>3. EventsOf(d, p, (a + n) + 1) = IF d[Adv(p, a + n)][2] = 0
                                        THEN Append(EventsOf(d, p, a + n), d[Adv(p, a + n)][1])
                                        ELSE EventsOf(d, p, a + n)
      BY <3>1, EventsStep
    <3>4. EventsOf(d, p, a + (n + 1)) = EventsOf(d, p, a)
      BY <3>1, <3>2, <3>3
    <3> QED
      BY <3>4
  <2> QED
    BY <2>1
<1> HIDE DEF T
<1>3. b - a \in T /\ b - a \in Nat /\ a + (b - a) = b
  BY <1>1, <1>2, NaturalInduction, SizeAssumption
<1> QED
  BY <1>3 DEF T

\* Events that begin behind the first n bytes are those of the ring read from there.
LEMMA EventsFrom ==
  ASSUME NEW d \in Ring, NEW p \in Idx, NEW n \in 0 .. Size - 1, NEW m \in 0 .. Size - 1,
         n + m < Size
  PROVE  EventsOf(d, p, n + m) = EventsOf(d, p, n) \o EventsOf(d, Adv(p, n), m)
<1> DEFINE first == EventsOf(d, p, n)
           q == Adv(p, n)
           T == {k \in Nat : k <= m =>
                   EventsOf(d, p, n + k) = first \o EventsOf(d, q, k)}
<1>1. q \in Idx /\ first \in Seq(Known) /\ n \in Nat /\ m \in Nat
  BY AdvClosed, EventsStep, SizeAssumption
<1>2. 0 \in T
  <2>1. EventsOf(d, q, 0) = <<>> /\ n + 0 = n
    BY <1>1, EventsStep
  <2>2. first \o <<>> = first
    BY <1>1
  <2> QED
    BY <2>1, <2>2
<1>3. ASSUME NEW k \in Nat, k \in T PROVE k + 1 \in T
  <2>1. CASE k + 1 <= m
    <3> DEFINE x == d[Adv(q, k)]
               rest == EventsOf(d, q, k)
    <3>1. /\ n + k \in Nat /\ (n + k) + 1 < Size /\ k + 1 < Size /\ k <= m
          /\ (n + k) + 1 = n + (k + 1) /\ k \in 0 .. Size - 1 /\ k \in 0 .. Size
      BY <2>1, <1>1, SizeAssumption
    <3>2. Adv(q, k) = Adv(p, n + k)
      BY <3>1, SizeAssumption DEF Adv, Idx
    <3>3. EventsOf(d, p, n + k) = first \o rest
      BY <1>3, <3>1
    <3>4. EventsOf(d, p, (n + k) + 1) = IF x[2] = 0
                                        THEN Append(EventsOf(d, p, n + k), x[1])
                                        ELSE EventsOf(d, p, n + k)
      BY <3>1, <3>2, EventsStep
    <3>5. EventsOf(d, q, k + 1) = IF x[2] = 0 THEN Append(rest, x[1]) ELSE rest
      BY <3>1, <1>1, EventsStep
    <3>6. rest \in Seq(Known) /\ x[1] \in Known
      <4>1. rest \in Seq(Known)
        BY <3>1, <1>1, EventsStep
      <4>2. Adv(q, k) \in Idx
        BY <3>1, <1>1, AdvClosed
      <4> QED
        BY <4>1, <4>2 DEF Ring, Byte, Zero, Known
    <3> HIDE DEF x, rest, first, q
    <3>7. Append(first \o rest, x[1]) = first \o Append(rest, x[1])
      <4>1. \A s, t \in Seq(Known), e \in Known : Append(s \o t, e) = s \o Append(t, e)
        OBVIOUS
      <4> QED
        BY <3>6, <1>1, <4>1
    <3>8. EventsOf(d, p, n + (k + 1)) = first \o EventsOf(d, q, k + 1)
      BY <3>1, <3>3, <3>4, <3>5, <3>7
    <3> QED
      BY <3>8
  <2> QED
    BY <2>1
<1> HIDE DEF T
<1>4. m \in T
  BY <1>1, <1>2, <1>3, NaturalInduction
<1> QED
  BY <1>4, <1>1 DEF T

(***************************************************************************)
(* The bytes that a row of events takes up.                                *)
(***************************************************************************)

\* sum[n] is what the first n events of q take up.
Sums(q, sum) ==
  /\ sum \in [0 .. Len(q) -> Nat]
  /\ sum[0] = 0
  /\ \A n \in 1 .. Len(q) : sum[n] = sum[n - 1] + evSize[q[n]]

LEMMA SumsExist ==
  ASSUME NEW q \in Seq(Event)
  PROVE  \E sum : Sums(q, sum)
<1> DEFINE m == Len(q)
           step == [x \in (1 .. m) \X Nat |-> x[2] + evSize[q[x[1]]]]
<1>1. m \in Nat /\ 0 \in Nat /\ step \in [(1 .. m) \X Nat -> Nat]
  <2>1. \A x \in (1 .. m) \X Nat : x[2] + evSize[q[x[1]]] \in Nat
    <3> SUFFICES ASSUME NEW x \in (1 .. m) \X Nat PROVE x[2] + evSize[q[x[1]]] \in Nat
      OBVIOUS
    <3>1. x[2] \in Nat /\ q[x[1]] \in Event
      OBVIOUS
    <3>2. evSize[q[x[1]]] \in Nat
      BY <3>1, EventAssumption, SizeAssumption
    <3> QED
      BY <3>1, <3>2
  <2> QED
    BY <2>1
<1>2. PICK f \in [0 .. m -> Nat] : Recursion(m, 0, step, f)
  <2> HIDE DEF step, m
  <2> QED
    BY <1>1, RecursionExists
<1>3. ASSUME NEW i \in 1 .. m PROVE f[i] = f[i - 1] + evSize[q[i]]
  <2>1. i - 1 \in 0 .. m
    BY <1>1
  <2>2. <<i, f[i - 1]>> \in (1 .. m) \X Nat
    BY <2>1
  <2>3. step[<<i, f[i - 1]>>] = f[i - 1] + evSize[q[i]]
    BY <2>2, Zenon
  <2> HIDE DEF step
  <2> QED
    BY <1>2, <2>3 DEF Recursion
<1>4. Sums(q, f)
  BY <1>2, <1>3 DEF Sums, Recursion
<1> QED
  BY <1>4

\* There is only one, which is what Bytes adds up.
LEMMA BytesAre ==
  ASSUME NEW q \in Seq(Event), NEW sum, Sums(q, sum)
  PROVE  Fifo!Bytes(q) = sum[Len(q)]
<1> DEFINE m == Len(q)
           Is(g) == g = [n \in 0 .. m |-> IF n = 0 THEN 0 ELSE g[n - 1] + evSize[q[n]]]
<1>1. m \in Nat /\ \A n \in 1 .. m : n \in 0 .. m /\ n # 0
  OBVIOUS
<1>2. Fifo!Bytes(q) = (CHOOSE g : Is(g))[m]
  BY Zenon DEF Fifo!Bytes
<1>3. Is(sum)
  <2>1. \A n \in 0 .. m : sum[n] = IF n = 0 THEN 0 ELSE sum[n - 1] + evSize[q[n]]
    <3>1. \A n \in 0 .. m : n = 0 \/ n \in 1 .. m
      BY <1>1
    <3> QED
      BY <3>1 DEF Sums
  <2>2. sum = [n \in 0 .. m |-> sum[n]]
    BY DEF Sums
  <2> QED
    BY <2>1, <2>2
<1>4. ASSUME NEW g, Is(g) PROVE g = sum
  <2> DEFINE T == {n \in Nat : n <= m => g[n] = sum[n]}
  <2>1. \A n \in 1 .. m : g[n] = g[n - 1] + evSize[q[n]]
    BY <1>1, <1>4, Zenon
  <2>2. 0 \in T
    <3>1. 0 \in 0 .. m
      BY <1>1
    <3>2. g[0] = 0
      BY <1>4, <3>1, Zenon
    <3> QED
      BY <3>2 DEF Sums
  <2>3. ASSUME NEW n \in Nat, n \in T PROVE n + 1 \in T
    <3>1. CASE n + 1 <= m
      <4>1. n + 1 \in 1 .. m /\ n <= m /\ n + 1 - 1 = n
        BY <3>1, <1>1
      <4>2. g[n] = sum[n]
        BY <2>3, <4>1
      <4>3. g[n + 1] = g[n] + evSize[q[n + 1]]
        BY <2>1, <4>1
      <4>4. sum[n + 1] = sum[n] + evSize[q[n + 1]]
        BY <4>1 DEF Sums
      <4> QED
        BY <4>2, <4>3, <4>4
    <3> QED
      BY <3>1
  <2> HIDE DEF T
  <2>4. Nat \subseteq T
    BY <2>2, <2>3, NaturalInduction
  <2>5. \A n \in 0 .. m : g[n] = sum[n]
    BY <2>4, <1>1 DEF T
  <2>6. g = [n \in 0 .. m |-> g[n]]
    <3>1. \E h : g = [n \in 0 .. m |-> h[n]]
      <4>1. DOMAIN g = 0 .. m /\ g = [n \in DOMAIN g |-> g[n]]
        BY <1>4, Zenon
      <4> QED
        BY <4>1
    <3> QED
      BY <3>1
  <2> QED
    BY <2>5, <2>6 DEF Sums
<1> HIDE DEF Is
<1>5. sum = CHOOSE g : Is(g)
  BY <1>3, <1>4
<1> QED
  BY <1>2, <1>5

\* No event, one more at the end, one more at the front.
LEMMA BytesNone == Fifo!Bytes(<<>>) = 0
<1>1. <<>> \in Seq(Event) /\ Len(<<>>) = 0
  OBVIOUS
<1>2. PICK sum : Sums(<<>>, sum)
  BY <1>1, SumsExist
<1>3. Fifo!Bytes(<<>>) = sum[Len(<<>>)]
  BY <1>1, <1>2, BytesAre
<1> QED
  BY <1>1, <1>2, <1>3 DEF Sums

LEMMA BytesAppend ==
  ASSUME NEW q \in Seq(Event), NEW e \in Event
  PROVE  /\ Fifo!Bytes(q) \in Nat
         /\ Fifo!Bytes(Append(q, e)) = Fifo!Bytes(q) + evSize[e]
<1> DEFINE m == Len(q)
<1>1. PICK sum : Sums(q, sum)
  BY SumsExist
<1> DEFINE more == [n \in 0 .. m + 1 |-> IF n = m + 1 THEN sum[m] + evSize[e] ELSE sum[n]]
<1>2. /\ m \in Nat /\ evSize[e] \in Nat /\ sum \in [0 .. m -> Nat] /\ sum[m] \in Nat
      /\ \A n \in 0 .. m : n \in 0 .. m + 1 /\ n # m + 1
      /\ m + 1 \in 0 .. m + 1
  <2>1. m \in Nat
    OBVIOUS
  <2>2. evSize[e] \in Nat
    BY EventAssumption, SizeAssumption
  <2> QED
    BY <1>1, <2>1, <2>2 DEF Sums
<1>3. Sums(Append(q, e), more)
  <2>1. Append(q, e) \in Seq(Event) /\ Len(Append(q, e)) = m + 1
    OBVIOUS
  <2>2. more \in [0 .. m + 1 -> Nat]
    <3>1. \A n \in 0 .. m + 1 : n = m + 1 \/ n \in 0 .. m
      BY <1>2
    <3> HIDE DEF m
    <3> QED
      BY <1>2, <3>1
  <2>3. more[m + 1] = sum[m] + evSize[e] /\ \A n \in 0 .. m : more[n] = sum[n]
    <3> HIDE DEF m
    <3> QED
      BY <1>2
  <2>4. more[0] = 0
    BY <1>1, <1>2, <2>3 DEF Sums
  <2>5. ASSUME NEW n \in 1 .. m + 1
        PROVE  more[n] = more[n - 1] + evSize[Append(q, e)[n]]
    <3>1. CASE n = m + 1
      <4>1. m \in 0 .. m /\ n - 1 = m /\ Append(q, e)[n] = e
        BY <3>1, <1>2
      <4> HIDE DEF more
      <4> QED
        BY <3>1, <4>1, <2>3
    <3>2. CASE n \in 1 .. m
      <4>1. n \in 0 .. m /\ n - 1 \in 0 .. m /\ Append(q, e)[n] = q[n]
        BY <3>2, <1>2
      <4>2. sum[n] = sum[n - 1] + evSize[q[n]]
        BY <1>1, <3>2 DEF Sums
      <4> HIDE DEF more
      <4> QED
        BY <4>1, <4>2, <2>3
    <3> QED
      BY <3>1, <3>2, <1>2
  <2> HIDE DEF more
  <2> QED
    BY <2>1, <2>2, <2>4, <2>5 DEF Sums
<1>4. Fifo!Bytes(Append(q, e)) = more[m + 1]
  <2>1. Append(q, e) \in Seq(Event) /\ Len(Append(q, e)) = m + 1
    OBVIOUS
  <2> HIDE DEF more
  <2> QED
    BY <1>3, <2>1, BytesAre
<1>5. more[m + 1] = sum[m] + evSize[e]
  BY <1>2
<1>6. Fifo!Bytes(q) = sum[m]
  BY <1>1, BytesAre
<1> QED
  BY <1>2, <1>4, <1>5, <1>6

LEMMA BytesFront ==
  ASSUME NEW q \in Seq(Event), NEW e \in Event
  PROVE  Fifo!Bytes(<<e>> \o q) = evSize[e] + Fifo!Bytes(q)
<1> DEFINE m == Len(q)
           r == <<e>> \o q
<1>1. PICK sum : Sums(q, sum)
  BY SumsExist
<1> DEFINE more == [n \in 0 .. m + 1 |-> IF n = 0 THEN 0 ELSE evSize[e] + sum[n - 1]]
<1>2. m \in Nat /\ evSize[e] \in Nat /\ sum \in [0 .. m -> Nat] /\ sum[0] = 0
  <2>1. m \in Nat
    OBVIOUS
  <2>2. evSize[e] \in Nat
    BY EventAssumption, SizeAssumption
  <2> QED
    BY <1>1, <2>1, <2>2 DEF Sums
<1>3. r \in Seq(Event) /\ Len(r) = m + 1 /\ r[1] = e /\ \A n \in 1 .. m : r[n + 1] = q[n]
  OBVIOUS
<1> HIDE DEF m, r
<1>4. more[0] = 0 /\ \A n \in 0 .. m : more[n + 1] = evSize[e] + sum[n]
  <2>1. 0 \in 0 .. m + 1 /\ \A n \in 0 .. m : n + 1 \in 0 .. m + 1 /\ n + 1 # 0 /\ n + 1 - 1 = n
    BY <1>2
  <2> QED
    BY <2>1
<1>5. Sums(r, more)
  <2>1. more \in [0 .. m + 1 -> Nat]
    <3>1. \A n \in 0 .. m + 1 : n = 0 \/ n - 1 \in 0 .. m
      BY <1>2
    <3>2. \A n \in 0 .. m + 1 : (IF n = 0 THEN 0 ELSE evSize[e] + sum[n - 1]) \in Nat
      BY <1>2, <3>1
    <3> QED
      BY <3>2
  <2> HIDE DEF more
  <2>2. ASSUME NEW n \in 0 .. m PROVE more[n + 1] = more[n] + evSize[r[n + 1]]
    <3>1. CASE n = 0
      BY <1>2, <1>3, <1>4, <3>1
    <3>2. CASE n # 0
      <4>1. n \in 1 .. m /\ n - 1 \in 0 .. m /\ (n - 1) + 1 = n
        BY <3>2, <1>2
      <4>2. sum[n] = sum[n - 1] + evSize[q[n]]
        BY <1>1, <4>1 DEF Sums, m
      <4>3. more[n + 1] = evSize[e] + sum[n] /\ more[n] = evSize[e] + sum[n - 1]
        BY <1>4, <4>1
      <4>4. r[n + 1] = q[n]
        BY <1>3, <4>1
      <4>5. sum[n - 1] \in Nat /\ evSize[q[n]] \in Nat
        <5>1. q[n] \in Event
          BY <4>1 DEF m
        <5> QED
          BY <1>2, <4>1, <5>1, EventAssumption, SizeAssumption
      <4> QED
        BY <1>2, <4>2, <4>3, <4>4, <4>5
    <3> QED
      BY <3>1, <3>2
  <2>3. ASSUME NEW n \in 1 .. m + 1 PROVE more[n] = more[n - 1] + evSize[r[n]]
    <3>1. n - 1 \in 0 .. m /\ (n - 1) + 1 = n
      BY <1>2
    <3> QED
      BY <2>2, <3>1
  <2> QED
    BY <1>3, <1>4, <2>1, <2>3 DEF Sums
<1>6. Fifo!Bytes(r) = more[m + 1]
  <2> HIDE DEF more
  <2> QED
    BY <1>3, <1>5, BytesAre
<1>7. more[m + 1] = evSize[e] + sum[m]
  <2>1. m \in 0 .. m
    BY <1>2
  <2> HIDE DEF more
  <2> QED
    BY <1>4, <2>1
<1>8. Fifo!Bytes(q) = sum[m]
  BY <1>1, BytesAre DEF m
<1> QED
  BY <1>6, <1>7, <1>8 DEF r

(***************************************************************************)
(* The ring implements EventFifo.                                          *)
(***************************************************************************)

LEMMA AdvDist ==
  ASSUME NEW p \in Idx, NEW k \in 0 .. Size - 1
  PROVE  Adv(p, k) \in Idx /\ Dist(p, Adv(p, k)) = k /\ Adv(p, 0) = p
  BY SizeAssumption DEF Adv, Dist, Idx

LEMMA RingUnchanged ==
  ASSUME UNCHANGED <<data, head, tail>>
  PROVE  QueuedEvents' = QueuedEvents
  BY DEF QueuedEvents, EventsOf, Used, Dist

\* A push with room appends its event.
LEMMA PushAppends ==
  ASSUME TypeOK, Framed, NEW e \in Event, evSize[e] <= Room,
         data' = Written(data, head, e),
         head' = Adv(head, evSize[e]),
         tail' = tail
  PROVE  QueuedEvents' = Append(QueuedEvents, e)
<1> DEFINE n == evSize[e]
<1>1. /\ data' \in Ring /\ data \in Ring /\ Used' = Used + n
      /\ \A i \in Idx : Queued(i) => data'[i] = data[i]
  BY WriteFramed DEF Ring, TypeOK
<1>2. /\ n \in 1 .. Size - 1 /\ Used \in Nat /\ Used + n < Size
      /\ Used \in 0 .. Size - 1 /\ tail \in Idx /\ head \in Idx
  <2>1. n \in 1 .. Size - 1
    BY EventAssumption
  <2>2. Used \in Idx /\ Room \in Idx /\ Used + Room = Size - 1 /\ tail \in Idx /\ head \in Idx
    BY RoomType DEF TypeOK
  <2> QED
    BY <2>1, <2>2, SizeAssumption DEF Idx
<1>3. \A k \in 0 .. Used - 1 : data'[Adv(tail, k)] = data[Adv(tail, k)]
  <2> SUFFICES ASSUME NEW k \in 0 .. Used - 1 PROVE data'[Adv(tail, k)] = data[Adv(tail, k)]
    OBVIOUS
  <2>1. k \in 0 .. Size - 1 /\ k < Used
    BY <1>2, SizeAssumption
  <2>2. Adv(tail, k) \in Idx /\ Dist(tail, Adv(tail, k)) = k
    BY <2>1, <1>2, AdvDist
  <2> QED
    BY <2>1, <2>2, <1>1 DEF Queued
<1>4. EventsOf(data', tail, Used) = EventsOf(data, tail, Used)
  BY <1>1, <1>2, <1>3, EventsSame
<1>5. ASSUME NEW j \in 0 .. n - 1
      PROVE  data'[Adv(tail, Used + j)] = <<e, j>>
  <2>1. j \in Nat /\ j < n /\ Used + j \in 0 .. Size - 1
    BY <1>2, SizeAssumption
  <2>2. Adv(tail, Used + j) \in Idx
    BY <2>1, <1>2, AdvDist
  <2>3. Dist(head, Adv(tail, Used + j)) = j
    BY <2>1, <1>2, SizeAssumption DEF Adv, Dist, Used, Idx
  <2> QED
    BY <2>1, <2>2, <2>3 DEF Written
<1>6. EventsOf(data', tail, Used + 1) = Append(EventsOf(data, tail, Used), e)
  <2>1. 0 \in 0 .. n - 1 /\ Used + 0 = Used /\ Used + 1 < Size
    BY <1>2, SizeAssumption
  <2>2. data'[Adv(tail, Used)] = <<e, 0>>
    BY <2>1, <1>5
  <2>3. EventsOf(data', tail, Used + 1) = IF data'[Adv(tail, Used)][2] = 0
              THEN Append(EventsOf(data', tail, Used), data'[Adv(tail, Used)][1])
              ELSE EventsOf(data', tail, Used)
    BY <1>1, <1>2, <2>1, EventsStep
  <2> QED
    BY <1>4, <2>2, <2>3
<1>7. EventsOf(data', tail, Used + n) = EventsOf(data', tail, Used + 1)
  <2>1. Used + 1 \in 0 .. Size - 1 /\ Used + n \in Used + 1 .. Size - 1
    BY <1>2, SizeAssumption
  <2>2. ASSUME NEW k \in Used + 1 .. Used + n - 1
        PROVE  data'[Adv(tail, k)][2] # 0
    <3>1. k - Used \in 0 .. n - 1 /\ k - Used # 0 /\ Used + (k - Used) = k
      BY <1>2
    <3>2. data'[Adv(tail, k)] = <<e, k - Used>>
      BY <3>1, <1>5
    <3> QED
      BY <3>1, <3>2
  <2> QED
    BY <1>1, <1>2, <2>1, <2>2, EventsQuiet
<1>8. QueuedEvents' = EventsOf(data', tail', Used')
  BY DEF QueuedEvents
<1> QED
  BY <1>1, <1>6, <1>7, <1>8 DEF QueuedEvents

\* The event at the tail is the first of the queue; the others lie behind it.
LEMMA PopTakesFirst ==
  ASSUME TypeOK, Framed, head # tail, NEW e, e = data[tail][1]
  PROVE  /\ e \in Event /\ evSize[e] \in 1 .. Used
         /\ QueuedEvents = <<e>> \o EventsOf(data, Adv(tail, evSize[e]), Used - evSize[e])
         /\ EventsOf(data, Adv(tail, evSize[e]), Used - evSize[e]) \in Seq(Known)
<1> DEFINE n == evSize[e]
<1>1. data \in Ring /\ tail \in Idx /\ head \in Idx /\ Used \in Nat /\ Used \in 1 .. Size - 1
  <2>1. Used \in Idx /\ Used # 0
    BY RoomType, DistClosed DEF TypeOK, Used
  <2> QED
    BY <2>1, SizeAssumption DEF Ring, TypeOK, Idx
<1>2. Queued(tail) /\ data[tail][2] = 0
  <2>1. Dist(tail, tail) = 0
    BY <1>1, DistClosed
  <2> QED
    BY <1>1, <2>1 DEF Queued, Framed
<1>3. e \in Event /\ Whole(data, tail, e) /\ n \in 1 .. Size - 1 /\ n <= Used
  <2>1. e \in Event /\ Whole(data, tail, e) /\ Dist(tail, tail) + n <= Used
    BY <1>1, <1>2 DEF Framed
  <2>2. Dist(tail, tail) = 0 /\ n \in 1 .. Size - 1
    BY <1>1, <2>1, DistClosed, EventAssumption
  <2> QED
    BY <2>1, <2>2
<1>4. \A k \in 0 .. n - 1 : data[Adv(tail, k)] = <<e, k>>
  <2> SUFFICES ASSUME NEW k \in 0 .. n - 1 PROVE data[Adv(tail, k)] = <<e, k>>
    OBVIOUS
  <2>1. k \in 0 .. Size - 1 /\ k < n
    BY <1>3, SizeAssumption
  <2>2. Adv(tail, k) \in Idx /\ Dist(tail, Adv(tail, k)) = k
    BY <2>1, <1>1, AdvDist
  <2> QED
    BY <2>1, <2>2, <1>3 DEF Whole
<1>5. EventsOf(data, tail, 1) = <<e>>
  <2>1. 0 + 1 = 1 /\ 0 + 1 < Size /\ Adv(tail, 0) = tail
    BY <1>1, <1>3, SizeAssumption DEF Adv, Idx
  <2>2. /\ EventsOf(data, tail, 0) = <<>>
        /\ EventsOf(data, tail, 0 + 1) = IF data[Adv(tail, 0)][2] = 0
                THEN Append(EventsOf(data, tail, 0), data[Adv(tail, 0)][1])
                ELSE EventsOf(data, tail, 0)
    BY <1>1, <2>1, EventsStep
  <2> QED
    <3>1. EventsOf(data, tail, 1) = Append(<<>>, data[tail][1])
      BY <1>2, <2>1, <2>2
    <3>2. Append(<<>>, e) = <<e>>
      OBVIOUS
    <3> QED
      BY <3>1, <3>2
<1>6. EventsOf(data, tail, n) = EventsOf(data, tail, 1)
  <2>1. 1 \in 0 .. Size - 1 /\ n \in 1 .. Size - 1
    BY <1>3, SizeAssumption
  <2>2. \A k \in 1 .. n - 1 : data[Adv(tail, k)][2] # 0
    BY <1>3, <1>4
  <2> QED
    BY <1>1, <2>1, <2>2, EventsQuiet
<1>7. /\ n \in 0 .. Size - 1 /\ Used - n \in 0 .. Size - 1 /\ n + (Used - n) = Used
      /\ Used < Size /\ n \in 0 .. Size
  BY <1>1, <1>3, SizeAssumption
<1>8. EventsOf(data, tail, Used) = EventsOf(data, tail, n) \o EventsOf(data, Adv(tail, n), Used - n)
  <2> DEFINE m == Used - n
  <2>1. m \in 0 .. Size - 1 /\ n + m = Used /\ n + m < Size
    BY <1>7
  <2> HIDE DEF m, n
  <2>2. EventsOf(data, tail, n + m) = EventsOf(data, tail, n) \o EventsOf(data, Adv(tail, n), m)
    BY <1>1, <1>7, <2>1, EventsFrom
  <2> QED
    BY <2>1, <2>2 DEF m
<1>9. EventsOf(data, Adv(tail, n), Used - n) \in Seq(Known)
  <2>1. Adv(tail, n) \in Idx
    BY <1>1, <1>7, AdvClosed
  <2> QED
    BY <1>1, <1>7, <2>1, EventsStep
<1> QED
  BY <1>1, <1>3, <1>5, <1>6, <1>8, <1>9 DEF QueuedEvents

\* What the refinement needs besides IInv: the loop has no event in hand when it
\* pops, and the queued events are as many bytes as are used.
QueueInv ==
  /\ thread \in {"boot", "wait", "idle"} => cur.ev = NoEvent
  /\ QueuedEvents \in Seq(Event)
  /\ Fifo!Bytes(QueuedEvents) = Used

LEMMA InitQueueInv ==
  ASSUME Init
  PROVE  QueueInv /\ Fifo!FifoInit
<1>1. Used = 0 /\ tail \in Idx /\ data \in Ring
  BY SizeAssumption DEF Init, Used, Dist, Idx, Ring
<1>2. QueuedEvents = <<>>
  BY <1>1, EventsStep DEF QueuedEvents
<1>3. <<>> \in Seq(Event)
  OBVIOUS
<1> QED
  BY <1>1, <1>2, <1>3, BytesNone DEF Init, QueueInv, Fifo!FifoInit

\* A push under way changes nothing that EventFifo sees until it commits.
LEMMA PushBeginStutters ==
  ASSUME QueueInv, NEW l \in Level, NEW e \in Event, PushBegin(l, e)
  PROVE  QueueInv' /\ UNCHANGED Fifo!fifoVars
<1>1. UNCHANGED <<data, head, tail, xruns, thread, cur>>
  BY DEF PushBegin
<1>2. QueuedEvents' = QueuedEvents /\ Used' = Used
  BY <1>1, RingUnchanged DEF Used, Dist
<1> QED
  BY <1>1, <1>2 DEF QueueInv, Fifo!fifoVars, Fifo!Bytes

\* The commit accepts the event when it fits, and refuses it when it does not.
LEMMA PushCommitRefines ==
  ASSUME IInv, QueueInv, NEW l \in Level, PushCommit(l)
  PROVE  QueueInv' /\ [Fifo!FifoNext]_Fifo!fifoVars
<1> DEFINE e == pend[l].ev
<1>1. e \in Event /\ pend[l].room = Room
  BY DEF PushCommit, OnePush, Pushing, TypeOK, None, IInv
<1>2. Used \in Nat /\ Room \in Nat /\ Used + Room = Size - 1 /\ evSize[e] \in Nat
  <2>1. Used \in Idx /\ Room \in Idx /\ Used + Room = Size - 1
    BY RoomType DEF IInv, TypeOK
  <2>2. evSize[e] \in Nat
    BY <1>1, EventAssumption, SizeAssumption
  <2> QED
    BY <2>1, <2>2 DEF Idx
<1>3. /\ UNCHANGED <<tail, cur>>
      /\ thread' \in {"boot", "wait", "idle"} => thread \in {"boot", "wait", "idle"}
  BY DEF PushCommit
<1>4. (thread' \in {"boot", "wait", "idle"} => cur'.ev = NoEvent) /\ cur'.ev = cur.ev
  BY <1>3 DEF QueueInv
<1>5. CASE Room >= evSize[e]
  <2>1. data' = Written(data, head, e) /\ head' = Adv(head, evSize[e]) /\ UNCHANGED xruns
    BY <1>1, <1>5 DEF PushCommit
  <2>2. QueuedEvents' = Append(QueuedEvents, e) /\ Used' = Used + evSize[e]
    BY <1>1, <1>2, <1>3, <1>5, <2>1, PushAppends, WriteFramed DEF IInv
  <2>3. Fifo!Bytes(QueuedEvents) + evSize[e] <= Size - 1
    BY <1>2, <1>5 DEF QueueInv
  <2>4. Fifo!Accept(e)
    BY <1>4, <2>1, <2>2, <2>3 DEF Fifo!Accept
  <2>5. /\ Append(QueuedEvents, e) \in Seq(Event)
        /\ Fifo!Bytes(Append(QueuedEvents, e)) = Used + evSize[e]
    BY <1>1, BytesAppend DEF QueueInv
  <2>6. QueueInv'
    <3>1. \E q : QueuedEvents' = q /\ q \in Seq(Event) /\ Fifo!Bytes(q) = Used'
      BY <2>2, <2>5
    <3> QED
      BY <1>4, <3>1 DEF QueueInv, Fifo!Bytes
  <2> QED
    BY <1>1, <2>4, <2>6 DEF Fifo!FifoNext
<1>6. CASE ~(Room >= evSize[e])
  <2>1. /\ UNCHANGED <<data, head, tail>>
        /\ xruns' = IF xruns < MaxXruns THEN xruns + 1 ELSE xruns
    BY <1>1, <1>3, <1>6 DEF PushCommit
  <2>2. QueuedEvents' = QueuedEvents /\ Used' = Used
    BY <2>1, RingUnchanged DEF Used, Dist
  <2>3. QueueInv'
    BY <1>4, <2>2 DEF QueueInv, Fifo!Bytes
  <2>4. Fifo!Bytes(QueuedEvents) + evSize[e] > Size - 1
    BY <1>2, <1>6 DEF QueueInv
  <2>5. CASE xruns < MaxXruns
    <3>1. Fifo!Refuse(e)
      BY <1>4, <2>1, <2>2, <2>4, <2>5 DEF Fifo!Refuse
    <3> QED
      BY <1>1, <2>3, <3>1 DEF Fifo!FifoNext
  <2>6. CASE ~(xruns < MaxXruns)
    <3>1. UNCHANGED Fifo!fifoVars
      BY <1>4, <2>1, <2>2, <2>6 DEF Fifo!fifoVars
    <3> QED
      BY <2>3, <3>1
  <2> QED
    BY <2>5, <2>6
<1> QED
  BY <1>5, <1>6

\* A pop hands the first event of the queue to its handlers.
LEMMA EvqPopRefines ==
  ASSUME IInv, QueueInv, EvqPop
  PROVE  QueueInv' /\ Fifo!FifoNext
<1> DEFINE e == data[tail][1]
           n == evSize[e]
           rest == EventsOf(data, Adv(tail, n), Used - n)
<1>1. /\ e \in Event /\ n \in 1 .. Used /\ Used \in Nat
      /\ QueuedEvents = <<e>> \o rest /\ rest \in Seq(Known)
      /\ head \in Idx /\ tail \in Idx
  <2>1. Used \in Idx /\ head \in Idx /\ tail \in Idx
    BY RoomType DEF IInv, TypeOK
  <2>2. head # tail
    BY DEF EvqPop
  <2>3. /\ e \in Event /\ n \in 1 .. Used
        /\ QueuedEvents = <<e>> \o rest /\ rest \in Seq(Known)
    <3> HIDE DEF rest, e
    <3> QED
      BY <2>2, PopTakesFirst, Zenon DEF IInv, e, rest
  <2> QED
    BY <2>1, <2>3 DEF Idx
<1>2. data[tail][2] = 0
  BY DEF EvqPop, IInv, Framed
<1>3. /\ tail' = Adv(tail, n) /\ cur'.ev = e /\ thread' = "dispatch"
      /\ UNCHANGED <<data, head, xruns>>
  BY <1>1, <1>2, EventAssumption DEF EvqPop, IsType
<1>4. Used' = Used - n
  <2>1. n \in 0 .. Size /\ n <= Dist(tail, head)
    <3>1. n \in 1 .. Size - 1
      BY <1>1, EventAssumption
    <3> QED
      BY <1>1, <3>1, SizeAssumption DEF Used
  <2>2. Dist(Adv(tail, n), head) = Dist(tail, head) - n
    BY <1>1, <2>1, DistFrom
  <2>3. Used' = Dist(tail', head')
    BY DEF Used
  <2>4. Dist(tail', head') = Dist(Adv(tail, n), head)
    BY <1>3
  <2> QED
    BY <2>2, <2>3, <2>4 DEF Used
<1>5. QueuedEvents' = rest
  <2>1. QueuedEvents' = EventsOf(data', tail', Used')
    BY DEF QueuedEvents
  <2> QED
    BY <1>3, <1>4, <2>1
<1> HIDE DEF rest
<1>6. QueuedEvents # <<>> /\ Head(QueuedEvents) = e /\ Tail(QueuedEvents) = rest
  <2>1. \A s \in Seq(Known) : <<e>> \o s # <<>> /\ Head(<<e>> \o s) = e /\ Tail(<<e>> \o s) = s
    OBVIOUS
  <2> QED
    BY <1>1, <2>1
<1>7. rest \in Seq(Event)
  <2>1. QueuedEvents \in Seq(Event) /\ QueuedEvents # <<>>
    BY <1>6 DEF QueueInv
  <2>2. Tail(QueuedEvents) \in Seq(Event)
    BY <2>1, HeadTailProperties
  <2> QED
    BY <1>6, <2>2
<1>8. Fifo!Bytes(rest) = Used - n
  <2>1. Fifo!Bytes(<<e>> \o rest) = n + Fifo!Bytes(rest) /\ Fifo!Bytes(rest) \in Nat
    BY <1>1, <1>7, BytesFront, BytesAppend
  <2>2. Fifo!Bytes(<<e>> \o rest) = Used
    BY <1>1 DEF QueueInv
  <2> QED
    BY <1>1, <2>1, <2>2
<1>9. QueueInv'
  <2>1. \E q : QueuedEvents' = q /\ q \in Seq(Event) /\ Fifo!Bytes(q) = Used'
    BY <1>4, <1>5, <1>7, <1>8
  <2> QED
    BY <1>3, <2>1 DEF QueueInv, Fifo!Bytes
<1>10. cur.ev = NoEvent
  BY DEF EvqPop, QueueInv
<1>11. Fifo!Handle
  BY <1>3, <1>5, <1>6, <1>10 DEF Fifo!Handle
<1> QED
  BY <1>9, <1>11 DEF Fifo!FifoNext

\* The other steps leave the ring alone; the end of a dispatch frees the hand.
LEMMA LoopRefines ==
  ASSUME IInv, QueueInv, IdleEnter \/ IdleReturn \/ DispatchEnd \/ UNCHANGED vars
  PROVE  QueueInv' /\ [Fifo!FifoNext]_Fifo!fifoVars
<1>1. UNCHANGED <<data, head, tail, xruns>>
  BY DEF IdleEnter, IdleReturn, DispatchEnd, vars
<1>2. QueuedEvents' = QueuedEvents /\ Used' = Used
  BY <1>1, RingUnchanged DEF Used, Dist
<1>3. thread' \in {"boot", "wait", "idle"} => cur'.ev = NoEvent
  BY DEF IdleEnter, IdleReturn, DispatchEnd, vars, QueueInv
<1>4. QueueInv'
  BY <1>2, <1>3 DEF QueueInv, Fifo!Bytes
<1>5. cur'.ev = cur.ev \/ (cur.ev # NoEvent /\ cur'.ev = NoEvent)
  BY DEF IdleEnter, IdleReturn, DispatchEnd, vars
<1>6. CASE cur'.ev = cur.ev
  BY <1>1, <1>2, <1>4, <1>6 DEF Fifo!fifoVars
<1>7. CASE cur.ev # NoEvent /\ cur'.ev = NoEvent
  <2>1. Fifo!Handled
    BY <1>1, <1>2, <1>7 DEF Fifo!Handled
  <2> QED
    BY <1>4, <2>1 DEF Fifo!FifoNext
<1> QED
  BY <1>5, <1>6, <1>7

\* Without preemption the ring of evq.c, with its wrap and its byte by byte copies,
\* is a bounded FIFO of whole events: every step of a push, of a pop and of the loop
\* is one step of EventFifo or none.
THEOREM QueueImplementsFifo ==
  ASSUME ~Preemptive
  PROVE  Spec => ImplementsFifo
<1>1. Init => QueueInv /\ Fifo!FifoInit
  BY InitQueueInv
<1>2. ASSUME IInv, QueueInv, [Next]_vars
      PROVE  QueueInv' /\ [Fifo!FifoNext]_Fifo!fifoVars
  <2>1. ASSUME NEW l \in Level, NEW e \in Event, PushBegin(l, e)
        PROVE  QueueInv' /\ [Fifo!FifoNext]_Fifo!fifoVars
    BY <1>2, <2>1, PushBeginStutters
  <2>2. ASSUME NEW l \in Level, PushCommit(l)
        PROVE  QueueInv' /\ [Fifo!FifoNext]_Fifo!fifoVars
    BY <1>2, <2>2, PushCommitRefines
  <2>3. CASE EvqPop
    BY <1>2, <2>3, EvqPopRefines
  <2>4. CASE IdleEnter \/ IdleReturn \/ DispatchEnd \/ UNCHANGED vars
    BY <1>2, <2>4, LoopRefines
  <2> QED
    BY <1>2, <2>1, <2>2, <2>3, <2>4 DEF Next
<1> QED
  BY <1>1, <1>2, Invariance, PTL DEF Spec, ImplementsFifo, Fifo!FifoSpec

=============================================================================
