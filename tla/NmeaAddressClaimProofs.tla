----------------------- MODULE NmeaAddressClaimProofs -----------------------
(***************************************************************************)
(* Proofs about NmeaAddressClaim, for any number of nodes and addresses,   *)
(* any distinct names, and any delays.                                     *)
(***************************************************************************)
EXTENDS NmeaAddressClaim, SequenceTheorems, TLAPS

(***************************************************************************)
(* The inductive invariant.  A node has announced its address when its     *)
(* last claim was sent for it.  ConflictIsNoticed speaks of owners only,   *)
(* but a node becomes one without a frame, so the alarm has to be up       *)
(* already between any two nodes that have announced the same address.     *)
(***************************************************************************)
Announced(n) == nsm[n].state \in {3, 5, 9}

\* What an owner heard, it heard for the address it owns.
HeardForOwn ==
  \A n \in Node : Owner(n) =>
    /\ ~nsm[n].lose
    /\ nsm[n].recv # NoName => heard[n] = nsm[n].address

\* The delay of STATE_3 runs down while nobody is heard.
QuietCount ==
  \A n \in Node :
    nsm[n].state = 3 /\ nsm[n].recv = NoName => quiet[n] + nsm[n].delay >= ClaimDelay

Noticed ==
  \A m, n \in Node :
    (m # n /\ Announced(m) /\ Announced(n) /\ nsm[m].address = nsm[n].address)
       => Alarmed(m) \/ Alarmed(n)

IInv == TypeOK /\ HeardForOwn /\ QuietCount /\ Noticed

LEMMA NameFacts ==
  \A n \in Node : name[n] \in Nat /\ name[n] # NoName
  BY NameAssumption DEF NoName

\* Assignments to a field of a machine, one at a time.
LEMMA SetDelay ==
  ASSUME NEW m \in Machine, NEW d \in Nat
  PROVE  LET k == [m EXCEPT !.delay = d]
         IN  /\ k \in Machine
             /\ k.state = m.state /\ k.delay = d /\ k.address = m.address
  BY DEF Machine

LEMMA SetAddress ==
  ASSUME NEW m \in Machine, NEW a \in Address
  PROVE  LET k == [m EXCEPT !.address = a]
         IN  k \in Machine /\ k.state = m.state
  BY DEF Machine

LEMMA SetRequest ==
  ASSUME NEW m \in Machine, NEW r \in BOOLEAN
  PROVE  LET k == [m EXCEPT !.request = r]
         IN  /\ k \in Machine
             /\ k.state = m.state /\ k.recv = m.recv /\ k.address = m.address
             /\ k.lose = m.lose
  BY DEF Machine

LEMMA InitialisedFacts ==
  ASSUME NEW m \in Machine, NEW a \in Nat
  PROVE  Initialised(m, a) \in Machine /\ Initialised(m, a).state = 0
<1> DEFINE b == IF a >= Last THEN 1 ELSE a
           m1 == [m EXCEPT !.state = 0]
           m2 == [m1 EXCEPT !.delay = 0]
<1>1. b \in Address
  BY AddressAssumption DEF Address
<1>2. m1 \in Machine /\ m1.state = 0
  BY DEF Machine
<1>3. Initialised(m, a) = [m2 EXCEPT !.address = b]
  BY DEF Initialised, Machine
<1> HIDE DEF b, m1
<1>4. m2 \in Machine /\ m2.state = 0
  BY <1>2, SetDelay
<1> HIDE DEF m2
<1> QED
  BY <1>1, <1>3, <1>4, SetAddress

LEMMA ZeroStaticsType == ZeroStatics \in Machine
  BY AddressAssumption DEF ZeroStatics, Machine, Address, NoName

LEMMA InitIInv == Init => IInv
<1> SUFFICES ASSUME Init PROVE IInv
  OBVIOUS
<1>1. saved \in [Node -> Nat]
  BY AddressAssumption DEF Init
<1>2. nsm \in [Node -> Machine] /\ \A n \in Node : nsm[n].state = 0
  BY <1>1, InitialisedFacts, ZeroStaticsType DEF Init
<1>3. TypeOK
  BY <1>1, <1>2, DelayAssumption, AddressAssumption DEF Init, TypeOK, Address
<1>4. HeardForOwn /\ QuietCount /\ Noticed
  BY <1>2 DEF HeardForOwn, QuietCount, Noticed, Owner, Announced
<1> QED
  BY <1>3, <1>4 DEF IInv

(***************************************************************************)
(* A step of nsm_poll() without a frame.                                   *)
(***************************************************************************)

\* quiet[n] after such a step.
Longer(n) == IF quiet[n] < ClaimDelay THEN quiet[n] + 1 ELSE quiet[n]

\* The machine m that such a step may leave: an announced address stays announced
\* only with the alarm that was up.
GoodMove(n, m) ==
  /\ m \in Machine
  /\ m.state \in {5, 9} =>
       ~m.lose /\ (m.recv # NoName => heard[n] = m.address)
  /\ m.state = 3 /\ m.recv = NoName => Longer(n) + m.delay >= ClaimDelay
  /\ m.state \in {3, 5, 9} =>
       /\ Announced(n)
       /\ m.address = nsm[n].address
       /\ m.state = 9 \/ m.recv # NoName
            \/ (nsm[n].state # 9 /\ nsm[n].recv = NoName)

LEMMA BecomesIInv ==
  ASSUME IInv, NEW n \in Node, NEW m, GoodMove(n, m), Becomes(n, m),
         saved' \in [Node -> Nat]
  PROVE  IInv'
<1>1. m \in Machine /\ nsm' = [nsm EXCEPT ![n] = m] /\ inbox' = inbox /\ heard' = heard
      /\ quiet' = [quiet EXCEPT ![n] = Longer(n)]
  BY DEF Becomes, GoodMove, Longer
<1>2. TypeOK'
  BY <1>1, DelayAssumption DEF IInv, TypeOK, Longer
<1>3. /\ nsm'[n] = m
      /\ \A o \in Node \ {n} : nsm'[o] = nsm[o] /\ quiet'[o] = quiet[o]
      /\ quiet'[n] = Longer(n)
  BY <1>1 DEF IInv, TypeOK
<1>4. HeardForOwn'
  BY <1>1, <1>3 DEF IInv, HeardForOwn, GoodMove, Owner
<1>5. QuietCount'
  BY <1>1, <1>3 DEF IInv, QuietCount, GoodMove
<1>6. Announced(n)' =>
        Announced(n) /\ nsm'[n].address = nsm[n].address /\ (Alarmed(n) => Alarmed(n)')
  BY <1>1, <1>3 DEF GoodMove, Announced, Alarmed
<1>7. \A o \in Node \ {n} :
        (Announced(o)' <=> Announced(o)) /\ nsm'[o].address = nsm[o].address
          /\ (Alarmed(o) => Alarmed(o)')
  BY <1>1, <1>3 DEF Announced, Alarmed
<1>8. Noticed'
  BY <1>6, <1>7 DEF IInv, Noticed
<1> QED
  BY <1>2, <1>4, <1>5, <1>8 DEF IInv

(***************************************************************************)
(* A step that sends a claim: every other node at this address will hear.  *)
(***************************************************************************)
GoodSend(n, m) ==
  /\ m \in Machine
  /\ m.address = nsm[n].address
  /\ m.state \in {3, 5, 8}
  /\ m.state = 3 => m.delay = ClaimDelay
  /\ m.state = 5 => ~m.lose /\ (m.recv # NoName => heard[n] = m.address)

LEMMA TransmitsIInv ==
  ASSUME IInv, NEW n \in Node, NEW m, GoodSend(n, m), Transmits(n, m),
         saved' \in [Node -> Nat]
  PROVE  IInv'
<1> DEFINE f == [src |-> nsm[n].address, name |-> name[n]]
<1>1. m \in Machine /\ nsm' = [nsm EXCEPT ![n] = m] /\ heard' = heard
      /\ quiet' = [quiet EXCEPT ![n] = 0]
  BY DEF Transmits, GoodSend
<1>2. /\ inbox' \in [Node -> Seq(Claim)]
      /\ inbox'[n] = inbox[n]
      /\ \A o \in Node \ {n} :
           /\ inbox'[o] = Append(inbox[o], f)
           /\ Len(inbox[o]) < InboxMax
  <2>1. f \in Claim
    BY DEF IInv, TypeOK, Machine, Claim
  <2> HIDE DEF f
  <2>2. inbox' = [o \in Node |-> IF o = n THEN inbox[n] ELSE Append(inbox[o], f)]
    BY DEF Transmits, f
  <2>3. \A o \in Node : inbox[o] \in Seq(Claim) /\ Append(inbox[o], f) \in Seq(Claim)
    BY <2>1 DEF IInv, TypeOK
  <2>4. \A o \in Node \ {n} : Len(inbox[o]) < InboxMax
    BY DEF Transmits
  <2> QED
    BY <2>2, <2>3, <2>4
<1>3. \A o \in Node \ {n} :
        /\ Len(inbox'[o]) = Len(inbox[o]) + 1
        /\ \A i \in 1 .. Len(inbox[o]) : inbox'[o][i] = inbox[o][i]
        /\ inbox'[o][Len(inbox[o]) + 1].src = nsm[n].address
  BY <1>2 DEF IInv, TypeOK
<1>4. \A o \in Node : Len(inbox[o]) \in Nat
  BY DEF IInv, TypeOK
<1>5. TypeOK'
  <2>1. Len(inbox'[n]) <= InboxMax
    BY <1>2 DEF IInv, TypeOK
  <2>2. \A o \in Node \ {n} : Len(inbox'[o]) <= InboxMax
    <3> TAKE o \in Node \ {n}
    <3>1. Len(inbox'[o]) = Len(inbox[o]) + 1 /\ Len(inbox[o]) < InboxMax
      BY <1>2, <1>3
    <3>2. Len(inbox[o]) \in Nat
      BY <1>4
    <3> QED
      BY <3>1, <3>2, DelayAssumption
  <2>3. quiet' \in [Node -> 0 .. ClaimDelay]
    BY <1>1, DelayAssumption DEF IInv, TypeOK
  <2>4. nsm' \in [Node -> Machine] /\ heard' \in [Node -> Address]
    BY <1>1 DEF IInv, TypeOK
  <2> QED
    BY <1>2, <2>1, <2>2, <2>3, <2>4 DEF TypeOK
<1>6. /\ nsm'[n] = m /\ quiet'[n] = 0
      /\ \A o \in Node \ {n} : nsm'[o] = nsm[o] /\ quiet'[o] = quiet[o]
  BY <1>1 DEF IInv, TypeOK
<1>7. HeardForOwn'
  BY <1>1, <1>6 DEF IInv, HeardForOwn, GoodSend, Owner
<1>8. QuietCount'
  BY <1>1, <1>6, DelayAssumption DEF IInv, QuietCount, GoodSend
<1>9. \A o \in Node \ {n} :
        /\ Announced(o)' <=> Announced(o)
        /\ nsm'[o].address = nsm[o].address
        /\ Alarmed(o) => Alarmed(o)'
  BY <1>3, <1>4, <1>6 DEF Announced, Alarmed
<1>10. \A o \in Node \ {n} : nsm[o].address = nsm[n].address => Alarmed(o)'
  BY <1>3, <1>4, <1>6 DEF Alarmed
<1>11. nsm'[n].address = nsm[n].address
  BY <1>6 DEF GoodSend
<1>12. Noticed'
  BY <1>9, <1>10, <1>11 DEF IInv, Noticed
<1> QED
  BY <1>5, <1>7, <1>8, <1>12 DEF IInv


(***************************************************************************)
(* What the parts of nsm_poll() do to a machine.                           *)
(***************************************************************************)

LEMMA TickedFacts ==
  ASSUME TypeOK, NEW n \in Node
  PROVE  /\ Ticked(n) \in Machine
         /\ Ticked(n).delay = IF nsm[n].delay > 0 THEN nsm[n].delay - 1 ELSE 0
         /\ Ticked(n).state = nsm[n].state
         /\ Ticked(n).address = nsm[n].address
         /\ Ticked(n).recv = nsm[n].recv
         /\ Ticked(n).lose = nsm[n].lose
         /\ Ticked(n).win = nsm[n].win
         /\ Ticked(n).request = nsm[n].request
<1>1. nsm[n] \in Machine
  BY DEF TypeOK
<1> QED
  BY <1>1 DEF Ticked, Machine

\* A name that was heard leads to a verdict, none to no verdict.
LEMMA ProcessedFacts ==
  ASSUME NEW m \in Machine, NEW mine \in Nat
  PROVE  /\ Processed(m, mine) \in Machine
         /\ Processed(m, mine).recv = NoName
         /\ Processed(m, mine).state = m.state
         /\ Processed(m, mine).delay = m.delay
         /\ Processed(m, mine).address = m.address
         /\ m.recv # NoName => Processed(m, mine).lose \/ Processed(m, mine).win
         /\ m.recv = NoName => ~Processed(m, mine).lose /\ ~Processed(m, mine).win
         /\ Processed(m, mine).lose => m.recv # NoName /\ (m.recv < mine \/ m.lose)
<1>1. (m.recv # NoName /\ (m.recv < mine \/ m.lose)) \in BOOLEAN
      /\ (m.recv # NoName /\ (~(m.recv < mine) \/ m.win)) \in BOOLEAN
  OBVIOUS
<1> QED
  BY <1>1 DEF Processed, Machine

(***************************************************************************)
(* One lemma per action.                                                   *)
(***************************************************************************)

LEMMA IdleIInv ==
  ASSUME IInv, NEW n \in Node, Idle(n)
  PROVE  IInv'
<1> DEFINE m == [nsm[n] EXCEPT !.state = 1, !.delay = RandomDelay]
           m1 == [nsm[n] EXCEPT !.state = 1]
<1>1. m1 \in Machine /\ m1.state = 1
  <2>1. nsm[n] \in Machine
    BY DEF IInv, TypeOK
  <2> QED
    BY <2>1 DEF Machine
<1>2. m \in Machine /\ m.state = 1
  <2>1. m = [m1 EXCEPT !.delay = RandomDelay]
    BY DEF IInv, TypeOK, Machine
  <2> HIDE DEF m, m1
  <2> QED
    BY <1>1, <2>1, DelayAssumption, SetDelay
<1>3. Becomes(n, m) /\ saved' \in [Node -> Nat]
  BY DEF Idle, IInv, TypeOK
<1> HIDE DEF m
<1>4. GoodMove(n, m)
  BY <1>2 DEF GoodMove
<1> QED
  BY <1>3, <1>4, BecomesIInv

LEMMA WaitDelayIInv ==
  ASSUME IInv, NEW n \in Node, WaitDelay(n)
  PROVE  IInv'
<1> DEFINE m == [Ticked(n) EXCEPT !.state = IF Ticked(n).delay = 0 THEN @ + 1 ELSE @]
<1>1. Ticked(n) \in Machine /\ Ticked(n).state \in {1, 6}
  BY TickedFacts DEF IInv, WaitDelay
<1>2. m \in Machine /\ m.state \in {1, 2, 6, 7}
  BY <1>1 DEF Machine
<1>3. Becomes(n, m) /\ saved' \in [Node -> Nat]
  BY DEF WaitDelay, IInv, TypeOK
<1> HIDE DEF m
<1>4. GoodMove(n, m)
  BY <1>2 DEF GoodMove
<1> QED
  BY <1>3, <1>4, BecomesIInv

LEMMA TransmitClaimIInv ==
  ASSUME IInv, NEW n \in Node, TransmitClaim(n)
  PROVE  IInv'
<1> DEFINE m == [nsm[n] EXCEPT !.state = 3, !.delay = ClaimDelay]
           m1 == [nsm[n] EXCEPT !.state = 3]
<1>1. m1 \in Machine /\ m1.state = 3 /\ m1.address = nsm[n].address
  <2>1. nsm[n] \in Machine
    BY DEF IInv, TypeOK
  <2> QED
    BY <2>1 DEF Machine
<1>2. m \in Machine /\ m.state = 3 /\ m.delay = ClaimDelay /\ m.address = nsm[n].address
  <2>1. m = [m1 EXCEPT !.delay = ClaimDelay]
    BY DEF IInv, TypeOK, Machine
  <2> HIDE DEF m, m1
  <2> QED
    BY <1>1, <2>1, DelayAssumption, SetDelay
<1>3. Transmits(n, m) /\ saved' \in [Node -> Nat]
  BY DEF TransmitClaim, IInv, TypeOK
<1> HIDE DEF m
<1>4. GoodSend(n, m)
  BY <1>2 DEF GoodSend
<1> QED
  BY <1>3, <1>4, TransmitsIInv

\* The saved address is one of the type, whether it is written or not.
LEMMA SavedType ==
  ASSUME TypeOK, NEW n \in Node, GotAddress(n) \/ UNCHANGED saved
  PROVE  saved' \in [Node -> Nat]
<1>1. nsm[n].address \in Nat
  BY AddressAssumption DEF TypeOK, Machine, Address
<1> QED
  BY <1>1 DEF TypeOK, GotAddress

LEMMA ContendIInv ==
  ASSUME IInv, NEW n \in Node, Contend(n)
  PROVE  IInv'
<1> DEFINE p == Processed(Ticked(n), name[n])
           s == IF p.lose THEN 4 ELSE IF p.win THEN 2 ELSE IF p.delay = 0 THEN 5 ELSE 3
           m == [p EXCEPT !.state = s]
<1>1. /\ Becomes(n, m)
      /\ GotAddress(n) \/ UNCHANGED saved
      /\ nsm[n].state = 3
  BY DEF Contend
<1>2. saved' \in [Node -> Nat]
  BY <1>1, SavedType DEF IInv
<1>3. p \in Machine
  BY TickedFacts, ProcessedFacts, NameFacts DEF IInv
<1>4. s \in {4, 2, 5, 3}
  OBVIOUS
<1>5. /\ m \in Machine
      /\ m.state = s
      /\ m.lose = p.lose
      /\ m.recv = p.recv
      /\ m.delay = p.delay
      /\ m.address = p.address
  <2> HIDE DEF p, s
  <2> QED
    BY <1>3, <1>4 DEF Machine
<1>6. /\ p.recv = NoName
      /\ p.delay = IF nsm[n].delay > 0 THEN nsm[n].delay - 1 ELSE 0
      /\ p.address = nsm[n].address
      /\ s \in {3, 5} => nsm[n].recv = NoName /\ ~p.lose
  BY TickedFacts, ProcessedFacts, NameFacts DEF IInv
<1>7. s = 3 => Longer(n) + p.delay >= ClaimDelay
  <2> HAVE s = 3
  <2>1. nsm[n].recv = NoName
    BY <1>6
  <2>2. quiet[n] + nsm[n].delay >= ClaimDelay
    BY <1>1, <2>1 DEF IInv, QuietCount
  <2>3. quiet[n] \in 0 .. ClaimDelay /\ nsm[n].delay \in Nat
    BY DEF IInv, TypeOK, Machine
  <2> HIDE DEF p, s, m
  <2> QED
    BY <1>6, <2>2, <2>3, DelayAssumption DEF Longer
<1>8. GoodMove(n, m)
  <2> HIDE DEF p, s, m
  <2> QED
    BY <1>1, <1>4, <1>5, <1>6, <1>7 DEF GoodMove, Announced
<1> QED
  BY <1>1, <1>2, <1>8, BecomesIInv

LEMMA FetchNextIInv ==
  ASSUME IInv, NEW n \in Node, FetchNext(n)
  PROVE  IInv'
<1> DEFINE next == [Ticked(n) EXCEPT !.state = 2, !.address = @ + 1]
           none == [Ticked(n) EXCEPT !.state = 6, !.delay = RandomDelay]
           m == IF nsm[n].address < Last THEN next ELSE none
           next1 == [Ticked(n) EXCEPT !.state = 2]
           none1 == [Ticked(n) EXCEPT !.state = 6]
           after == Ticked(n).address + 1
<1>1. Ticked(n) \in Machine /\ Ticked(n).address = nsm[n].address
  BY TickedFacts DEF IInv
<1>2. none \in Machine /\ none.state = 6
  <2>1. none1 \in Machine /\ none1.state = 6
    BY <1>1 DEF Machine
  <2>2. none = [none1 EXCEPT !.delay = RandomDelay]
    BY <1>1 DEF Machine
  <2> HIDE DEF none, none1
  <2> QED
    BY <2>1, <2>2, DelayAssumption, SetDelay
<1>3. nsm[n].address < Last => after \in Address
  <2>1. nsm[n].address \in 0 .. Last
    BY DEF IInv, TypeOK, Machine, Address
  <2> QED
    BY <1>1, <2>1, AddressAssumption DEF Address
<1>4. nsm[n].address < Last => next \in Machine /\ next.state = 2
  <2>1. next1 \in Machine /\ next1.state = 2
    BY <1>1 DEF Machine
  <2>2. next = [next1 EXCEPT !.address = after]
    BY <1>1 DEF Machine
  <2> HIDE DEF next, next1, after
  <2> QED
    BY <1>3, <2>1, <2>2, SetAddress
<1>5. m \in Machine /\ m.state \in {2, 6}
  BY <1>2, <1>4
<1>6. Becomes(n, m) /\ saved' \in [Node -> Nat]
  BY DEF FetchNext, IInv, TypeOK
<1> HIDE DEF m
<1>7. GoodMove(n, m)
  BY <1>5 DEF GoodMove
<1> QED
  BY <1>6, <1>7, BecomesIInv


LEMMA OwnIInv ==
  ASSUME IInv, NEW n \in Node, Own(n)
  PROVE  IInv'
<1> DEFINE p == Processed(Ticked(n), name[n])
           m == IF p.lose THEN [p EXCEPT !.state = 4]
                ELSE IF p.win THEN [p EXCEPT !.state = 9]
                ELSE IF p.request THEN [p EXCEPT !.state = 9, !.request = FALSE]
                ELSE p
<1>1. Becomes(n, m) /\ saved' \in [Node -> Nat] /\ nsm[n].state = 5
  BY DEF Own, IInv, TypeOK
<1>2. /\ p \in Machine
      /\ p.state = 5
      /\ p.recv = NoName
      /\ p.address = nsm[n].address
      /\ nsm[n].recv # NoName => p.lose \/ p.win
  <2>1. /\ Ticked(n) \in Machine
        /\ Ticked(n).state = 5
        /\ Ticked(n).recv = nsm[n].recv
        /\ Ticked(n).address = nsm[n].address
    BY <1>1, TickedFacts DEF IInv
  <2>2. name[n] \in Nat
    BY NameFacts
  <2> QED
    BY <2>1, <2>2, ProcessedFacts
<1>3. /\ m \in Machine
      /\ m.recv = NoName
      /\ m.address = nsm[n].address
      /\ m.state \in {4, 5, 9}
      /\ m.lose = p.lose
      /\ p.lose => m.state = 4
      /\ m.state = 5 => ~p.lose /\ ~p.win
  <2> DEFINE to(s) == [p EXCEPT !.state = s]
             asked == [p EXCEPT !.state = 9, !.request = FALSE]
  <2> HIDE DEF p
  <2>1. \A s \in {4, 9} :
          /\ to(s) \in Machine /\ to(s).state = s
          /\ to(s).recv = p.recv /\ to(s).address = p.address /\ to(s).lose = p.lose
    BY <1>2 DEF Machine
  <2>2. /\ asked \in Machine /\ asked.state = 9
        /\ asked.recv = p.recv /\ asked.address = p.address /\ asked.lose = p.lose
    <3> DEFINE q == to(9)
    <3>1. asked = [q EXCEPT !.request = FALSE]
      BY <1>2 DEF Machine
    <3>2. /\ q \in Machine /\ q.state = 9
          /\ q.recv = p.recv /\ q.address = p.address /\ q.lose = p.lose
      BY <2>1
    <3> HIDE DEF asked, q
    <3> QED
      BY <3>1, <3>2, SetRequest
  <2>3. m = IF p.lose THEN to(4) ELSE IF p.win THEN to(9)
            ELSE IF p.request THEN asked ELSE p
    OBVIOUS
  <2> HIDE DEF m, to, asked
  <2> QED
    BY <1>2, <2>1, <2>2, <2>3
<1>4. GoodMove(n, m)
  <2> HIDE DEF p, m
  <2> QED
    BY <1>1, <1>2, <1>3 DEF GoodMove, Announced
<1> QED
  BY <1>1, <1>4, BecomesIInv

LEMMA TransmitCannotIInv ==
  ASSUME IInv, NEW n \in Node, TransmitCannot(n)
  PROVE  IInv'
<1> DEFINE m == [Ticked(n) EXCEPT !.state = 8]
<1>1. Ticked(n) \in Machine /\ Ticked(n).address = nsm[n].address
  BY TickedFacts DEF IInv
<1>2. m \in Machine /\ m.state = 8 /\ m.address = nsm[n].address
  BY <1>1 DEF Machine
<1>3. Transmits(n, m) /\ saved' \in [Node -> Nat]
  BY DEF TransmitCannot, IInv, TypeOK
<1> HIDE DEF m
<1>4. GoodSend(n, m)
  BY <1>2 DEF GoodSend
<1> QED
  BY <1>3, <1>4, TransmitsIInv

LEMMA WithoutIInv ==
  ASSUME IInv, NEW n \in Node, Without(n)
  PROVE  IInv'
<1> DEFINE asked == [Ticked(n) EXCEPT !.state = 6, !.delay = RandomDelay, !.request = FALSE]
           m == IF nsm[n].request THEN asked ELSE Ticked(n)
<1>1. Ticked(n) \in Machine /\ Ticked(n).state = 8
  BY TickedFacts DEF IInv, Without
<1>2. asked \in Machine /\ asked.state = 6
  <2> DEFINE m1 == [Ticked(n) EXCEPT !.state = 6]
             m2 == [m1 EXCEPT !.delay = RandomDelay]
  <2>1. m1 \in Machine /\ m1.state = 6
    BY <1>1 DEF Machine
  <2>2. asked = [m2 EXCEPT !.request = FALSE]
    BY <1>1 DEF Machine
  <2> HIDE DEF m1
  <2>3. m2 \in Machine /\ m2.state = 6
    BY <2>1, DelayAssumption, SetDelay
  <2> HIDE DEF m2, asked
  <2> QED
    BY <2>2, <2>3, SetRequest
<1>3. m \in Machine /\ m.state \in {6, 8}
  BY <1>1, <1>2
<1>4. Becomes(n, m) /\ saved' \in [Node -> Nat]
  BY DEF Without, IInv, TypeOK
<1> HIDE DEF m
<1>5. GoodMove(n, m)
  BY <1>3 DEF GoodMove
<1> QED
  BY <1>4, <1>5, BecomesIInv

LEMMA ReclaimIInv ==
  ASSUME IInv, NEW n \in Node, Reclaim(n)
  PROVE  IInv'
<1> DEFINE m == [Ticked(n) EXCEPT !.state = 5]
<1>1. /\ Ticked(n) \in Machine
      /\ Ticked(n).address = nsm[n].address
      /\ Ticked(n).lose = nsm[n].lose
      /\ Ticked(n).recv = nsm[n].recv
  BY TickedFacts DEF IInv
<1>2. /\ m \in Machine /\ m.state = 5 /\ m.address = nsm[n].address
      /\ m.lose = nsm[n].lose /\ m.recv = nsm[n].recv
  BY <1>1 DEF Machine
<1>3. Transmits(n, m) /\ nsm[n].state = 9
  BY DEF Reclaim
<1>4. saved' \in [Node -> Nat]
  BY SavedType DEF Reclaim, IInv
<1> HIDE DEF m
<1>5. GoodSend(n, m)
  BY <1>2, <1>3 DEF GoodSend, IInv, HeardForOwn, Owner
<1> QED
  BY <1>3, <1>4, <1>5, TransmitsIInv

LEMMA RecvClaimIInv ==
  ASSUME IInv, NEW n \in Node, RecvClaim(n)
  PROVE  IInv'
<1> DEFINE f == Head(inbox[n])
<1>1. /\ inbox[n] \in Seq(Claim) /\ inbox[n] # <<>>
      /\ inbox' = [inbox EXCEPT ![n] = Tail(@)]
      /\ saved' = saved
  BY DEF RecvClaim, IInv, TypeOK
<1>2. f \in Claim /\ f.src \in Address /\ f.name \in {name[o] : o \in Node}
      /\ f.name # NoName
  <2>1. f \in Claim
    BY <1>1
  <2> HIDE DEF f
  <2>2. f.src \in Address /\ f.name \in {name[o] : o \in Node}
    BY <2>1 DEF Claim
  <2> QED
    BY <2>1, <2>2, NameFacts
<1>3. /\ inbox' \in [Node -> Seq(Claim)]
      /\ Len(inbox'[n]) = Len(inbox[n]) - 1
      /\ \A o \in Node \ {n} : inbox'[o] = inbox[o]
      /\ \A i \in 2 .. Len(inbox[n]) : inbox'[n][i - 1] = inbox[n][i]
      /\ f = inbox[n][1]
      /\ Len(inbox[n]) \in Nat
  BY <1>1 DEF IInv, TypeOK
<1>4. \A o \in Node : Len(inbox'[o]) <= InboxMax
  <2>1. \A o \in Node : Len(inbox[o]) <= InboxMax
    BY DEF IInv, TypeOK
  <2>2. Len(inbox'[n]) <= InboxMax
    BY <1>3, <2>1, DelayAssumption
  <2> QED
    BY <1>3, <2>1, <2>2
<1>5. /\ nsm' \in [Node -> Machine]
      /\ \A o \in Node : /\ nsm'[o].state = nsm[o].state
                         /\ nsm'[o].address = nsm[o].address
                         /\ nsm'[o].lose = nsm[o].lose
                         /\ nsm'[o].delay = nsm[o].delay
      /\ \A o \in Node \ {n} : nsm'[o] = nsm[o] /\ quiet'[o] = quiet[o] /\ heard'[o] = heard[o]
      /\ quiet' \in [Node -> 0 .. ClaimDelay]
      /\ heard' \in [Node -> Address]
  <2>1. CASE f.src = nsm[n].address
    <3>1. nsm' = [nsm EXCEPT ![n].recv = f.name] /\ quiet' = [quiet EXCEPT ![n] = 0]
          /\ heard' = [heard EXCEPT ![n] = f.src]
      BY <2>1 DEF RecvClaim
    <3>2. nsm \in [Node -> Machine] /\ nsm[n] \in Machine
      BY DEF IInv, TypeOK
    <3> HIDE DEF f
    <3>3. PICK k : k = [nsm[n] EXCEPT !.recv = f.name]
      OBVIOUS
    <3>4. /\ k \in Machine /\ k.state = nsm[n].state /\ k.address = nsm[n].address
          /\ k.lose = nsm[n].lose /\ k.delay = nsm[n].delay
      BY <1>2, <3>2, <3>3 DEF Machine
    <3>5. nsm' = [nsm EXCEPT ![n] = k]
      BY <3>1, <3>3
    <3>6. nsm' \in [Node -> Machine] /\ nsm'[n] = k
          /\ \A o \in Node \ {n} : nsm'[o] = nsm[o]
      BY <3>2, <3>4, <3>5
    <3>7. /\ quiet' \in [Node -> 0 .. ClaimDelay] /\ heard' \in [Node -> Address]
          /\ \A o \in Node \ {n} : quiet'[o] = quiet[o] /\ heard'[o] = heard[o]
      BY <1>2, <3>1, DelayAssumption DEF IInv, TypeOK
    <3> QED
      BY <3>4, <3>6, <3>7
  <2>2. CASE f.src # nsm[n].address
    BY <2>2 DEF RecvClaim, IInv, TypeOK
  <2> QED
    BY <2>1, <2>2
<1>6. /\ f.src = nsm[n].address => nsm'[n].recv # NoName /\ heard'[n] = nsm[n].address
      /\ f.src # nsm[n].address =>
           nsm'[n] = nsm[n] /\ quiet'[n] = quiet[n] /\ heard'[n] = heard[n]
  <2>1. CASE f.src = nsm[n].address
    BY <1>2, <2>1 DEF RecvClaim, IInv, TypeOK, Machine
  <2>2. CASE f.src # nsm[n].address
    BY <2>2 DEF RecvClaim
  <2> QED
    BY <2>1, <2>2
<1>7. TypeOK'
  BY <1>1, <1>3, <1>4, <1>5 DEF IInv, TypeOK
<1> HIDE DEF f
<1>8. HeardForOwn'
  BY <1>5, <1>6 DEF IInv, HeardForOwn, Owner
<1>9. QuietCount'
  BY <1>5, <1>6 DEF IInv, QuietCount
<1>10. \A o \in Node : Alarmed(o) => Alarmed(o)'
  <2>1. \A o \in Node \ {n} : Alarmed(o) => Alarmed(o)'
    BY <1>3, <1>5 DEF Alarmed
  <2>2. Alarmed(n) => Alarmed(n)'
    <3>1. CASE f.src = nsm[n].address
      BY <1>6, <3>1 DEF Alarmed
    <3>2. CASE f.src # nsm[n].address /\ (nsm[n].state = 9 \/ nsm[n].recv # NoName)
      BY <1>6, <3>2 DEF Alarmed
    <3>3. CASE /\ f.src # nsm[n].address
               /\ \E i \in 1 .. Len(inbox[n]) : inbox[n][i].src = nsm[n].address
      <4>1. PICK i \in 1 .. Len(inbox[n]) : inbox[n][i].src = nsm[n].address
        BY <3>3
      <4>2. i # 1
        BY <1>3, <3>3, <4>1
      <4>3. i \in 2 .. Len(inbox[n]) /\ i - 1 \in 1 .. Len(inbox'[n])
        BY <1>3, <4>1, <4>2
      <4>4. inbox'[n][i - 1].src = nsm'[n].address
        BY <1>3, <1>6, <3>3, <4>1, <4>3
      <4> QED
        BY <4>3, <4>4 DEF Alarmed
    <3> QED
      BY <3>1, <3>2, <3>3 DEF Alarmed
  <2> QED
    BY <2>1, <2>2
<1>11. Noticed'
  BY <1>5, <1>10 DEF IInv, Noticed, Announced
<1> QED
  BY <1>7, <1>8, <1>9, <1>11 DEF IInv

LEMMA RecvRequestIInv ==
  ASSUME IInv, NEW n \in Node, RecvRequest(n)
  PROVE  IInv'
<1>1. nsm' = [nsm EXCEPT ![n].request = TRUE]
      /\ saved' = saved /\ inbox' = inbox /\ quiet' = quiet /\ heard' = heard
  BY DEF RecvRequest
<1>2. nsm' \in [Node -> Machine]
      /\ \A o \in Node : /\ nsm'[o].state = nsm[o].state
                         /\ nsm'[o].address = nsm[o].address
                         /\ nsm'[o].lose = nsm[o].lose
                         /\ nsm'[o].recv = nsm[o].recv
                         /\ nsm'[o].delay = nsm[o].delay
  BY <1>1 DEF IInv, TypeOK, Machine
<1>3. TypeOK'
  BY <1>1, <1>2 DEF IInv, TypeOK
<1>4. HeardForOwn' /\ QuietCount'
  BY <1>1, <1>2 DEF IInv, HeardForOwn, QuietCount, Owner
<1>5. Noticed'
  BY <1>1, <1>2 DEF IInv, Noticed, Announced, Alarmed
<1> QED
  BY <1>3, <1>4, <1>5 DEF IInv

\* What is left of an inbox when the first of its frames are missed.
LEMMA InboxTail ==
  ASSUME NEW box \in Seq(Claim), Len(box) <= InboxMax, NEW missed \in 0 .. Len(box)
  PROVE  /\ SubSeq(box, missed + 1, Len(box)) \in Seq(Claim)
         /\ Len(SubSeq(box, missed + 1, Len(box))) <= InboxMax
<1>1. InboxMax \in Nat /\ Len(box) \in Nat
  BY DelayAssumption
<1>2. \A i \in missed + 1 .. Len(box) : box[i] \in Claim
  BY <1>1
<1>3. /\ SubSeq(box, missed + 1, Len(box)) \in Seq(Claim)
      /\ Len(SubSeq(box, missed + 1, Len(box)))
           = IF missed + 1 <= Len(box) THEN Len(box) - (missed + 1) + 1 ELSE 0
  BY <1>1, <1>2, SubSeqProperties
<1> QED
  BY <1>1, <1>3

\* Both restarts: the machine of n starts anew, and frames of its inbox are dropped.
LEMMA RestartIInv ==
  ASSUME IInv, NEW n \in Node, ModuleRestart(n) \/ Reboot(n)
  PROVE  IInv'
<1>1. PICK m \in Machine : m.state = 0 /\ nsm' = [nsm EXCEPT ![n] = m]
  <2>1. nsm[n] \in Machine /\ saved[n] \in Nat
    BY DEF IInv, TypeOK
  <2> QED
    BY <2>1, InitialisedFacts, ZeroStaticsType DEF ModuleRestart, Reboot
<1>2. saved' = saved /\ quiet' = quiet /\ heard' = heard
      /\ \A o \in Node \ {n} : inbox'[o] = inbox[o]
  BY DEF ModuleRestart, Reboot, IInv, TypeOK
<1>3. inbox' \in [Node -> Seq(Claim)] /\ \A o \in Node : Len(inbox'[o]) <= InboxMax
  <2>1. PICK box \in Seq(Claim) : inbox' = [inbox EXCEPT ![n] = box] /\ Len(box) <= InboxMax
    <3>1. inbox[n] \in Seq(Claim) /\ Len(inbox[n]) \in Nat /\ Len(inbox[n]) <= InboxMax
      BY DEF IInv, TypeOK
    <3>2. CASE ModuleRestart(n)
      <4>1. PICK missed \in 0 .. Len(inbox[n]) :
              inbox' = [inbox EXCEPT ![n] = SubSeq(@, missed + 1, Len(@))]
        BY <3>2 DEF ModuleRestart
      <4>2. /\ SubSeq(inbox[n], missed + 1, Len(inbox[n])) \in Seq(Claim)
            /\ Len(SubSeq(inbox[n], missed + 1, Len(inbox[n]))) <= InboxMax
        BY <3>1, <4>1, InboxTail
      <4> QED
        BY <4>1, <4>2
    <3>3. CASE Reboot(n)
      <4>1. <<>> \in Seq(Claim) /\ Len(<<>>) <= InboxMax
        BY DelayAssumption
      <4> QED
        BY <3>3, <4>1 DEF Reboot
    <3> QED
      BY <3>2, <3>3
  <2> QED
    BY <2>1 DEF IInv, TypeOK
<1>4. nsm'[n] = m /\ \A o \in Node \ {n} : nsm'[o] = nsm[o]
  BY <1>1 DEF IInv, TypeOK
<1>5. TypeOK'
  BY <1>1, <1>2, <1>3 DEF IInv, TypeOK
<1>6. HeardForOwn' /\ QuietCount'
  BY <1>1, <1>2, <1>4 DEF IInv, HeardForOwn, QuietCount, Owner
<1>7. ~Announced(n)' /\ \A o \in Node \ {n} :
        (Announced(o)' <=> Announced(o)) /\ nsm'[o].address = nsm[o].address
          /\ (Alarmed(o)' <=> Alarmed(o))
  BY <1>1, <1>2, <1>4 DEF Announced, Alarmed
<1>8. Noticed'
  BY <1>7 DEF IInv, Noticed
<1> QED
  BY <1>5, <1>6, <1>8 DEF IInv

LEMMA NextIInv ==
  ASSUME IInv, [Next]_vars
  PROVE  IInv'
<1>1. ASSUME NEW n \in Node, NsmPoll(n) PROVE IInv'
  BY <1>1, IdleIInv, WaitDelayIInv, TransmitClaimIInv, ContendIInv, FetchNextIInv,
     OwnIInv, TransmitCannotIInv, WithoutIInv, ReclaimIInv DEF NsmPoll
<1>2. CASE UNCHANGED vars
  BY <1>2 DEF vars, IInv, TypeOK, HeardForOwn, QuietCount, Noticed, Owner, Announced,
              Alarmed
<1> QED
  BY <1>1, <1>2, RecvClaimIInv, RecvRequestIInv, RestartIInv DEF Next

THEOREM Invariant == Spec => []IInv
  BY InitIInv, NextIInv, PTL DEF Spec

\* Every variable keeps its type, for any nodes, names, addresses and delays.
THEOREM TypeCorrect == Spec => []TypeOK
<1>1. IInv => TypeOK
  BY DEF IInv
<1> QED
  BY <1>1, Invariant, PTL

\* However many nodes there are and however their claims cross: two owners of the same
\* address never rest unaware of each other.
THEOREM NoSilentConflict == Spec => []ConflictIsNoticed
<1>1. IInv => ConflictIsNoticed
  BY DEF IInv, Noticed, ConflictIsNoticed, Announced, Owner
<1> QED
  BY <1>1, Invariant, PTL

(***************************************************************************)
(* The two action properties.                                              *)
(***************************************************************************)

\* A step of one node leaves the machines of the others alone.
LEMMA OthersStay ==
  ASSUME IInv, NEW k \in Node,
         NsmPoll(k) \/ RecvClaim(k) \/ RecvRequest(k) \/ ModuleRestart(k) \/ Reboot(k)
  PROVE  \A n \in Node \ {k} : nsm'[n] = nsm[n]
<1>1. CASE NsmPoll(k)
  <2>1. PICK m : nsm' = [nsm EXCEPT ![k] = m]
    BY <1>1 DEF NsmPoll, Idle, WaitDelay, TransmitClaim, Contend, FetchNext, Own,
                TransmitCannot, Without, Reclaim, Becomes, Transmits
  <2> QED
    BY <2>1 DEF IInv, TypeOK
<1>2. CASE RecvClaim(k)
  BY <1>2 DEF RecvClaim, IInv, TypeOK
<1>3. CASE RecvRequest(k) \/ ModuleRestart(k) \/ Reboot(k)
  BY <1>3 DEF RecvRequest, ModuleRestart, Reboot, IInv, TypeOK
<1> QED
  BY <1>1, <1>2, <1>3

\* What is not a poll keeps the state of the machine, or starts it anew.
LEMMA StateElsewhere ==
  ASSUME IInv, NEW n \in Node,
         RecvClaim(n) \/ RecvRequest(n) \/ ModuleRestart(n) \/ Reboot(n)
  PROVE  nsm'[n].state \in {nsm[n].state, 0}
<1>1. nsm[n] \in Machine /\ saved[n] \in Nat /\ nsm \in [Node -> Machine]
  BY DEF IInv, TypeOK
<1>2. CASE RecvClaim(n)
  <2>1. CASE UNCHANGED nsm
    BY <2>1
  <2>2. CASE nsm' = [nsm EXCEPT ![n].recv = Head(inbox[n]).name]
    BY <1>1, <2>2 DEF Machine
  <2> QED
    BY <1>2, <2>1, <2>2 DEF RecvClaim
<1>3. CASE RecvRequest(n)
  BY <1>1, <1>3 DEF RecvRequest, Machine
<1>4. CASE ModuleRestart(n) \/ Reboot(n)
  BY <1>1, <1>4, InitialisedFacts, ZeroStaticsType DEF ModuleRestart, Reboot
<1> QED
  BY <1>2, <1>3, <1>4

\* The state of the machine after each action of nsm_poll().
LEMMA PollState ==
  ASSUME IInv, NEW n \in Node, NsmPoll(n)
  PROVE  /\ nsm[n].state = 5 /\ nsm'[n].state = 4 => Own(n)
         /\ nsm[n].state # 5 /\ nsm'[n].state = 5 => Contend(n) \/ Reclaim(n)
<1>1. nsm[n] \in Machine /\ nsm \in [Node -> Machine]
  BY DEF IInv, TypeOK
<1>2. Ticked(n) \in Machine /\ Ticked(n).state = nsm[n].state
  BY TickedFacts DEF IInv
<1>3. CASE Idle(n)
  BY <1>1, <1>3 DEF Idle, Becomes, Machine
<1>4. CASE WaitDelay(n)
  <2>1. nsm'[n].state = IF Ticked(n).delay = 0 THEN Ticked(n).state + 1 ELSE Ticked(n).state
    BY <1>1, <1>2, <1>4 DEF WaitDelay, Becomes, Machine
  <2>2. nsm[n].state \in {1, 6}
    BY <1>4 DEF WaitDelay
  <2> QED
    BY <1>2, <2>1, <2>2
<1>5. CASE TransmitClaim(n)
  BY <1>1, <1>5 DEF TransmitClaim, Transmits, Machine
<1>6. CASE FetchNext(n)
  BY <1>1, <1>2, <1>6 DEF FetchNext, Becomes, Machine
<1>7. CASE TransmitCannot(n)
  BY <1>1, <1>2, <1>7 DEF TransmitCannot, Transmits, Machine
<1>8. CASE Without(n)
  BY <1>1, <1>2, <1>8 DEF Without, Becomes, Machine
<1>9. CASE Contend(n)
  BY <1>9 DEF Contend
<1>10. CASE Reclaim(n)
  BY <1>10 DEF Reclaim
<1>11. CASE Own(n)
  BY <1>11 DEF Own
<1> QED
  BY <1>3, <1>4, <1>5, <1>6, <1>7, <1>8, <1>9, <1>10, <1>11 DEF NsmPoll

LEMMA OwnYields ==
  ASSUME IInv, NEW n \in Node, Own(n), nsm'[n].state = 4
  PROVE  nsm[n].recv \in 1 .. name[n] - 1 /\ heard[n] = nsm[n].address
<1> DEFINE p == Processed(Ticked(n), name[n])
<1>1. /\ Ticked(n) \in Machine
      /\ Ticked(n).state = 5
      /\ Ticked(n).recv = nsm[n].recv
      /\ Ticked(n).lose = nsm[n].lose
      /\ name[n] \in Nat
      /\ nsm \in [Node -> Machine] /\ nsm[n].state = 5
  BY TickedFacts, NameFacts DEF Own, IInv, TypeOK
<1>2. p \in Machine /\ p.state = 5
      /\ (p.lose => nsm[n].recv # NoName /\ (nsm[n].recv < name[n] \/ nsm[n].lose))
  BY <1>1, ProcessedFacts
<1>3. p.lose
  <2> SUFFICES ASSUME ~p.lose PROVE FALSE
    OBVIOUS
  <2>1. nsm'[n] = IF p.win THEN [p EXCEPT !.state = 9]
                  ELSE IF p.request THEN [p EXCEPT !.state = 9, !.request = FALSE]
                  ELSE p
    BY <1>1 DEF Own, Becomes
  <2> HIDE DEF p
  <2> QED
    BY <1>2, <2>1 DEF Machine
<1>4. ~nsm[n].lose /\ (nsm[n].recv # NoName => heard[n] = nsm[n].address)
  BY <1>1 DEF IInv, HeardForOwn, Owner
<1>5. nsm[n].recv # NoName => nsm[n].recv \in Nat \ {0}
  <2>1. nsm[n].recv \in {NoName} \cup {name[o] : o \in Node}
    BY <1>1 DEF Machine
  <2> QED
    BY <2>1, NameFacts DEF NoName
<1> QED
  BY <1>1, <1>2, <1>3, <1>4, <1>5

LEMMA ContendTakes ==
  ASSUME IInv, NEW n \in Node, Contend(n), nsm'[n].state = 5
  PROVE  quiet'[n] = ClaimDelay /\ nsm[n].recv = NoName
<1> DEFINE p == Processed(Ticked(n), name[n])
<1>1. /\ Ticked(n) \in Machine
      /\ Ticked(n).recv = nsm[n].recv
      /\ Ticked(n).delay = IF nsm[n].delay > 0 THEN nsm[n].delay - 1 ELSE 0
      /\ name[n] \in Nat
      /\ nsm \in [Node -> Machine] /\ nsm[n].state = 3
  BY TickedFacts, NameFacts DEF Contend, IInv, TypeOK
<1>2. /\ p \in Machine
      /\ p.delay = Ticked(n).delay
      /\ nsm[n].recv # NoName => p.lose \/ p.win
  BY <1>1, ProcessedFacts
<1>3. ~p.lose /\ ~p.win /\ p.delay = 0
  <2>1. nsm'[n] = [p EXCEPT !.state = IF p.lose THEN 4 ELSE IF p.win THEN 2
                                      ELSE IF p.delay = 0 THEN 5 ELSE 3]
    BY <1>1 DEF Contend, Becomes
  <2> HIDE DEF p
  <2> QED
    BY <1>2, <2>1 DEF Machine
<1>4. nsm[n].recv = NoName
  BY <1>2, <1>3
<1>5. quiet[n] + nsm[n].delay >= ClaimDelay
  BY <1>1, <1>4 DEF IInv, QuietCount
<1>6. /\ quiet[n] \in 0 .. ClaimDelay /\ nsm[n].delay \in Nat
      /\ quiet'[n] = IF quiet[n] < ClaimDelay THEN quiet[n] + 1 ELSE quiet[n]
  BY DEF Contend, Becomes, IInv, TypeOK, Machine
<1>7. nsm[n].delay <= 1
  BY <1>1, <1>2, <1>3, <1>6
<1> QED
  BY <1>4, <1>5, <1>6, <1>7, DelayAssumption

\* What a node does to itself: both properties, for one step.
LEMMA StepProperties ==
  ASSUME IInv, Next, NEW n \in Node
  PROVE  /\ (nsm[n].state = 5 /\ nsm'[n].state = 4)
              => nsm[n].recv \in 1 .. name[n] - 1 /\ heard[n] = nsm[n].address
         /\ (nsm[n].state # 5 /\ nsm'[n].state = 5)
              => nsm[n].state = 9 \/ (quiet'[n] = ClaimDelay /\ nsm[n].recv = NoName)
<1>1. PICK k \in Node :
        NsmPoll(k) \/ RecvClaim(k) \/ RecvRequest(k) \/ ModuleRestart(k) \/ Reboot(k)
  BY DEF Next
<1>2. CASE k # n
  BY <1>1, <1>2, OthersStay
<1>3. CASE k = n /\ NsmPoll(n)
  BY <1>3, PollState, OwnYields, ContendTakes DEF Reclaim
<1>4. CASE k = n /\ ~NsmPoll(n)
  <2>1. nsm'[n].state \in {nsm[n].state, 0}
    BY <1>1, <1>4, StateElsewhere
  <2> QED
    BY <2>1
<1> QED
  BY <1>2, <1>3, <1>4

\* An owner gives its address up only to a lower NAME that claimed this very address,
\* whatever it heard under the addresses it had before.
THEOREM OwnerYields == Spec => OwnerYieldsToLower
<1>1. IInv /\ [Next]_vars =>
        [\A n \in Node :
           (nsm[n].state = 5 /\ nsm'[n].state = 4)
              => nsm[n].recv \in 1 .. name[n] - 1 /\ heard[n] = nsm[n].address]_vars
  BY StepProperties
<1> QED
  BY <1>1, Invariant, PTL DEF Spec, OwnerYieldsToLower

\* An address is taken only after ClaimDelay ticks in which nobody was heard to claim it.
THEOREM TakenUnchallenged == Spec => ClaimedUnchallenged
<1>1. IInv /\ [Next]_vars =>
        [\A n \in Node :
           (nsm[n].state # 5 /\ nsm'[n].state = 5)
              => nsm[n].state = 9 \/ (quiet'[n] = ClaimDelay /\ nsm[n].recv = NoName)]_vars
  BY StepProperties
<1> QED
  BY <1>1, Invariant, PTL DEF Spec, ClaimedUnchallenged

=============================================================================
