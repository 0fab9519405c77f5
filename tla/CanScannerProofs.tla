-------------------------- MODULE CanScannerProofs --------------------------
(***************************************************************************)
(* Proofs about CanScanner, for any number of nodes, channels and objects: *)
(* type correctness, that a battery marked busy and a scan under way       *)
(* always have a callback to come, that a battery is made available only   *)
(* after the data of its objects came unless an older request was left     *)
(* over, and that a scan comes nearer its end.                             *)
(***************************************************************************)
EXTENDS CanScanner, FiniteSetTheorems, WellFoundedInduction, TLAPS

\* A non-empty set of channels has a least one.  Channel ids are natural numbers,
\* and the intervals 0 .. c are well founded by inclusion.
LEMMA FirstIsLeast ==
  ASSUME NEW S \in SUBSET Nat, S # {}
  PROVE  First(S) \in S /\ \A d \in S : First(S) <= d
<1> DEFINE Down(d) == 0 .. d
           T == {Down(d) : d \in S}
<1>1. T \subseteq FiniteSubsetsOf(Nat) /\ T # {}
  <2>1. ASSUME NEW d \in S PROVE Down(d) \in FiniteSubsetsOf(Nat)
    <3>1. IsFiniteSet(0 .. d)
      BY FS_Interval
    <3>2. 0 .. d \in SUBSET Nat
      OBVIOUS
    <3> QED BY <3>1, <3>2 DEF FiniteSubsetsOf
  <2> QED BY <2>1
<1>2. PICK t \in T : \A u \in T : ~ (<<u, t>> \in StrictSubsetOrdering(Nat))
  <2> HIDE DEF T
  <2> QED BY <1>1, WFMin, FS_StrictSubsetOrderingWellFounded, Zenon
<1>3. PICK m \in S : t = Down(m)
  OBVIOUS
<1>4. ASSUME NEW d \in S PROVE m <= d
  <2>1. SUFFICES ASSUME d < m PROVE FALSE
    OBVIOUS
  <2>2. Down(d) \subseteq Down(m) /\ Down(d) # Down(m)
    <3>1. m \in 0 .. m /\ m \notin 0 .. d
      BY <2>1
    <3> QED BY <2>1, <3>1
  <2>3. <<Down(d), Down(m)>> \in StrictSubsetOrdering(Nat)
    BY <2>2 DEF StrictSubsetOrdering
  <2> QED BY <1>2, <1>3, <2>3
<1> QED BY <1>4 DEF First

(***************************************************************************)
(* The inductive invariant.  The two properties of the callbacks to come   *)
(* are inductive but for what they take for granted of the range of the    *)
(* scan and of the channels; that AVAILABLE is earned needs the one        *)
(* request of a battery under test to be for the object before the next.   *)
(***************************************************************************)
ChannelsKnown == \A c \in Channel : chan[c].obj # Idle => chan[c].node \in Node

ScanRange ==
  mode = "scan" =>
    /\ scan.first \in Node
    /\ scan.last \in Node
    /\ scan.node \in Node \cup {NodeMax + 1}

\* Of a battery that was alone when it was found, the data of every object asked for
\* have come, but for the last one while the battery is busy: that one has the only
\* request there is.
RoundOf(n) ==
  (state[n] = "testing" /\ alone[n]) =>
    /\ 0 .. item[n] - 2 \subseteq got[n]
    /\ ~busy[n] => Requests(n) = {} /\ 0 .. item[n] - 1 \subseteq got[n]
    /\ busy[n] => item[n] # 0
    /\ \A c \in Requests(n) : chan[c].obj = item[n] - 1
    /\ \A c, d \in Requests(n) : c = d

RoundAnswered == \A n \in Node : RoundOf(n)

IInv ==
  /\ TypeOK
  /\ BusyIsOutstanding
  /\ ScanWaitsForAnswers
  /\ ChannelsKnown
  /\ ScanRange
  /\ RoundAnswered

LEMMA InitIInv == Init => IInv
  BY NodeAssumption, BoundAssumption
  DEF Init, Started, Fresh, IInv, TypeOK, BusyIsOutstanding, ScanWaitsForAnswers,
      ChannelsKnown, ScanRange, RoundAnswered, RoundOf, Requests, Node, Channel, States,
      Objects, Idle

\* A channel chosen among the ready ones is ready.
LEMMA FirstReady ==
  ASSUME Ready # {}
  PROVE  First(Ready) \in Channel /\ chan[First(Ready)].obj = Idle
<1>1. Ready \in SUBSET Nat
  BY BoundAssumption DEF Ready, Channel
<1> QED BY <1>1, FirstIsLeast DEF Ready

\* A request sent is outstanding, and so are the ones before it.
LEMMA SdoReadEffect ==
  ASSUME IInv, NEW n \in Node, NEW o \in Objects, SdoRead(n, o)
  PROVE  /\ chan' \in [Channel -> [node : Node \cup {0}, obj : Objects \cup {Idle}]]
         /\ asked' \subseteq Node \X Objects
         /\ ChannelsKnown'
         /\ Outstanding(n)'
         /\ \A m \in Node : Outstanding(m) => Outstanding(m)'
<1> DEFINE r == First(Ready)
<1>1. r \in Channel /\ chan[r].obj = Idle
  BY FirstReady DEF SdoRead
<1>2. chan' = [chan EXCEPT ![r] = [node |-> n, obj |-> o]]
  BY DEF SdoRead
<1>3. chan \in [Channel -> [node : Node \cup {0}, obj : Objects \cup {Idle}]]
  BY DEF IInv, TypeOK
<1>4. o # Idle
  BY BoundAssumption DEF Objects, Idle
<1> HIDE DEF r
<1>5. chan' \in [Channel -> [node : Node \cup {0}, obj : Objects \cup {Idle}]]
  BY <1>1, <1>2, <1>3
<1>6. asked' \subseteq Node \X Objects
  BY DEF SdoRead, IInv, TypeOK
<1>7. ChannelsKnown'
  BY <1>1, <1>2, <1>3 DEF IInv, ChannelsKnown
<1>8. Outstanding(n)'
  BY <1>1, <1>2, <1>3, <1>4 DEF Outstanding, Requests
<1>9. ASSUME NEW m \in Node, Outstanding(m) PROVE Outstanding(m)'
  <2>1. PICK c \in Channel : chan[c].node = m /\ chan[c].obj # Idle
    BY <1>9 DEF Outstanding, Requests
  <2>2. c # r /\ chan'[c] = chan[c]
    BY <1>1, <1>2, <1>3, <2>1
  <2> QED BY <2>1, <2>2 DEF Outstanding, Requests
<1> QED BY <1>5, <1>6, <1>7, <1>8, <1>9

\* What is outstanding to node m stays as it is.
Kept(m) == Requests(m)' = Requests(m) /\ \A c \in Requests(m) : chan'[c] = chan[c]

LEMMA KeptOutstanding ==
  ASSUME NEW m \in Node, Kept(m), Outstanding(m)
  PROVE  Outstanding(m)'
  BY DEF Kept, Outstanding

\* A request sent is one more of its node, and no other node has a part in it.
LEMMA SdoReadRequests ==
  ASSUME IInv, NEW n \in Node, NEW o \in Objects, SdoRead(n, o)
  PROVE  /\ \A m \in Node : m # n => Kept(m)
         /\ Requests(n)' = Requests(n) \cup {First(Ready)}
         /\ chan'[First(Ready)].obj = o
<1> DEFINE r == First(Ready)
<1>1. r \in Channel /\ chan[r].obj = Idle
  BY FirstReady DEF SdoRead
<1>2. chan' = [chan EXCEPT ![r] = [node |-> n, obj |-> o]]
  BY DEF SdoRead
<1>3. chan \in [Channel -> [node : Node \cup {0}, obj : Objects \cup {Idle}]]
  BY DEF IInv, TypeOK
<1>4. o # Idle
  BY BoundAssumption DEF Objects, Idle
<1> HIDE DEF r
<1>5. chan'[r].node = n /\ chan'[r].obj = o /\ \A c \in Channel : c # r => chan'[c] = chan[c]
  BY <1>1, <1>2, <1>3
<1>6. ASSUME NEW m \in Node, m # n PROVE Kept(m)
  <2>1. \A c \in Channel : c \in Requests(m)' <=> c \in Requests(m)
    BY <1>1, <1>4, <1>5, <1>6 DEF Requests
  <2>2. Requests(m)' = Requests(m)
    BY <2>1 DEF Requests
  <2>3. \A c \in Requests(m) : chan'[c] = chan[c]
    BY <1>1, <1>5 DEF Requests
  <2> QED BY <2>2, <2>3 DEF Kept
<1>7. Requests(n)' = Requests(n) \cup {r}
  <2>1. \A c \in Channel : c \in Requests(n)' <=> c \in Requests(n) \/ c = r
    BY <1>1, <1>4, <1>5 DEF Requests
  <2> QED BY <1>1, <2>1 DEF Requests
<1> QED BY <1>5, <1>6, <1>7 DEF r

\* A request that is not sent leaves the outstanding ones alone, though it may have
\* taken a ready channel from another node.
LEMMA SdoReadFailsEffect ==
  ASSUME IInv, NEW n \in Node, SdoReadFails(n)
  PROVE  /\ chan' \in [Channel -> [node : Node \cup {0}, obj : Objects \cup {Idle}]]
         /\ asked' = asked
         /\ ChannelsKnown'
         /\ \A m \in Node : Kept(m)
<1>0. asked' = asked
  BY DEF SdoReadFails
<1>1. CASE chan' = chan
  BY <1>0, <1>1 DEF IInv, TypeOK, ChannelsKnown, Kept, Requests
<1>2. CASE Ready # {} /\ chan' = [chan EXCEPT ![First(Ready)] = [node |-> n, obj |-> Idle]]
  <2> DEFINE r == First(Ready)
  <2>1. r \in Channel /\ chan[r].obj = Idle
    BY <1>2, FirstReady
  <2>2. chan' = [chan EXCEPT ![r] = [node |-> n, obj |-> Idle]]
    BY <1>2
  <2>3. chan \in [Channel -> [node : Node \cup {0}, obj : Objects \cup {Idle}]]
    BY DEF IInv, TypeOK
  <2> HIDE DEF r
  <2>4. chan' \in [Channel -> [node : Node \cup {0}, obj : Objects \cup {Idle}]]
    BY <2>1, <2>2, <2>3
  <2>5. ChannelsKnown'
    BY <2>1, <2>2, <2>3 DEF IInv, ChannelsKnown
  <2>6. ASSUME NEW m \in Node PROVE Kept(m)
    <3>1. chan'[r].obj = Idle /\ \A c \in Channel : c # r => chan'[c] = chan[c]
      BY <2>1, <2>2, <2>3
    <3>2. \A c \in Channel : c \in Requests(m)' <=> c \in Requests(m)
      BY <2>1, <3>1 DEF Requests
    <3>3. Requests(m)' = Requests(m)
      BY <3>2 DEF Requests
    <3>4. \A c \in Requests(m) : chan'[c] = chan[c]
      BY <2>1, <3>1 DEF Requests
    <3> QED BY <3>3, <3>4 DEF Kept
  <2> QED BY <1>0, <2>4, <2>5, <2>6
<1> QED BY <1>1, <1>2 DEF SdoReadFails

\* A battery that nothing happens to goes on with its round.
LEMMA RoundKept ==
  ASSUME IInv, NEW m \in Node, Kept(m),
         state'[m] = "testing" =>
           UNCHANGED <<state[m], busy[m], item[m], got[m], alone[m]>>
  PROVE  RoundOf(m)'
<1> SUFFICES ASSUME state'[m] = "testing", alone'[m]
             PROVE  RoundOf(m)'
  BY DEF RoundOf
<1>1. UNCHANGED <<state[m], busy[m], item[m], got[m], alone[m]>>
  OBVIOUS
<1>2. RoundOf(m) /\ state[m] = "testing" /\ alone[m]
  BY <1>1 DEF IInv, RoundAnswered
<1>3. \A c \in Requests(m) : chan'[c].obj = item[m] - 1
  BY <1>2 DEF RoundOf, Kept
<1> QED BY <1>1, <1>2, <1>3 DEF RoundOf, Kept

\* A callback ends one request of its battery, clears busy, gives a scanned node its
\* verdict, and adds to the data it gave; the other batteries notice nothing.
LEMMA CallbackKeepsIInv ==
  ASSUME IInv, NEW c \in Channel, chan[c].obj # Idle, NEW data \in BOOLEAN,
         OnBattRead(c, data), Free(c),
         asked' \subseteq asked, UNCHANGED <<pollVars, loop>>
  PROVE  IInv'
<1>1. chan[c].node \in Node
  BY DEF IInv, ChannelsKnown
<1> PICK n \in Node : n = chan[c].node
  BY <1>1
<1> DEFINE s == IF data THEN OnAnswer(state[n]) ELSE OnError(state[n])
<1>2. /\ busy' = [busy EXCEPT ![n] = FALSE]
      /\ state' = [state EXCEPT ![n] = s]
      /\ item' = [item EXCEPT ![n] = IF s # state[n] THEN 0 ELSE item[n]]
      /\ hold' = [hold EXCEPT ![n] = hold[n] \/ ~data]
      /\ got' = [got EXCEPT ![n] =
           IF s = state[n] /\ s = "testing" THEN got[n] \cup {chan[c].obj} ELSE {}]
      /\ alone' = [alone EXCEPT ![n] =
           IF s = state[n] THEN alone[n] ELSE s = "testing" => Requests(n) = {c}]
  BY DEF OnBattRead
<1>3. chan' = [chan EXCEPT ![c].obj = Idle]
  BY DEF Free
<1>4. TypeOK
  BY DEF IInv
<1>5. s \in States \ {"scanning"} /\ (s = "testing" /\ s = state[n] => data)
  BY <1>1, <1>4 DEF TypeOK, States, OnAnswer, OnError
<1>6. chan \in [Channel -> [node : Node \cup {0}, obj : Objects \cup {Idle}]]
  BY <1>4 DEF TypeOK
<1>7. Node \in SUBSET Nat /\ PollCount \in Nat \ {0}
  BY NodeAssumption, BoundAssumption DEF Node
<1>8. \A d \in Channel :
        /\ d \in Requests(n)' <=> d \in Requests(n) /\ d # c
        /\ \A m \in Node : m # n => (d \in Requests(m)' <=> d \in Requests(m))
        /\ d # c => chan'[d] = chan[d]
  BY <1>3, <1>6 DEF Requests
<1>81. c \in Requests(n) /\ chan[c].obj \in Objects
  BY <1>6 DEF Requests
<1> HIDE DEF s
<1>82. ASSUME NEW m \in Node, m # n PROVE Kept(m)
  <2>1. c \notin Requests(m)
    BY <1>82 DEF Requests
  <2>2. Requests(m)' = Requests(m)
    BY <1>8, <1>82 DEF Requests
  <2>3. \A d \in Requests(m) : chan'[d] = chan[d]
    BY <1>8, <2>1 DEF Requests
  <2> QED BY <2>2, <2>3 DEF Kept
<1>83. Requests(n)' = Requests(n) \ {c}
  BY <1>8 DEF Requests
<1>9. TypeOK'
  <2>1. state' \in [Node -> States] /\ busy' \in [Node -> BOOLEAN]
    BY <1>1, <1>2, <1>4, <1>5 DEF TypeOK
  <2>2. hold' \in [Node -> BOOLEAN]
    BY <1>2, <1>4 DEF TypeOK
  <2>3. item' \in [Node -> 0 .. PollCount - 1]
    BY <1>1, <1>2, <1>4, <1>7 DEF TypeOK
  <2>4. got' \in [Node -> SUBSET Objects] /\ alone' \in [Node -> BOOLEAN]
    <3>1. \A m \in Node : got'[m] \subseteq Objects
      BY <1>1, <1>2, <1>4, <1>81 DEF TypeOK
    <3>2. \A m \in Node : alone'[m] \in BOOLEAN
      BY <1>1, <1>2, <1>4 DEF TypeOK
    <3> QED BY <1>2, <1>4, <3>1, <3>2 DEF TypeOK
  <2>5. chan' \in [Channel -> [node : Node \cup {0}, obj : Objects \cup {Idle}]]
    BY <1>3, <1>6
  <2> QED BY <1>4, <2>1, <2>2, <2>3, <2>4, <2>5 DEF TypeOK, pollVars
<1>10. BusyIsOutstanding'
  <2> SUFFICES ASSUME NEW m \in Node, busy'[m] PROVE Outstanding(m)'
    BY DEF BusyIsOutstanding
  <2>1. m # n /\ busy[m]
    BY <1>1, <1>2, <1>4 DEF TypeOK
  <2> QED BY <1>82, <2>1, KeptOutstanding DEF IInv, BusyIsOutstanding
<1>11. ScanWaitsForAnswers'
  <2> SUFFICES ASSUME NEW m \in Node, state'[m] = "scanning"
               PROVE  /\ mode # "poll"
                      /\ mode = "scan" => /\ m \in scan.first .. scan.last
                                          /\ m < scan.node => Outstanding(m)'
    BY DEF ScanWaitsForAnswers, pollVars
  <2>1. m # n /\ state[m] = "scanning"
    BY <1>1, <1>2, <1>4, <1>5 DEF TypeOK
  <2> QED BY <1>82, <2>1, KeptOutstanding DEF IInv, ScanWaitsForAnswers
<1>12. ChannelsKnown'
  BY <1>3, <1>6 DEF IInv, ChannelsKnown
<1>13. ScanRange'
  BY DEF IInv, ScanRange, pollVars
<1>14. RoundAnswered'
  <2> SUFFICES ASSUME NEW m \in Node PROVE RoundOf(m)'
    BY DEF RoundAnswered
  <2>1. CASE m # n
    <3>1. UNCHANGED <<state[m], busy[m], item[m], got[m], alone[m]>>
      BY <1>2, <1>4, <2>1 DEF TypeOK
    <3> QED BY <1>82, <2>1, <3>1, RoundKept
  <2>2. CASE m = n /\ s # state[n]
    <3>1. item'[n] = 0 /\ state'[n] = s /\ ~busy'[n]
          /\ alone'[n] = (s = "testing" => Requests(n) = {c})
      BY <1>1, <1>2, <1>4, <2>2 DEF TypeOK
    <3>2. state'[n] = "testing" /\ alone'[n] => Requests(n)' = {}
      BY <1>83, <3>1
    <3>3. 0 .. -2 = {} /\ 0 .. -1 = {}
      OBVIOUS
    <3> QED BY <2>2, <3>1, <3>2, <3>3 DEF RoundOf
  <2>3. CASE m = n /\ s = state[n]
    <3> SUFFICES ASSUME state'[n] = "testing", alone'[n] PROVE RoundOf(n)'
      BY <2>3 DEF RoundOf
    <3>1. state[n] = "testing" /\ alone[n] /\ item'[n] = item[n] /\ ~busy'[n]
          /\ got'[n] = got[n] \cup {chan[c].obj}
      BY <1>1, <1>2, <1>4, <1>5, <2>3 DEF TypeOK
    <3>2. RoundOf(n)
      BY <1>1 DEF IInv, RoundAnswered
    <3>3. Requests(n) = {c} /\ chan[c].obj = item[n] - 1
      BY <1>81, <3>1, <3>2 DEF RoundOf
    <3>4. 0 .. item[n] - 2 \subseteq got[n]
      BY <3>1, <3>2 DEF RoundOf
    <3>5. item[n] \in Nat
      BY <1>1, <1>4 DEF TypeOK
    <3>6. 0 .. item[n] - 1 \subseteq got'[n]
      BY <3>1, <3>3, <3>4, <3>5
    <3>7. Requests(n)' = {}
      BY <1>83, <3>3
    <3>8. 0 .. item[n] - 2 \subseteq got'[n]
      BY <3>1, <3>4
    <3> QED BY <3>1, <3>6, <3>7, <3>8 DEF RoundOf
  <2> QED BY <2>1, <2>2, <2>3
<1> QED BY <1>9, <1>10, <1>11, <1>12, <1>13, <1>14 DEF IInv

-----------------------------------------------------------------------------
(* One lemma for each action that does more than leave the parts alone.    *)

LEMMA FullScanIInv ==
  ASSUME IInv, NEW first \in Node, NEW last \in Node, FullScan(first, last)
  PROVE  IInv'
<1>1. TypeOK
  BY DEF IInv
<1>2. Node \in SUBSET Nat
  BY DEF Node
<1>3. TypeOK'
  <2>1. state' \in [Node -> States]
    BY <1>1 DEF TypeOK, FullScan, States
  <2>2. scan' \in [first : Node \cup {0}, last : Node \cup {0}, node : 0 .. NodeMax + 1]
    BY NodeAssumption DEF FullScan, Node
  <2>3. item' \in [Node -> 0 .. PollCount - 1]
    BY <1>1, BoundAssumption DEF TypeOK, FullScan
  <2>4. mode' = "scan" /\ UNCHANGED <<pause, backoff, loop, busy, hold, chan, asked,
                                     saved, got, alone>>
    BY DEF FullScan
  <2> QED BY <1>1, <2>1, <2>2, <2>3, <2>4 DEF TypeOK
<1>4. BusyIsOutstanding'
  BY DEF IInv, BusyIsOutstanding, Outstanding, Requests, FullScan
<1>5. ScanWaitsForAnswers'
  <2>1. \A m \in Node : state'[m] = "scanning" => m \in first .. last
    BY DEF IInv, ScanWaitsForAnswers, FullScan
  <2> QED BY <1>2, <2>1 DEF ScanWaitsForAnswers, FullScan
<1>6. ChannelsKnown'
  BY DEF IInv, ChannelsKnown, FullScan
<1>7. ScanRange'
  BY DEF ScanRange, FullScan
<1>8. RoundAnswered'
  <2> SUFFICES ASSUME NEW m \in Node PROVE RoundOf(m)'
    BY DEF RoundAnswered
  <2>1. Kept(m)
    BY DEF FullScan, Kept, Requests
  <2>2. state'[m] = "testing" =>
          UNCHANGED <<state[m], busy[m], item[m], got[m], alone[m]>>
    BY <1>1 DEF FullScan, TypeOK
  <2> QED BY <2>1, <2>2, RoundKept
<1> QED BY <1>3, <1>4, <1>5, <1>6, <1>7, <1>8 DEF IInv

LEMMA ScanAskIInv ==
  ASSUME IInv, ScanAsk
  PROVE  IInv'
<1>1. TypeOK /\ scan.node \in Node /\ scan.last \in Node
  <2>1. scan.last \in Node /\ scan.node \in Node \cup {NodeMax + 1}
    BY DEF IInv, ScanRange, ScanAsk
  <2>2. scan.node <= scan.last
    BY DEF ScanAsk
  <2>3. scan.node \in Node
    BY <2>1, <2>2, NodeAssumption DEF Node
  <2> QED BY <2>1, <2>3 DEF IInv
<1> PICK k \in Node : k = scan.node
  BY <1>1
<1>2. /\ chan' \in [Channel -> [node : Node \cup {0}, obj : Objects \cup {Idle}]]
      /\ asked' \subseteq Node \X Objects
      /\ ChannelsKnown'
      /\ \A m \in Node : Outstanding(m) => Outstanding(m)'
      /\ state[k] = "scanning" => Outstanding(k)'
      /\ \A m \in Node : state[m] # "scanning" => Kept(m)
  <2>1. CASE state[k] = "scanning"
    <3>1. DeviceType \in Objects
      BY BoundAssumption DEF DeviceType, Objects
    <3>2. SdoRead(k, DeviceType)
      BY <2>1 DEF ScanAsk
    <3> QED BY <1>1, <2>1, <3>1, <3>2, SdoReadEffect, SdoReadRequests
  <2>2. CASE state[k] # "scanning"
    <3>1. UNCHANGED <<chan, asked>>
      BY <2>2 DEF ScanAsk
    <3> QED BY <2>2, <3>1 DEF IInv, TypeOK, ChannelsKnown, Outstanding, Requests, Kept
  <2> QED BY <2>1, <2>2
<1>3. scan' = [scan EXCEPT !.node = scan.node + 1]
  BY DEF ScanAsk
<1>4. scan.node + 1 \in Node \cup {NodeMax + 1} /\ scan.node + 1 \in 0 .. NodeMax + 1
  BY <1>1, NodeAssumption DEF Node
<1>5. scan'.first = scan.first /\ scan'.last = scan.last /\ scan'.node = scan.node + 1
  BY <1>1, <1>3 DEF TypeOK
<1>6. scan' \in [first : Node \cup {0}, last : Node \cup {0}, node : 0 .. NodeMax + 1]
  BY <1>1, <1>3, <1>4 DEF TypeOK
<1>7. UNCHANGED <<mode, pause, backoff, loop, state, busy, item, hold, saved, got, alone>>
  BY DEF ScanAsk
<1>8. TypeOK'
  BY <1>1, <1>2, <1>6, <1>7 DEF TypeOK
<1>9. BusyIsOutstanding'
  BY <1>2, <1>7 DEF IInv, BusyIsOutstanding
<1>10. ScanWaitsForAnswers'
  <2> SUFFICES ASSUME NEW m \in Node, state[m] = "scanning"
               PROVE  /\ mode # "poll"
                      /\ mode = "scan" => /\ m \in scan.first .. scan.last
                                          /\ m < scan.node + 1 => Outstanding(m)'
    BY <1>5, <1>7 DEF ScanWaitsForAnswers
  <2>1. m < scan.node + 1 => m < scan.node \/ m = k
    BY <1>1 DEF Node
  <2>2. mode # "poll" /\ (mode = "scan" => m \in scan.first .. scan.last)
    BY DEF IInv, ScanWaitsForAnswers
  <2>3. mode = "scan" /\ m < scan.node => Outstanding(m)
    BY DEF IInv, ScanWaitsForAnswers
  <2> QED BY <1>2, <2>1, <2>2, <2>3
<1>11. ScanRange'
  BY <1>4, <1>5, <1>7 DEF IInv, ScanRange
<1>12. RoundAnswered'
  <2> SUFFICES ASSUME NEW m \in Node PROVE RoundOf(m)'
    BY DEF RoundAnswered
  <2>1. state'[m] = "testing" =>
          Kept(m) /\ UNCHANGED <<state[m], busy[m], item[m], got[m], alone[m]>>
    BY <1>2, <1>7
  <2>2. state'[m] # "testing" => RoundOf(m)'
    BY DEF RoundOf
  <2> QED BY <2>1, <2>2, RoundKept
<1> QED BY <1>2, <1>8, <1>9, <1>10, <1>11, <1>12 DEF IInv

LEMMA ScanAskFailsIInv ==
  ASSUME IInv, ScanAskFails
  PROVE  IInv'
<1>1. scan.node \in Node
  <2>1. scan.last \in Node /\ scan.node \in Node \cup {NodeMax + 1}
    BY DEF IInv, ScanRange, ScanAskFails
  <2>2. scan.node <= scan.last
    BY DEF ScanAskFails
  <2> QED BY <2>1, <2>2, NodeAssumption DEF Node
<1> PICK k \in Node : k = scan.node
  BY <1>1
<1>2. SdoReadFails(k)
  BY DEF ScanAskFails
<1>3. /\ chan' \in [Channel -> [node : Node \cup {0}, obj : Objects \cup {Idle}]]
      /\ asked' = asked
      /\ ChannelsKnown'
      /\ \A m \in Node : Kept(m)
  BY <1>2, SdoReadFailsEffect
<1>4. UNCHANGED <<mode, pause, scan, loop, state, busy, item, hold, saved, got, alone>>
      /\ backoff' = Backoff
  BY DEF ScanAskFails
<1>5. TypeOK'
  BY <1>3, <1>4, BoundAssumption DEF IInv, TypeOK
<1>6. BusyIsOutstanding' /\ ScanWaitsForAnswers'
  BY <1>3, <1>4, KeptOutstanding DEF IInv, BusyIsOutstanding, ScanWaitsForAnswers
<1>7. ScanRange'
  BY <1>4 DEF IInv, ScanRange
<1>8. RoundAnswered'
  BY <1>3, <1>4, RoundKept DEF RoundAnswered
<1> QED BY <1>3, <1>5, <1>6, <1>7, <1>8 DEF IInv

LEMMA ScanEndIInv ==
  ASSUME IInv, ScanEnd
  PROVE  IInv'
<1>1. TypeOK' /\ BusyIsOutstanding' /\ ChannelsKnown' /\ ScanRange' /\ RoundAnswered'
  BY DEF IInv, ScanEnd, TypeOK, BusyIsOutstanding, ChannelsKnown, ScanRange,
         RoundAnswered, RoundOf, Outstanding, Requests
<1>2. \A m \in Node : state[m] # "scanning"
  BY DEF IInv, ScanEnd, ScanWaitsForAnswers
<1>3. ScanWaitsForAnswers'
  BY <1>2 DEF ScanEnd, ScanWaitsForAnswers
<1> QED BY <1>1, <1>3 DEF IInv

LEMMA PollNextType ==
  ASSUME TypeOK, loop # 0, PollNext
  PROVE  loop \in Node /\ loop' \in 0 .. NodeMax
  BY NodeAssumption DEF TypeOK, PollNext, Node

LEMMA PollAskFailsIInv ==
  ASSUME IInv, PollAskFails
  PROVE  IInv'
<1>1. loop \in Node /\ loop' \in 0 .. NodeMax
  BY PollNextType DEF IInv, PollAskFails
<1> PICK k \in Node : k = loop
  BY <1>1
<1>2. SdoReadFails(k)
  BY DEF PollAskFails
<1>3. /\ chan' \in [Channel -> [node : Node \cup {0}, obj : Objects \cup {Idle}]]
      /\ asked' = asked
      /\ ChannelsKnown'
      /\ \A m \in Node : Kept(m)
  BY <1>2, SdoReadFailsEffect
<1>4. UNCHANGED <<mode, pause, scan, backoff, state, busy, item, hold, saved, got, alone>>
  BY DEF PollAskFails, pollVars
<1>5. TypeOK'
  BY <1>1, <1>3, <1>4 DEF IInv, TypeOK
<1>6. BusyIsOutstanding' /\ ScanWaitsForAnswers'
  BY <1>3, <1>4, KeptOutstanding DEF IInv, BusyIsOutstanding, ScanWaitsForAnswers
<1>7. ScanRange'
  BY <1>4 DEF IInv, ScanRange
<1>8. RoundAnswered'
  BY <1>3, <1>4, RoundKept DEF RoundAnswered
<1> QED BY <1>3, <1>5, <1>6, <1>7, <1>8 DEF IInv

LEMMA PollAskIInv ==
  ASSUME IInv, PollAsk
  PROVE  IInv'
<1>0. TypeOK /\ PollCount \in Nat \ {0}
  BY BoundAssumption DEF IInv
<1>1. loop \in Node /\ loop' \in 0 .. NodeMax
  BY PollNextType DEF IInv, PollAsk
<1> PICK k \in Node : k = loop
  BY <1>1
<1>2. item[k] \in 0 .. PollCount - 1 /\ item[k] \in Objects
  BY <1>0 DEF TypeOK, Objects
<1> PICK o \in Objects : o = item[k]
  BY <1>2
<1>3. SdoRead(k, o)
  BY DEF PollAsk
<1>4. /\ chan' \in [Channel -> [node : Node \cup {0}, obj : Objects \cup {Idle}]]
      /\ asked' \subseteq Node \X Objects
      /\ ChannelsKnown'
      /\ Outstanding(k)'
      /\ \A m \in Node : Outstanding(m) => Outstanding(m)'
  BY <1>3, SdoReadEffect
<1>41. /\ \A m \in Node : m # k => Kept(m)
       /\ Requests(k)' = Requests(k) \cup {First(Ready)}
       /\ chan'[First(Ready)].obj = o
  BY <1>3, SdoReadRequests
<1>5. UNCHANGED <<mode, pause, scan, backoff, saved, got, alone>>
      /\ busy' = [busy EXCEPT ![k] = TRUE]
      /\ ~busy[k]
  BY DEF PollAsk, pollVars, Due
<1>6. \/ /\ item[k] = PollCount - 1
         /\ item' = [item EXCEPT ![k] = 0]
         /\ hold' = [hold EXCEPT ![k] = TRUE]
         /\ state' = [state EXCEPT ![k] = IF state[k] = "testing" THEN "available" ELSE state[k]]
      \/ /\ item[k] # PollCount - 1
         /\ item' = [item EXCEPT ![k] = item[k] + 1]
         /\ UNCHANGED <<hold, state>>
  BY DEF PollAsk
<1>7. state' \in [Node -> States] /\ item' \in [Node -> 0 .. PollCount - 1]
  BY <1>0, <1>2, <1>6 DEF TypeOK, States
<1>8. TypeOK'
  <2>1. hold' \in [Node -> BOOLEAN] /\ busy' \in [Node -> BOOLEAN]
    BY <1>0, <1>5, <1>6, Zenon DEF TypeOK
  <2> QED BY <1>0, <1>1, <1>4, <1>5, <1>7, <2>1 DEF TypeOK
<1>9. BusyIsOutstanding'
  <2> SUFFICES ASSUME NEW m \in Node, busy'[m] PROVE Outstanding(m)'
    BY DEF BusyIsOutstanding
  <2>1. m = k \/ busy[m]
    BY <1>0, <1>5 DEF TypeOK
  <2> QED BY <1>4, <2>1 DEF IInv, BusyIsOutstanding
<1>10. ScanWaitsForAnswers'
  <2>1. \A m \in Node : state'[m] = "scanning" => state[m] = "scanning"
    BY <1>0, <1>6 DEF TypeOK
  <2> QED BY <1>4, <1>5, <2>1 DEF IInv, ScanWaitsForAnswers
<1>11. ScanRange'
  BY <1>5 DEF IInv, ScanRange
<1>12. RoundAnswered'
  <2> SUFFICES ASSUME NEW m \in Node PROVE RoundOf(m)'
    BY DEF RoundAnswered
  <2>1. CASE m # k
    <3>1. UNCHANGED <<state[m], busy[m], item[m], got[m], alone[m]>>
      BY <1>0, <1>5, <1>6, <2>1 DEF TypeOK
    <3> QED BY <1>41, <2>1, <3>1, RoundKept
  <2>2. CASE m = k
    <3> SUFFICES ASSUME state'[k] = "testing", alone'[k] PROVE RoundOf(k)'
      BY <2>2 DEF RoundOf
    <3>1. state[k] = "testing" /\ item'[k] = item[k] + 1
      BY <1>0, <1>6 DEF TypeOK
    <3>2. busy'[k] /\ got'[k] = got[k] /\ alone[k]
      BY <1>0, <1>5 DEF TypeOK
    <3>3. Requests(k) = {} /\ 0 .. item[k] - 1 \subseteq got[k]
      <4>1. RoundOf(k)
        BY DEF IInv, RoundAnswered
      <4> QED BY <1>5, <3>1, <3>2, <4>1 DEF RoundOf
    <3>4. item'[k] # 0 /\ item'[k] - 1 = item[k] /\ item'[k] - 2 = item[k] - 1
      BY <1>2, <3>1
    <3>5. Requests(k)' = {First(Ready)}
      BY <1>41, <3>3
    <3> QED BY <1>41, <3>2, <3>3, <3>4, <3>5 DEF RoundOf
  <2> QED BY <2>1, <2>2
<1> QED BY <1>4, <1>8, <1>9, <1>10, <1>11, <1>12 DEF IInv

LEMMA AnswerIInv ==
  ASSUME IInv, NEW n \in Node, NEW o \in Objects, NEW data \in BOOLEAN, Answer(n, o, data)
  PROVE  IInv'
<1>0. asked' \subseteq asked /\ UNCHANGED <<pollVars, loop>>
  BY DEF Answer
<1>1. CASE Connected(n) # {} /\ chan[First(Connected(n))].obj # Idle
  <2>1. Connected(n) \in SUBSET Nat
    BY BoundAssumption DEF Connected, Channel
  <2>2. First(Connected(n)) \in Connected(n)
    BY <1>1, <2>1, FirstIsLeast
  <2> PICK c \in Channel : c = First(Connected(n)) /\ chan[c].node = n
    BY <2>2 DEF Connected
  <2>3. OnBattRead(c, data /\ chan[c].obj = o) /\ Free(c)
    BY <1>1 DEF Answer
  <2> PICK d \in BOOLEAN : d = (data /\ chan[c].obj = o)
    OBVIOUS
  <2>4. OnBattRead(c, d)
    BY <2>3
  <2> QED BY <1>0, <1>1, <2>3, <2>4, CallbackKeepsIInv
<1>2. CASE ~(Connected(n) # {} /\ chan[First(Connected(n))].obj # Idle)
  <2>1. UNCHANGED <<pollVars, loop, state, busy, item, hold, chan, got, alone>>
    BY <1>0, <1>2 DEF Answer
  <2> QED BY <1>0, <2>1
          DEF IInv, TypeOK, BusyIsOutstanding, ScanWaitsForAnswers, ChannelsKnown,
              ScanRange, RoundAnswered, RoundOf, Outstanding, Requests, pollVars
<1> QED BY <1>1, <1>2

LEMMA TimeoutIInv ==
  ASSUME IInv, NEW c \in Channel, Timeout(c)
  PROVE  IInv'
<1>1. /\ chan[c].obj # Idle
      /\ OnBattRead(c, FALSE)
      /\ Free(c)
      /\ asked' \subseteq asked
      /\ UNCHANGED <<pollVars, loop>>
  BY DEF Timeout
<1> QED BY <1>1, CallbackKeepsIInv

LEMMA RestartIInv ==
  ASSUME IInv, Restart
  PROVE  IInv'
<1>1. state' \in [Node -> {"testing", "unknown"}]
  BY DEF Restart, Started
<1>2. TypeOK'
  BY <1>1, NodeAssumption, BoundAssumption
  DEF IInv, TypeOK, Restart, Fresh, States, Node, Channel, Idle
<1>3. \A c \in Channel : chan'[c].obj = Idle
  BY DEF Restart, Fresh
<1>4. BusyIsOutstanding' /\ ScanWaitsForAnswers' /\ ChannelsKnown' /\ ScanRange'
  BY <1>1, <1>3 DEF Restart, BusyIsOutstanding, ScanWaitsForAnswers, ChannelsKnown, ScanRange
<1>5. RoundAnswered'
  <2> SUFFICES ASSUME NEW m \in Node PROVE RoundOf(m)'
    BY DEF RoundAnswered
  <2>1. Requests(m)' = {}
    BY <1>3 DEF Requests
  <2>2. item'[m] = 0 /\ ~busy'[m] /\ 0 .. -2 = {} /\ 0 .. -1 = {}
    BY DEF Restart
  <2> QED BY <2>1, <2>2 DEF RoundOf
<1> QED BY <1>2, <1>4, <1>5 DEF IInv

\* The steps that change neither a battery's state nor a channel.
LEMMA OtherIInv ==
  ASSUME IInv,
         \/ BackoffTick \/ PollBegin \/ PollSkip \/ Pause \/ Resume
         \/ \E n \in Node : HoldOver(n)
         \/ UNCHANGED vars
  PROVE  IInv'
<1>1. UNCHANGED <<mode, scan, state, busy, item, chan, asked, saved, got, alone>>
  BY DEF BackoffTick, PollBegin, PollSkip, Pause, Resume, HoldOver, vars, pollVars
<1>2. pause' \in 0 .. PauseMax
  BY BoundAssumption DEF IInv, TypeOK, BackoffTick, PollBegin, PollSkip, Pause, Resume,
                         HoldOver, vars, pollVars
<1>3. backoff' \in 0 .. Backoff
  BY BoundAssumption DEF IInv, TypeOK, BackoffTick, PollBegin, PollSkip, Pause, Resume,
                         HoldOver, vars, pollVars
<1>4. loop' \in 0 .. NodeMax
  <2>1. PollSkip => loop' \in 0 .. NodeMax
    BY PollNextType DEF IInv, PollSkip
  <2> QED BY <2>1, NodeAssumption DEF IInv, TypeOK, BackoffTick, PollBegin, Pause,
                                      Resume, HoldOver, vars, pollVars
<1>5. hold' \in [Node -> BOOLEAN]
  BY DEF IInv, TypeOK, BackoffTick, PollBegin, PollSkip, Pause, Resume, HoldOver, vars,
         pollVars
<1>6. TypeOK'
  BY <1>1, <1>2, <1>3, <1>4, <1>5 DEF IInv, TypeOK
<1> QED BY <1>1, <1>6
        DEF IInv, BusyIsOutstanding, ScanWaitsForAnswers, ChannelsKnown, ScanRange,
            RoundAnswered, RoundOf, Outstanding, Requests

LEMMA NextIInv == IInv /\ [Next]_vars => IInv'
<1> SUFFICES ASSUME IInv, [Next]_vars PROVE IInv'
  OBVIOUS
<1>1. ASSUME NEW r \in Ranges, FullScan(r[1], r[2]) PROVE IInv'
  <2>1. r[1] \in Node /\ r[2] \in Node
    BY BoundAssumption DEF Node
  <2> QED BY <1>1, <2>1, FullScanIInv
<1>2. ASSUME NEW n \in Node, NEW o \in Objects, NEW data \in BOOLEAN, Answer(n, o, data)
      PROVE  IInv'
  BY <1>2, AnswerIInv
<1>3. ASSUME NEW c \in Channel, Timeout(c) PROVE IInv'
  BY <1>3, TimeoutIInv
<1> QED
  BY <1>1, <1>2, <1>3, ScanAskIInv, ScanAskFailsIInv, ScanEndIInv, PollAskIInv,
     PollAskFailsIInv, RestartIInv, OtherIInv DEF Next

\* Every state the specification allows satisfies the invariant.
LEMMA Invariant == Spec => []IInv
  BY InitIInv, NextIInv, PTL DEF Spec

-----------------------------------------------------------------------------

\* Every variable keeps its type: no index leaves its table, no counter its bound.
THEOREM TypeCorrect == Spec => []TypeOK
<1>1. IInv => TypeOK
  BY DEF IInv
<1> QED BY <1>1, Invariant, PTL

\* However many batteries, channels and objects: one marked busy has a callback to
\* come, so it is polled again.
THEOREM BusyHasCallback == Spec => []BusyIsOutstanding
<1>1. IInv => BusyIsOutstanding
  BY DEF IInv
<1> QED BY <1>1, Invariant, PTL

\* A scan never waits for a verdict that nothing can bring.
THEOREM ScanNeverStuck == Spec => []ScanWaitsForAnswers
<1>1. IInv => ScanWaitsForAnswers
  BY DEF IInv
<1> QED BY <1>1, Invariant, PTL

\* A battery is made available by PollAsk only, when it asks for the last object.  If
\* the answer that found the battery ended the only request to it, the data of every
\* other object came since then; a request left over, of a scan or of a poll, may be
\* answered in place of one.
THEOREM AvailableAfterRound == Spec => AvailableIsEarned
<1>1. IInv /\ [Next]_vars =>
        [\A n \in Node : (state[n] = "testing" /\ state'[n] = "available" /\ alone[n]) =>
            0 .. PollCount - 2 \subseteq got[n]]_vars
  <2> SUFFICES ASSUME IInv, Next, NEW n \in Node,
                      state[n] = "testing", state'[n] = "available", alone[n]
               PROVE  0 .. PollCount - 2 \subseteq got[n]
    OBVIOUS
  <2>1. state \in [Node -> States]
    BY DEF IInv, TypeOK
  <2>2. CASE PollAsk
    <3>1. loop = n /\ item[n] = PollCount - 1 /\ ~busy[n]
      BY <2>1, <2>2 DEF PollAsk, Due
    <3>2. item[n] - 1 = PollCount - 2
      BY <3>1, BoundAssumption
    <3>3. RoundOf(n)
      BY DEF IInv, RoundAnswered
    <3> QED BY <3>1, <3>2, <3>3 DEF RoundOf
  <2>3. ASSUME NEW c, NEW data, OnBattRead(c, data) PROVE FALSE
    BY <2>1, <2>3 DEF OnBattRead, OnAnswer, OnError
  <2>4. ASSUME NEW m \in Node, NEW o \in Objects, NEW data \in BOOLEAN, Answer(m, o, data)
        PROVE  FALSE
    <3>1. state' # state
      OBVIOUS
    <3> QED BY <2>3, <2>4, <3>1 DEF Answer
  <2>5. ~(\E c \in Channel : Timeout(c))
    BY <2>3 DEF Timeout
  <2>6. ~(\E r \in Ranges : FullScan(r[1], r[2]))
    BY <2>1 DEF FullScan
  <2>7. ~Restart
    BY DEF Restart, Started
  <2>8. UNCHANGED state => FALSE
    OBVIOUS
  <2> QED
    BY <2>2, <2>4, <2>5, <2>6, <2>7, <2>8
    DEF Next, ScanAsk, ScanAskFails, ScanEnd, BackoffTick, PollBegin, PollSkip,
        PollAskFails, HoldOver, Pause, Resume
<1> QED BY <1>1, Invariant, PTL DEF Spec, AvailableIsEarned

\* A battery goes from state to state only as the drawing says, but for the start of
\* a scan and of the device: what answers, timeouts and polls do to it, in any order.
THEOREM LifecycleFollowed == Spec => Lifecycle
<1> DEFINE Edge(n) == \/ state'[n] = state[n]
                      \/ <<state[n], state'[n]>> \in Drawn
                      \/ mode = "poll" /\ mode' = "scan" /\ state'[n] \in {"scanning", "unavailable"}
                      \/ state' = Started(saved)
<1>1. IInv /\ [Next]_vars => [\A n \in Node : Edge(n)]_vars
  <2> SUFFICES ASSUME IInv, Next, NEW n \in Node PROVE Edge(n)
    OBVIOUS
  <2>1. state \in [Node -> States]
    BY DEF IInv, TypeOK
  <2>2. CASE PollAsk
    <3>1. UNCHANGED state \/ state' = [state EXCEPT ![loop] = IF @ = "testing" THEN "available" ELSE @]
      BY <2>2 DEF PollAsk
    <3> QED
      BY <2>1, <3>1 DEF Drawn
  <2>3. ASSUME NEW c, NEW data, OnBattRead(c, data) PROVE Edge(n)
    <3> DEFINE m == chan[c].node
    <3>1. CASE n # m
      BY <2>1, <2>3, <3>1 DEF OnBattRead
    <3>2. CASE n = m /\ data
      <4>1. state'[n] = OnAnswer(state[n])
        BY <2>1, <2>3, <3>2 DEF OnBattRead
      <4> QED
        BY <4>1 DEF OnAnswer, Drawn
    <3>3. CASE n = m /\ ~data
      <4>1. state'[n] = OnError(state[n])
        BY <2>1, <2>3, <3>3 DEF OnBattRead
      <4> QED
        BY <4>1 DEF OnError, Drawn
    <3> QED
      BY <3>1, <3>2, <3>3
  <2>4. ASSUME NEW m \in Node, NEW o \in Objects, NEW data \in BOOLEAN, Answer(m, o, data)
        PROVE  Edge(n)
    BY <2>3, <2>4 DEF Answer
  <2>5. ASSUME NEW c \in Channel, Timeout(c) PROVE Edge(n)
    BY <2>3, <2>5 DEF Timeout
  <2>6. ASSUME NEW r \in Ranges, FullScan(r[1], r[2]) PROVE Edge(n)
    BY <2>1, <2>6 DEF FullScan
  <2>7. CASE Restart
    BY <2>7 DEF Restart
  <2>8. ASSUME UNCHANGED state PROVE Edge(n)
    BY <2>8
  <2> HIDE DEF Edge
  <2> QED
    BY <2>2, <2>4, <2>5, <2>6, <2>7, <2>8
    DEF Next, ScanAsk, ScanAskFails, ScanEnd, BackoffTick, PollBegin, PollSkip,
        PollAskFails, HoldOver, Pause, Resume
<1> QED BY <1>1, Invariant, PTL DEF Spec, Lifecycle

(***************************************************************************)
(* The core of ScanEnds: what a scan has yet to do grows less and can      *)
(* always go on.  That it does go on is what Fairness says.                *)
(***************************************************************************)
Scanning == {n \in Node : state[n] = "scanning"}

\* What a tick, unless it is skipped, finds to do: the next request or the end of the
\* scan.  Or else a callback is to come, of a node that waits for its verdict, or of
\* whatever holds the channels.
ScanHasCause ==
  /\ loop = 0
  /\ \/ scan.node <= scan.last /\ (state[scan.node] = "scanning" => Ready # {})
     \/ \E c \in Channel : chan[c].obj # Idle /\ (Ready = {} \/ chan[c].node \in Scanning)
     \/ scan.node > scan.last /\ \A n \in scan.first .. scan.last : state[n] # "scanning"

\* Within a scan the range stays, the next node never goes back and no node is
\* SCANNING again; a request sent goes on to the next node, and a time-out gives the
\* node that waits for its verdict one.
ScanGoesOn ==
  [][mode = "scan" /\ mode' = "scan" =>
       /\ scan'.first = scan.first /\ scan'.last = scan.last
       /\ scan'.node = IF ScanAsk THEN scan.node + 1 ELSE scan.node
       /\ Scanning' \subseteq Scanning
       /\ \A c \in Channel : Timeout(c) => chan[c].node \notin Scanning']_vars

NoPollInScan == mode = "scan" => loop = 0

LEMMA NoPollInScanAlways == Spec => []NoPollInScan
<1>1. Init => NoPollInScan
  BY DEF Init, NoPollInScan
<1>2. ASSUME NoPollInScan, [Next]_vars PROVE NoPollInScan'
  <2>1. \A n \in Node, o \in Objects, data \in BOOLEAN : Answer(n, o, data) => NoPollInScan'
    BY <1>2 DEF Answer, pollVars, NoPollInScan
  <2>2. \A c \in Channel : Timeout(c) => NoPollInScan'
    BY <1>2 DEF Timeout, pollVars, NoPollInScan
  <2>3. \A r \in Ranges : FullScan(r[1], r[2]) => NoPollInScan'
    BY DEF FullScan, NoPollInScan
  <2>4. \A n \in Node : HoldOver(n) => NoPollInScan'
    BY <1>2 DEF HoldOver, pollVars, NoPollInScan
  <2> QED
    BY <1>2, <2>1, <2>2, <2>3, <2>4
    DEF Next, vars, pollVars, NoPollInScan, ScanAsk, ScanAskFails, ScanEnd, BackoffTick,
        PollBegin, PollSkip, PollAsk, PollAskFails, Pause, Resume, Restart
<1> QED
  BY <1>1, <1>2, PTL DEF Spec

LEMMA CauseFound ==
  ASSUME IInv, NoPollInScan, mode = "scan"
  PROVE  ScanHasCause
<1>1. loop = 0 /\ scan.first \in Nat /\ scan.last \in Nat /\ scan.node \in Nat
  BY NodeAssumption DEF IInv, ScanRange, NoPollInScan, Node
<1>2. CASE scan.node <= scan.last
  <2>1. Ready # {} \/ \E c \in Channel : chan[c].obj # Idle
    BY BoundAssumption DEF Ready, Channel
  <2> QED
    BY <1>1, <1>2, <2>1 DEF ScanHasCause
<1>3. CASE scan.node > scan.last
  <2>1. ASSUME NEW n \in scan.first .. scan.last, state[n] = "scanning"
        PROVE  \E c \in Channel : chan[c].obj # Idle /\ chan[c].node \in Scanning
    <3>1. n \in Node /\ n < scan.node
      BY <1>1, <1>3, NodeAssumption DEF IInv, ScanRange, Node
    <3>2. Outstanding(n)
      BY <2>1, <3>1 DEF IInv, ScanWaitsForAnswers
    <3> QED
      BY <2>1, <3>1, <3>2 DEF Outstanding, Requests, Scanning
  <2> QED
    BY <1>1, <1>3, <2>1 DEF ScanHasCause
<1> QED
  BY <1>1, <1>2, <1>3

\* A callback gives its node a verdict and leaves the others as they are.
LEMMA VerdictGiven ==
  ASSUME IInv, NEW c \in Channel, NEW m \in Node, chan[c].node = m,
         NEW data \in BOOLEAN, OnBattRead(c, data)
  PROVE  m \notin Scanning' /\ Scanning' \subseteq Scanning
<1>1. state \in [Node -> States]
  BY DEF IInv, TypeOK
<1>2. /\ \A n \in Node : n # m => state'[n] = state[n]
      /\ state'[m] = IF data THEN OnAnswer(state[m]) ELSE OnError(state[m])
  BY <1>1 DEF OnBattRead
<1>3. state'[m] # "scanning"
  BY <1>2 DEF OnAnswer, OnError
<1> QED
  BY <1>2, <1>3 DEF Scanning

LEMMA ScanningKept ==
  ASSUME IInv, Next, mode = "scan", mode' = "scan"
  PROVE  /\ Scanning' \subseteq Scanning
         /\ \A c \in Channel : Timeout(c) => chan[c].node \notin Scanning'
<1>1. ASSUME NEW c \in Channel, Timeout(c)
      PROVE  chan[c].node \notin Scanning' /\ Scanning' \subseteq Scanning
  BY <1>1, VerdictGiven DEF Timeout, IInv, ChannelsKnown
<1>2. ASSUME NEW n \in Node, NEW o \in Objects, NEW data \in BOOLEAN, Answer(n, o, data)
      PROVE  Scanning' \subseteq Scanning
  <2>1. CASE UNCHANGED state
    BY <2>1 DEF Scanning
  <2>2. CASE \E c \in Channel : chan[c].node = n /\ OnBattRead(c, data /\ chan[c].obj = o)
    BY <2>2, VerdictGiven
  <2>3. CASE Connected(n) # {} /\ chan[First(Connected(n))].obj # Idle
    <3>1. First(Connected(n)) \in Channel /\ chan[First(Connected(n))].node = n
      BY <2>3, FirstIsLeast DEF Connected, Channel
    <3> QED
      BY <1>2, <2>2, <2>3, <3>1 DEF Answer
  <2> QED
    BY <1>2, <2>1, <2>3 DEF Answer
<1>3. ASSUME PollAsk
      PROVE  Scanning' \subseteq Scanning
  <2>1. state \in [Node -> States]
    BY DEF IInv, TypeOK
  <2>2. \/ UNCHANGED state
        \/ state' = [state EXCEPT ![loop] = IF @ = "testing" THEN "available" ELSE @]
    BY <1>3 DEF PollAsk
  <2>3. ASSUME NEW n \in Node, state'[n] = "scanning"
        PROVE  state[n] = "scanning"
    <3>1. CASE n = loop
      BY <2>1, <2>2, <2>3, <3>1
    <3>2. CASE n # loop
      BY <2>1, <2>2, <2>3, <3>2
    <3> QED
      BY <3>1, <3>2
  <2> QED
    BY <2>3 DEF Scanning
<1>4. UNCHANGED state => Scanning' \subseteq Scanning
  BY DEF Scanning
<1> QED
  BY <1>1, <1>2, <1>3, <1>4
  DEF Next, FullScan, ScanAsk, ScanAskFails, ScanEnd, BackoffTick, PollBegin, PollSkip,
      PollAskFails, HoldOver, Pause, Resume, Restart

\* A scan never waits for nothing, and every step it takes brings its end nearer, in
\* whatever order requests, answers, time-outs, pauses and old polls come.
THEOREM ScanProceeds ==
  Spec => [](mode = "scan" => ScanHasCause) /\ ScanGoesOn
<1> DEFINE P == mode = "scan" => ScanHasCause
<1> DEFINE A == mode = "scan" /\ mode' = "scan" =>
                  /\ scan'.first = scan.first /\ scan'.last = scan.last
                  /\ scan'.node = IF ScanAsk THEN scan.node + 1 ELSE scan.node
                  /\ Scanning' \subseteq Scanning
                  /\ \A c \in Channel : Timeout(c) => chan[c].node \notin Scanning'
<1>1. IInv /\ NoPollInScan => P
  BY CauseFound
<1>2. ASSUME IInv, [Next]_vars
      PROVE  [A]_vars
  <2> SUFFICES ASSUME Next, mode = "scan", mode' = "scan"
               PROVE  A
    BY <1>2
  <2>1. CASE ScanAsk
    <3>1. scan \in [first : Node \cup {0}, last : Node \cup {0}, node : 0 .. NodeMax + 1]
      BY <1>2 DEF IInv, TypeOK
    <3>2. scan' = [scan EXCEPT !.node = scan.node + 1]
      BY <2>1 DEF ScanAsk
    <3> QED
      BY <1>2, <2>1, <3>1, <3>2, ScanningKept
  <2>2. CASE ~ScanAsk
    <3>1. scan' = scan
      BY <2>2 DEF Next, FullScan, ScanAskFails, ScanEnd, BackoffTick, PollBegin, PollSkip,
         PollAsk, PollAskFails, HoldOver, Answer, Timeout, Pause, Resume, Restart, pollVars
    <3> QED
      BY <1>2, <2>2, <3>1, ScanningKept
  <2> QED
    BY <2>1, <2>2
<1> QED
  BY <1>1, <1>2, Invariant, NoPollInScanAlways, PTL DEF Spec, ScanGoesOn

=============================================================================
