----------------------------- MODULE EventQueue -----------------------------
(***************************************************************************)
(* The BIOS event queue, src/arm/bios/evq.c: one ring of bytes between the *)
(* interrupt handlers and device callbacks that push events and the main   *)
(* loop that pops and dispatches them.                                     *)
(*                                                                         *)
(* An event is evSize bytes: its type byte, then its payload.  Byte k of   *)
(* event e is the pair <<e, k>>, so byte 0 is a type byte and every other  *)
(* byte is payload.  evq_push takes its decision (is there room?) before   *)
(* it disables interrupts and writes after, so a push is two steps here    *)
(* and other pushes may fall between them.                                 *)
(*                                                                         *)
(* Pushers are ordered by preemption level: 0 is the main loop (the boot   *)
(* event, and events its handlers push), higher levels are interrupt       *)
(* handlers.  Preemptive is TRUE for the microcontroller builds, where a   *)
(* level interrupts every lower one at any point, and FALSE for the Linux  *)
(* build, where the device callbacks run inside arch_idle().               *)
(***************************************************************************)
EXTENDS Integers, Sequences

CONSTANTS
  Size,        \* EVQ_SIZE
  Event,       \* the events that occur: a type and its payload
  evSize,      \* ev_size(): bytes of each event
  MaxLevel,    \* highest preemption level
  Sources,     \* Sources[l]: the events the handlers of level l > 0 push
  Response,    \* Response[e]: the events the handlers of event e push
  BootEvent,   \* EV_BOOT
  Preemptive,  \* do interrupts preempt the main loop?
  MaxXruns,    \* bound on the xruns counter, which saturates here
  NoEvent      \* no event is being dispatched

ASSUME SizeAssumption == Size \in Nat \ {0}
ASSUME EventAssumption ==
  /\ BootEvent \in Event
  /\ NoEvent \notin Event
  /\ evSize \in [Event -> 1 .. Size - 1]
ASSUME PusherAssumption ==
  /\ MaxLevel \in Nat
  /\ Sources \in [1 .. MaxLevel -> SUBSET Event]
  /\ Response \in [Event -> SUBSET Event]
ASSUME BuildAssumption == Preemptive \in BOOLEAN /\ MaxXruns \in Nat

VARIABLES
  data,     \* the bytes of the ring
  head,     \* where the next byte is written
  tail,     \* where the next byte is read
  xruns,    \* events dropped for lack of room
  usedMax,  \* used_max, the high-water mark
  pend,     \* pend[l]: the push of level l that has seen the room, if any
  thread,   \* where the main loop is
  cur       \* the event being dispatched

vars == <<data, head, tail, xruns, usedMax, pend, thread, cur>>

Idx   == 0 .. Size - 1
Level == 0 .. MaxLevel
Byte  == Event \X Nat
Zero  == <<NoEvent, 0>>   \* what the ring holds before anything is pushed
None  == [ev |-> NoEvent, room |-> 0]

(* Faulty variants of definitions below, each a slip that some property of *)
(* this module has to notice.                                              *)

\* No wrap at the end of the ring.
AdvStraight(i, n) == i + n

\* The ring may fill up to where head meets tail, or a byte less than it can.
RoomOneMore == Size - (IF head >= tail THEN head - tail ELSE Size + head - tail)
RoomOneLess == RoomOneMore - 2

\* Callbacks run whenever they like, also while a handler pushes.
MayStartAnytime(l) == TRUE

\* The last byte is not copied.
WrittenShort(d, h, e) ==
  [i \in Idx |-> LET k == IF i >= h THEN i - h ELSE Size + i - h
                 IN  IF k < evSize[e] - 1 THEN <<e, k>> ELSE d[i]]

\* Idle is entered without a look at the queue.
IdleEnterBlind ==
  /\ thread = "wait"
  /\ thread' = "idle"
  /\ UNCHANGED <<data, head, tail, xruns, usedMax, pend, cur>>

-----------------------------------------------------------------------------
\* The index n bytes after i, and the number of bytes from i to j.
Adv(i, n)  == IF i + n >= Size THEN i + n - Size ELSE i + n
Dist(i, j) == IF j >= i THEN j - i ELSE Size + j - i

Used == Dist(tail, head)
Room == (Size - Used) - 1

TypeOK ==
  /\ data \in [Idx -> Byte \cup {Zero}]
  /\ head \in Idx
  /\ tail \in Idx
  /\ xruns \in 0 .. MaxXruns
  /\ usedMax \in Idx
  /\ pend \in [Level -> [ev : Event, room : Idx] \cup {None}]
  /\ thread \in {"boot", "wait", "idle", "dispatch", "halted"}
  /\ cur \in [ev : Event \cup {NoEvent}, intact : BOOLEAN]

Init ==
  /\ data = [i \in Idx |-> Zero]
  /\ head = 0
  /\ tail = 0
  /\ xruns = 0
  /\ usedMax = 0
  /\ pend = [l \in Level |-> None]
  /\ thread = "boot"
  /\ cur = [ev |-> NoEvent, intact |-> TRUE]

-----------------------------------------------------------------------------
(* Pushing.                                                                *)

Pushing(l) == pend[l] # None

\* The processor belongs to level l: nothing above it is in the middle of a
\* push, and the failed assertion has not stopped the program.
Runs(l) ==
  /\ thread # "halted"
  /\ \A h \in Level : h > l => ~Pushing(h)

\* Without preemption the device callbacks run one by one inside arch_idle().
MayStart(l) ==
  \/ l = 0
  \/ Preemptive
  \/ thread = "idle" /\ \A h \in Level : ~Pushing(h)

\* What level l may push now.
Pushable(l) ==
  IF l > 0 THEN Sources[l]
  ELSE IF thread = "boot" THEN {BootEvent}
  ELSE IF thread = "dispatch" /\ cur.ev # NoEvent THEN Response[cur.ev]
  ELSE {}

\* evq_push() up to arch_irq_disable(): look at the room.
PushBegin(l, e) ==
  /\ Runs(l)
  /\ MayStart(l)
  /\ ~Pushing(l)
  /\ e \in Pushable(l)
  /\ pend' = [pend EXCEPT ![l] = [ev |-> e, room |-> Room]]
  /\ usedMax' = IF Used > usedMax THEN Used ELSE usedMax
  /\ UNCHANGED <<data, head, tail, xruns, thread, cur>>

\* The bytes of event e, written from index h on.
Written(d, h, e) ==
  [i \in Idx |-> IF Dist(h, i) < evSize[e] THEN <<e, Dist(h, i)>> ELSE d[i]]

\* The locked rest of evq_push(): write the event or count it as lost.
PushCommit(l) ==
  /\ Runs(l)
  /\ Pushing(l)
  /\ IF pend[l].room >= evSize[pend[l].ev]
       THEN /\ data' = Written(data, head, pend[l].ev)
            /\ head' = Adv(head, evSize[pend[l].ev])
            /\ xruns' = xruns
       ELSE /\ xruns' = IF xruns < MaxXruns THEN xruns + 1 ELSE xruns
            /\ UNCHANGED <<data, head>>
  /\ pend' = [pend EXCEPT ![l] = None]
  /\ thread' = IF l = 0 /\ thread = "boot" THEN "wait" ELSE thread
  /\ UNCHANGED <<tail, usedMax, cur>>

-----------------------------------------------------------------------------
(* Waiting, popping and dispatching: evq_wait().                           *)

ThreadRuns == \A h \in Level : ~Pushing(h)

\* head == tail: go to arch_idle() and look again when it returns.
IdleEnter ==
  /\ ThreadRuns
  /\ thread = "wait"
  /\ head = tail
  /\ thread' = "idle"
  /\ UNCHANGED <<data, head, tail, xruns, usedMax, pend, cur>>

IdleReturn ==
  /\ ThreadRuns
  /\ thread = "idle"
  /\ thread' = "wait"
  /\ UNCHANGED <<data, head, tail, xruns, usedMax, pend, cur>>

\* Does the byte at index p say which event starts there?
IsType(p) == data[p][1] # NoEvent /\ data[p][2] = 0

\* Are the bytes of ring d from index p on those of event e?
Whole(d, p, e) == \A i \in Idx : Dist(p, i) < evSize[e] => d[i] = <<e, Dist(p, i)>>

\* evq_pop(): read a type byte, then as many bytes as the type says.  A byte that
\* is not a type (nearly every payload byte) fails the assertion of ev_size().
EvqPop ==
  /\ ThreadRuns
  /\ thread = "wait"
  /\ head # tail
  /\ IF IsType(tail)
       THEN LET e == data[tail][1]
            IN  /\ tail' = Adv(tail, evSize[e])
                /\ cur' = [ev |-> e, intact |-> Whole(data, tail, e)]
                /\ thread' = "dispatch"
       ELSE /\ tail' = Adv(tail, 1)
            /\ thread' = "halted"
            /\ cur' = cur
  /\ UNCHANGED <<data, head, xruns, usedMax, pend>>

\* Every handler has run, each of which may have pushed.
DispatchEnd ==
  /\ ThreadRuns
  /\ thread = "dispatch"
  /\ thread' = "wait"
  /\ cur' = [ev |-> NoEvent, intact |-> TRUE]
  /\ UNCHANGED <<data, head, tail, xruns, usedMax, pend>>

Next ==
  \/ \E l \in Level, e \in Event : PushBegin(l, e)
  \/ \E l \in Level : PushCommit(l)
  \/ IdleEnter
  \/ IdleReturn
  \/ EvqPop
  \/ DispatchEnd

Spec == Init /\ [][Next]_vars

\* The main loop is never starved: its own steps go on, and so does a push
\* already begun.  The handlers of an event return, however often they push.
\* arch_idle() returns however many callbacks it runs: the tick wakes the
\* processor, and mainloop_poll() makes one pass over its handlers.
Fairness ==
  /\ \A l \in Level : WF_vars(PushCommit(l))
  /\ WF_vars(IdleEnter)
  /\ SF_vars(IdleReturn)
  /\ WF_vars(EvqPop)
  /\ SF_vars(DispatchEnd)

FairSpec == Spec /\ Fairness

-----------------------------------------------------------------------------
(* Properties.                                                             *)

\* The assertion of ev_size(), evq.c:67, never fails, and an event reaches its
\* handlers with the payload that was pushed.
NoUnknownEvent == thread # "halted" /\ cur.intact

\* Index i lies between tail and head.
Queued(i) == Dist(tail, i) < Used

\* The queued bytes are whole events laid end to end: the tail is on a type byte,
\* and all the bytes of an event whose type byte is queued are queued behind it,
\* up to the head or the type byte of the next event.
Framed ==
  /\ head # tail => data[tail][2] = 0
  /\ \A i \in Idx :
       (Queued(i) /\ data[i][2] = 0) =>
         /\ data[i][1] \in Event
         /\ Dist(tail, i) + evSize[data[i][1]] <= Used
         /\ Whole(data, i, data[i][1])
         /\ LET next == Adv(i, evSize[data[i][1]])
            IN  next # head => data[next][2] = 0

\* A step never changes a byte that was queued before it and is queued after it,
\* nor takes the room back: the queue only loses bytes at its tail.
QueuedBytesKept ==
  [][\A i \in Idx : Queued(i) =>
        \/ Queued(i)' /\ data'[i] = data[i]
        \/ tail' # tail /\ Dist(tail, i) < Dist(tail, tail')]_vars

\* An event the queue accepted is dispatched in the end.
EventuallyDispatched ==
  \A e \in Event :
    (\E i \in Idx : Queued(i) /\ data[i] = <<e, 0>>) ~> (cur.ev = e)

-----------------------------------------------------------------------------
(* What the queue promises.                                                *)

\* The events of the m bytes of ring d from index p on: one for each type byte.
EventsOf(d, p, m) ==
  LET events[n \in 0 .. m] ==
        IF n = 0 THEN <<>>
        ELSE LET i == Adv(p, n - 1)
             IN  IF d[i][2] = 0 THEN Append(events[n - 1], d[i][1]) ELSE events[n - 1]
  IN  events[m]

\* The events in the ring, in the order they will be popped.
QueuedEvents == EventsOf(data, tail, Used)

Fifo == INSTANCE EventFifo WITH
  Capacity <- Size - 1, MaxLost <- MaxXruns,
  queue <- QueuedEvents, lost <- xruns, handling <- cur.ev

\* The ring of evq.c is a bounded FIFO of whole events: nothing is reordered,
\* duplicated, torn or lost but what does not fit.
ImplementsFifo == Fifo!FifoSpec

=============================================================================
