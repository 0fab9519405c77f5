----------------------------- MODULE EventFifo ------------------------------
(***************************************************************************)
(* What the event queue promises its users (src/arm/bios/evq.h): a bounded *)
(* first-in first-out queue of whole events.  An event that fits is        *)
(* appended, one that does not fit is counted as lost and changes nothing  *)
(* else, and the main loop handles the events one at a time in order.      *)
(***************************************************************************)
EXTENDS Integers, Sequences

CONSTANTS
  Capacity,  \* bytes of queued events at most
  Event,     \* the events that occur
  evSize,    \* bytes of each event
  MaxLost,   \* bound on the count of lost events, which saturates
  NoEvent    \* the main loop is handling no event

VARIABLES
  queue,     \* the events accepted and not yet handled
  lost,      \* how many events were refused
  handling   \* the event the main loop is handling

fifoVars == <<queue, lost, handling>>

\* The bytes that the events of q take up.
Bytes(q) ==
  LET sum[n \in 0 .. Len(q)] == IF n = 0 THEN 0 ELSE sum[n - 1] + evSize[q[n]]
  IN  sum[Len(q)]

FifoInit == queue = <<>> /\ lost = 0 /\ handling = NoEvent

Accept(e) ==
  /\ Bytes(queue) + evSize[e] <= Capacity
  /\ queue' = Append(queue, e)
  /\ UNCHANGED <<lost, handling>>

Refuse(e) ==
  /\ Bytes(queue) + evSize[e] > Capacity
  /\ lost < MaxLost
  /\ lost' = lost + 1
  /\ UNCHANGED <<queue, handling>>

Handle ==
  /\ handling = NoEvent
  /\ queue # <<>>
  /\ handling' = Head(queue)
  /\ queue' = Tail(queue)
  /\ lost' = lost

Handled ==
  /\ handling # NoEvent
  /\ handling' = NoEvent
  /\ UNCHANGED <<queue, lost>>

FifoNext == (\E e \in Event : Accept(e) \/ Refuse(e)) \/ Handle \/ Handled

FifoSpec == FifoInit /\ [][FifoNext]_fifoVars

=============================================================================
