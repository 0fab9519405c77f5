------------------------------ MODULE Mainloop ------------------------------
(***************************************************************************)
(* The event loop of the Linux build, src/arm/arch/linux/mainloop.c: one   *)
(* select() over the registered descriptors with the next timer as its     *)
(* timeout, then the handlers of what is ready, then the timers that have  *)
(* expired, then the removal of what was marked.  With it the users it     *)
(* has: the periodic timers of arch.c, a CAN socket, and the HTTP server,  *)
(* whose handlers add and delete descriptors while the list is walked.     *)
(*                                                                         *)
(* Times are relative to the clock: when it goes on, every time goes down. *)
(* Signals are not modelled, nothing registers one.                        *)
(***************************************************************************)
EXTENDS Integers, SequencesExt

CONSTANTS
  Timer,    \* the periodic timers
  ival,     \* the interval of each
  Client,   \* the client objects there is memory for
  Server,   \* the listening socket's object
  Bus,      \* the CAN device
  Fd,       \* the descriptors the process may have open
  NoFd,     \* no descriptor
  MaxLate   \* bound on how far the clock gets beyond a time not yet dealt with

ASSUME TimerAssumption ==
  /\ IsFiniteSet(Timer)
  /\ ival \in [Timer -> Nat \ {0}]
  /\ \A t, u \in Timer : ival[t] = ival[u] => t = u
ASSUME UserAssumption ==
  /\ Server # Bus /\ {Server, Bus} \cap Client = {}
  /\ Fd \subseteq Nat /\ {0, 1} \subseteq Fd /\ NoFd \notin Fd
  /\ MaxLate \in Nat

VARIABLES
  phase,    \* where mainloop_poll() is
  timers,   \* mainloop_timer_list: id, due, remove
  now,      \* the time the timers are compared with
  fds,      \* mainloop_fd_list: fd, user, remove
  left,     \* how many entries, at the end of fds, are still to be visited
  ready,    \* the descriptors select() found ready
  sock,     \* the descriptor of each client object
  input,    \* whose descriptors there is something to read from
  since     \* time since each timer was called, up to its interval

vars == <<phase, timers, now, fds, left, ready, sock, input, since>>
timerVars == <<timers, now, since>>
fdVars    == <<fds, left, ready, sock, input>>

User  == Client \cup {Server, Bus}
Entry == [id : Timer, due : Int, remove : BOOLEAN]
FdEntry == [fd : Fd, user : User, remove : BOOLEAN]

-----------------------------------------------------------------------------
(* Faulty variants of definitions below, each a slip that some property of *)
(* this module has to notice.                                              *)

\* The timer is inserted at the front, or at the back.
InsertedFirst(list, e) == <<e>> \o list
InsertedLast(list, e) == Append(list, e)

\* The next expiry is counted from the last one, not from now.
NextDueFromLast(t) == Head(timers).due + ival[t]

\* A descriptor that is marked for removal still counts as registered.
RegisteredMarkedToo(list, fd) == \E i \in DOMAIN list : list[i].fd = fd

-----------------------------------------------------------------------------
(* The list of timers. *)

\* mainloop_timer_del()
TimerMarked(list, t) ==
  [i \in DOMAIN list |->
    [list[i] EXCEPT !.remove = @ \/ list[i].id = t]]

\* The sorted insertion of mainloop_timer_add(): behind the timers before the
\* first one that is not sooner.
Inserted(list, e) ==
  LET k == CHOOSE k \in 0 .. Len(list) :
             /\ \A i \in 1 .. k : list[i].due < e.due
             /\ k < Len(list) => ~(list[k + 1].due < e.due)
  IN  InsertAt(list, k + 1, e)

NextDue(t) == ival[t]

\* mainloop_timer_add()
TimerAdded(list, t) ==
  Inserted(TimerMarked(list, t), [id |-> t, due |-> NextDue(t), remove |-> FALSE])

Expired == timers # <<>> /\ Head(timers).due < now

-----------------------------------------------------------------------------
(* The list of descriptors. *)

Registered(list, fd) == \E i \in DOMAIN list : list[i].fd = fd /\ ~list[i].remove

\* mainloop_fd_add(): a descriptor is not listed twice.
FdAdded(list, fd, u) ==
  IF Registered(list, fd) THEN list
  ELSE << [fd |-> fd, user |-> u, remove |-> FALSE] >> \o list

\* mainloop_fd_del()
FdMarked(list, fd, u) ==
  [i \in DOMAIN list |->
    [list[i] EXCEPT !.remove = @ \/ (list[i].fd = fd /\ list[i].user = u)]]

\* What is marked for removal goes.
Kept(list) ==
  LET kept[n \in 0 .. Len(list)] ==
        IF n = 0 THEN <<>>
        ELSE IF list[n].remove THEN kept[n - 1] ELSE Append(kept[n - 1], list[n])
  IN  kept[Len(list)]

-----------------------------------------------------------------------------
(* mainloop_poll() *)

Readable == {fds[i].fd : i \in {j \in DOMAIN fds : ~fds[j].remove /\ fds[j].user \in input}}

\* select() returns when something can be read, or when it is time for the
\* first timer.
Select ==
  /\ phase = "select"
  /\ Readable # {} \/ (timers # <<>> /\ Head(timers).due <= 0)
  /\ phase' = "fds"
  /\ ready' = Readable
  /\ left' = IF Readable = {} THEN 0 ELSE Len(fds)
  /\ UNCHANGED <<timers, now, fds, sock, input, since>>

\* The entry LIST_FOREACH is at: entries are only added before it.
Current == fds[Len(fds) - left + 1]

Visiting == phase = "fds" /\ left > 0

Called(u) == Visiting /\ Current.user = u /\ ~Current.remove /\ Current.fd \in ready

Skip ==
  /\ Visiting /\ (Current.remove \/ Current.fd \notin ready)
  /\ left' = left - 1
  /\ UNCHANGED <<phase, timers, now, fds, ready, sock, input, since>>

\* on_read_can() of can-linux.c: a frame is read, there may be more.
ReadBus ==
  /\ Called(Bus)
  /\ left' = left - 1
  /\ input' \in {input, input \ {Bus}}
  /\ UNCHANGED <<phase, timers, now, fds, ready, sock, since>>

Free(c) == sock[c] = NoFd
Unused  == Fd \ ({0, 1} \cup {sock[c] : c \in Client})

\* on_read_server() of httpd.c: a connection gets the lowest free descriptor.
\* Without memory or a descriptor for it, it keeps waiting.
ReadServer ==
  /\ Called(Server)
  /\ left' = left - 1
  /\ IF Unused = {} \/ ~\E c \in Client : Free(c)
     THEN UNCHANGED <<fds, sock, input>>
     ELSE \E c \in Client, fd \in Unused :
            /\ Free(c) /\ \A g \in Unused : fd <= g
            /\ sock' = [sock EXCEPT ![c] = fd]
            /\ fds' = FdAdded(fds, fd, c)
            /\ input' \in {input, input \ {Server}}
  /\ UNCHANGED <<phase, timers, now, ready, since>>

\* on_read_client() of httpd.c: the request is answered and the connection
\* closed, which frees its descriptor at once, or it is not complete yet.
ReadClient(c) ==
  /\ Called(c)
  /\ left' = left - 1
  /\ input' = input \ {c}
  /\ \/ UNCHANGED <<fds, sock>>
     \/ /\ fds' = FdMarked(fds, sock[c], c)
        /\ sock' = [sock EXCEPT ![c] = NoFd]
  /\ UNCHANGED <<phase, timers, now, ready, since>>

StartTimers ==
  /\ phase = "fds" /\ left = 0
  /\ phase' = "timers" /\ now' = 0
  /\ UNCHANGED <<timers, since, fdVars>>

\* The timer at the head has expired: its handler pushes a tick and returns
\* nonzero, so it is added again; what is at the head then is freed.
Expire ==
  /\ phase = "timers" /\ Expired
  /\ LET e == Head(timers)
     IN  IF e.remove THEN timers' = Tail(timers) /\ UNCHANGED since
         ELSE /\ timers' = Tail(TimerAdded(timers, e.id))
              /\ since' = [since EXCEPT ![e.id] = 0]
  /\ UNCHANGED <<phase, now, fdVars>>

\* The rest of mainloop_poll() removes what is marked.
EndPoll ==
  /\ phase = "timers" /\ ~Expired
  /\ phase' = "select"
  /\ timers' = Kept(timers) /\ fds' = Kept(fds)
  /\ now' = 0 /\ ready' = {}
  /\ UNCHANGED <<left, sock, input, since>>

-----------------------------------------------------------------------------
(* The clock, and the other ends of the sockets. *)

Shifted(d) ==
  /\ timers' = [i \in DOMAIN timers |-> [timers[i] EXCEPT !.due = @ - d]]
  /\ now' = IF phase = "timers" THEN now - d ELSE now

Advance ==
  /\ \A i \in DOMAIN timers : timers[i].due > -MaxLate
  /\ now > -MaxLate
  /\ Shifted(1)
  /\ since' = [t \in Timer |-> IF since[t] < ival[t] THEN since[t] + 1 ELSE since[t]]
  /\ UNCHANGED <<phase, fdVars>>

\* Somebody sets the clock back, which is what gettimeofday() reads.
SetBack(d) ==
  /\ Shifted(-d)
  /\ UNCHANGED <<phase, since, fdVars>>

\* A frame, a connection, a request or the end of one arrives.
Arrive(u) ==
  /\ u \notin input
  /\ u \in Client => ~Free(u)
  /\ input' = input \cup {u}
  /\ UNCHANGED <<phase, fds, left, ready, sock, timerVars>>

-----------------------------------------------------------------------------
(* arch_init() adds the timers, and they are in the list by when they are  *)
(* due.                                                                    *)
NewTimer == {[id |-> t, due |-> ival[t], remove |-> FALSE] : t \in Timer}

Init ==
  /\ phase = "select" /\ now = 0
  /\ timers \in [1 .. Cardinality(Timer) -> NewTimer]
  /\ \A i, j \in DOMAIN timers : i < j => timers[i].due < timers[j].due
  /\ \A t \in Timer : \E i \in DOMAIN timers : timers[i].id = t
  /\ fds = << [fd |-> 1, user |-> Server, remove |-> FALSE],
              [fd |-> 0, user |-> Bus, remove |-> FALSE] >>
  /\ left = 0 /\ ready = {}
  /\ sock = [c \in Client |-> NoFd]
  /\ input = {}
  /\ since = [t \in Timer |-> 0]

PollStep ==
  \/ Select \/ Skip \/ ReadBus \/ ReadServer
  \/ \E c \in Client : ReadClient(c)
  \/ StartTimers \/ Expire \/ EndPoll

Next == PollStep \/ Advance \/ \E u \in User : Arrive(u)

Spec == Init /\ [][Next]_vars

\* The loop goes on, and so does time.
FairSpec == Spec /\ WF_vars(PollStep) /\ WF_vars(Advance)

\* The clock may be set back by as much as the longest interval and one.
SetClockSpec == Init /\ [][Next \/ \E t \in Timer : SetBack(ival[t] + 1)]_vars

-----------------------------------------------------------------------------
(* Properties. *)

\* Every variable has its type, and the times are in order.
TypeOK ==
  /\ phase \in {"select", "fds", "timers"}
  /\ timers \in Seq(Entry) /\ now \in Int
  /\ \A i, j \in DOMAIN timers : i < j => timers[i].due <= timers[j].due
  /\ fds \in Seq(FdEntry) /\ left \in 0 .. Len(fds) /\ ready \subseteq Fd
  /\ sock \in [Client -> Fd \cup {NoFd}] /\ input \subseteq User
  /\ since \in [Timer -> Nat] /\ \A t \in Timer : since[t] <= ival[t]

Live(t, i) == timers[i].id = t /\ ~timers[i].remove

\* A periodic timer is in the list exactly once and not marked for removal,
\* through the poll that calls it, reschedules it and frees an entry.
TimersKept ==
  \A t \in Timer : \E i \in DOMAIN timers :
    /\ Live(t, i)
    /\ \A j \in DOMAIN timers : Live(t, j) => j = i

\* The list has an unmarked entry for each open connection, for its client, one
\* entry for a descriptor and none for a closed one: also when a descriptor that
\* was closed in this walk has been given to a new connection.
ConnectionsRegistered ==
  LET Unmarked == {i \in DOMAIN fds : ~fds[i].remove}
  IN  /\ \A c \in Client : ~Free(c) =>
           \E i \in Unmarked : fds[i].fd = sock[c] /\ fds[i].user = c
      /\ \A i \in Unmarked : fds[i].user \in Client => fds[i].fd = sock[fds[i].user]
      /\ \A i, j \in Unmarked : fds[i].fd = fds[j].fd => i = j

\* However late the loop gets around to it, a timer is not called again before
\* its interval has passed: a slow handler is not followed by a burst of ticks.
TicksSpaced ==
  [][\A t \in Timer : Expire /\ since'[t] = 0 /\ Head(timers).id = t /\ ~Head(timers).remove
       => since[t] >= ival[t]]_vars

\* A client that has sent something is read, although the descriptor it has
\* may be one that was closed in the same walk over the list.
ClientsServed == \A c \in Client : c \in input ~> c \notin input
=============================================================================
