-------------------------- MODULE NmeaAddressClaim --------------------------
(***************************************************************************)
(* The NMEA 2000 module of the BCI application,                            *)
(* src/arm/app/bci/modules/nmea2000/nmea2000.c: how the controllers on one *)
(* CAN bus come to different addresses.  Each claims the address it wants; *)
(* who hears a claim for its own address from a lower NAME loses it and    *)
(* tries the next one, who hears one from a higher NAME claims again.      *)
(*                                                                         *)
(* A node runs nsm_poll() on its 10 Hz tick and fn_recv() on every frame,  *)
(* both in its main loop.  Frames are broadcast in one order and wait in   *)
(* the inbox of a node until its main loop comes to them; the ticks of the *)
(* nodes are not in step.  The bus, with its transmit and receive queues,  *)
(* loses nothing here.  The periodic data and the product information are  *)
(* left out: no node acts on them.                                         *)
(***************************************************************************)
EXTENDS Integers, Sequences

CONSTANTS
  Node,         \* the controllers on the bus
  name,         \* name[n]: the NAME of n; the lower one wins
  Last,         \* the last address that can be claimed, 252
  RandomDelay,  \* ticks of nsm_start_random_delay(), 2
  ClaimDelay,   \* ticks of nsm_start_250ms_delay(), 3
  Preferred,    \* the addresses that nodes find in their memory at first
  InboxMax      \* bound on the frames a node has yet to handle

ASSUME NameAssumption ==
  /\ name \in [Node -> Nat \ {0}]
  /\ \A m, n \in Node : name[m] = name[n] => m = n
ASSUME AddressAssumption == Last \in Nat \ {0} /\ Preferred \subseteq Nat
ASSUME DelayAssumption ==
  RandomDelay \in Nat \ {0} /\ ClaimDelay \in Nat \ {0} /\ InboxMax \in Nat \ {0}

VARIABLES
  nsm,    \* the state machine of each node
  saved,  \* the address each node has in its configuration memory
  inbox,  \* the claims each node has yet to handle, oldest first
  quiet,  \* history: ticks since the node claimed or heard a claim for its address
  heard   \* history: the address of the claim whose name is in nsm[n].recv

vars == <<nsm, saved, inbox, quiet, heard>>

Address == 0 .. Last
Claim   == [src : Address, name : {name[n] : n \in Node}]
NoName  == 0

\* The numbers of enum nsm_state.  DelayComplete is delay = 0.
Machine ==
  [state : 0 .. 9, delay : Nat, win : BOOLEAN, lose : BOOLEAN, request : BOOLEAN,
   recv : {NoName} \cup {name[n] : n \in Node}, address : Address]

TypeOK ==
  /\ nsm \in [Node -> Machine]
  /\ saved \in [Node -> Nat]
  /\ inbox \in [Node -> Seq(Claim)]
  /\ \A n \in Node : Len(inbox[n]) <= InboxMax
  /\ quiet \in [Node -> 0 .. ClaimDelay]
  /\ heard \in [Node -> Address]

-----------------------------------------------------------------------------
\* fn_init() on the statics m of a node, with address a in its memory.
Initialised(m, a) ==
  [m EXCEPT !.state = 0, !.delay = 0, !.address = IF a >= Last THEN 1 ELSE a]

ZeroStatics ==
  [state |-> 0, delay |-> 0, win |-> FALSE, lose |-> FALSE, request |-> FALSE,
   recv |-> NoName, address |-> 0]

Init ==
  /\ saved \in [Node -> Preferred]
  /\ nsm = [n \in Node |-> Initialised(ZeroStatics, saved[n])]
  /\ inbox = [n \in Node |-> <<>>]
  /\ quiet = [n \in Node |-> 0]
  /\ heard = [n \in Node |-> 0]

-----------------------------------------------------------------------------
(* What nsm_poll() is made of.                                             *)

\* fn_timer() counts the delay down before it calls nsm_poll().
Ticked(n) == [nsm[n] EXCEPT !.delay = IF @ > 0 THEN @ - 1 ELSE 0]

\* A faulty variant of Processed: the higher NAME wins.
ProcessedSwapped(m, mine) ==
  [m EXCEPT !.lose = m.recv # NoName /\ (m.recv > mine \/ @),
            !.win  = m.recv # NoName /\ (~(m.recv > mine) \/ @),
            !.recv = NoName]

\* nsm_rx_can_frame_process().
Processed(m, mine) ==
  [m EXCEPT !.lose = m.recv # NoName /\ (m.recv < mine \/ @),
            !.win  = m.recv # NoName /\ (~(m.recv < mine) \/ @),
            !.recv = NoName]

\* Node n's machine becomes m, without a frame.
Becomes(n, m) ==
  /\ nsm' = [nsm EXCEPT ![n] = m]
  /\ quiet' = [quiet EXCEPT ![n] = IF @ < ClaimDelay THEN @ + 1 ELSE @]
  /\ UNCHANGED <<inbox, heard>>

\* Node n's machine becomes m, and nsm_transmit_address_claim() sends a claim.  The
\* frame is sent from nsm.address, whichever address is asked for.
Transmits(n, m) ==
  /\ \A other \in Node \ {n} : Len(inbox[other]) < InboxMax
  /\ nsm' = [nsm EXCEPT ![n] = m]
  /\ inbox' = [other \in Node |->
                IF other = n THEN inbox[n]
                ELSE Append(inbox[other], [src |-> nsm[n].address, name |-> name[n]])]
  /\ quiet' = [quiet EXCEPT ![n] = 0]
  /\ UNCHANGED heard

\* got_address().
GotAddress(n) == saved' = [saved EXCEPT ![n] = nsm[n].address]

-----------------------------------------------------------------------------
(* Faulty variants of definitions below, each a slip that some property of *)
(* this module has to notice.                                              *)

\* The claim is sent, but the delay not started.
TransmitClaimOnly(n) ==
  /\ nsm[n].state = 2
  /\ Transmits(n, [nsm[n] EXCEPT !.state = 3])
  /\ UNCHANGED saved

\* No end to the addresses.
FetchNextPast(n) ==
  /\ nsm[n].state = 4
  /\ Becomes(n, [Ticked(n) EXCEPT !.state = 2, !.address = @ + 1])
  /\ UNCHANGED saved

\* An owner that wins does not claim again.
OwnSilent(n) ==
  LET m == Processed(Ticked(n), name[n])
  IN  /\ nsm[n].state = 5
      /\ Becomes(n, IF m.lose THEN [m EXCEPT !.state = 4] ELSE m)
      /\ UNCHANGED saved

-----------------------------------------------------------------------------
(* nsm_poll(), one action per state.                                       *)

Idle(n) ==
  /\ nsm[n].state = 0
  /\ Becomes(n, [nsm[n] EXCEPT !.state = 1, !.delay = RandomDelay])
  /\ UNCHANGED saved

\* STATE_1 and STATE_6: go on when the delay is over.
WaitDelay(n) ==
  /\ nsm[n].state \in {1, 6}
  /\ Becomes(n, [Ticked(n) EXCEPT !.state = IF Ticked(n).delay = 0 THEN @ + 1 ELSE @])
  /\ UNCHANGED saved

TransmitClaim(n) ==
  /\ nsm[n].state = 2
  /\ Transmits(n, [nsm[n] EXCEPT !.state = 3, !.delay = ClaimDelay])
  /\ UNCHANGED saved

\* STATE_3: listen for claims until the delay is over.
Contend(n) ==
  LET m == Processed(Ticked(n), name[n])
  IN  /\ nsm[n].state = 3
      /\ Becomes(n, [m EXCEPT !.state = IF m.lose THEN 4
                                        ELSE IF m.win THEN 2
                                        ELSE IF m.delay = 0 THEN 5 ELSE 3])
      /\ IF nsm'[n].state = 5 THEN GotAddress(n) ELSE UNCHANGED saved

FetchNext(n) ==
  /\ nsm[n].state = 4
  /\ Becomes(n, IF nsm[n].address < Last
                THEN [Ticked(n) EXCEPT !.state = 2, !.address = @ + 1]
                ELSE [Ticked(n) EXCEPT !.state = 6, !.delay = RandomDelay])
  /\ UNCHANGED saved

\* STATE_5: the address is ours, until a lower NAME claims it.
Own(n) ==
  LET m == Processed(Ticked(n), name[n])
  IN  /\ nsm[n].state = 5
      /\ Becomes(n,
           IF m.lose THEN [m EXCEPT !.state = 4]
           ELSE IF m.win THEN [m EXCEPT !.state = 9]
           ELSE IF m.request THEN [m EXCEPT !.state = 9, !.request = FALSE]
           ELSE m)
      /\ UNCHANGED saved

\* STATE_7: "cannot claim", meant to be sent from the null address 254.
TransmitCannot(n) ==
  /\ nsm[n].state = 7
  /\ Transmits(n, [Ticked(n) EXCEPT !.state = 8])
  /\ UNCHANGED saved

\* STATE_8: only a request gets an answer.
Without(n) ==
  /\ nsm[n].state = 8
  /\ Becomes(n, IF nsm[n].request
                THEN [Ticked(n) EXCEPT !.state = 6, !.delay = RandomDelay,
                                       !.request = FALSE]
                ELSE Ticked(n))
  /\ UNCHANGED saved

\* STATE_9: claim again what is ours.
Reclaim(n) ==
  /\ nsm[n].state = 9
  /\ Transmits(n, [Ticked(n) EXCEPT !.state = 5])
  /\ GotAddress(n)

NsmPoll(n) ==
  \/ Idle(n) \/ WaitDelay(n) \/ TransmitClaim(n) \/ Contend(n) \/ FetchNext(n)
  \/ Own(n) \/ TransmitCannot(n) \/ Without(n) \/ Reclaim(n)

-----------------------------------------------------------------------------
\* fn_recv() of an address claim: remember the name, the last one only.
RecvClaim(n) ==
  /\ inbox[n] # <<>>
  /\ inbox' = [inbox EXCEPT ![n] = Tail(@)]
  /\ LET f == Head(inbox[n])
     IN  IF f.src = nsm[n].address
           THEN /\ nsm' = [nsm EXCEPT ![n].recv = f.name]
                /\ quiet' = [quiet EXCEPT ![n] = 0]
                /\ heard' = [heard EXCEPT ![n] = f.src]
           ELSE UNCHANGED <<nsm, quiet, heard>>
  /\ UNCHANGED saved

\* fn_recv() of an ISO request for the address claim, from some other device.
RecvRequest(n) ==
  /\ nsm' = [nsm EXCEPT ![n].request = TRUE]
  /\ UNCHANGED <<saved, inbox, quiet, heard>>

\* The module is stopped and started: fn_init() again, on the statics as they are.
\* The frames that came in between have not been handed to it.
ModuleRestart(n) ==
  /\ nsm' = [nsm EXCEPT ![n] = Initialised(@, saved[n])]
  /\ \E missed \in 0 .. Len(inbox[n]) :
       inbox' = [inbox EXCEPT ![n] = SubSeq(@, missed + 1, Len(@))]
  /\ UNCHANGED <<saved, quiet, heard>>

\* The device reboots.
Reboot(n) ==
  /\ nsm' = [nsm EXCEPT ![n] = Initialised(ZeroStatics, saved[n])]
  /\ inbox' = [inbox EXCEPT ![n] = <<>>]
  /\ UNCHANGED <<saved, quiet, heard>>

Next ==
  \E n \in Node :
    NsmPoll(n) \/ RecvClaim(n) \/ RecvRequest(n) \/ ModuleRestart(n) \/ Reboot(n)

Spec == Init /\ [][Next]_vars

\* The 10 Hz tick and the receive events of a node go on.
Fairness ==
  /\ \A n \in Node : WF_vars(NsmPoll(n))
  /\ \A n \in Node : WF_vars(RecvClaim(n))

FairSpec == Spec /\ Fairness

-----------------------------------------------------------------------------
(* Properties.                                                             *)

\* A node takes an address only after ClaimDelay ticks in which nobody else was heard
\* to claim it; only such an address gets into its memory.
ClaimedUnchallenged ==
  [][\A n \in Node :
       (nsm[n].state # 5 /\ nsm'[n].state = 5)
          => nsm[n].state = 9 \/ (quiet'[n] = ClaimDelay /\ nsm[n].recv = NoName)]_vars

\* An address that is ours is given up only to a lower NAME that claimed this very
\* address, whatever was heard before, under other addresses.
OwnerYieldsToLower ==
  [][\A n \in Node :
       (nsm[n].state = 5 /\ nsm'[n].state = 4)
          => nsm[n].recv \in 1 .. name[n] - 1 /\ heard[n] = nsm[n].address]_vars

\* Two nodes that have taken the same address will find out: one has heard or is going
\* to hear a claim for it, or is about to claim it again.
Owner(n) == nsm[n].state \in {5, 9}
Alarmed(n) ==
  \/ nsm[n].state = 9
  \/ nsm[n].recv # NoName
  \/ \E i \in 1 .. Len(inbox[n]) : inbox[n][i].src = nsm[n].address
ConflictIsNoticed ==
  \A m, n \in Node :
    (m # n /\ Owner(m) /\ Owner(n) /\ nsm[m].address = nsm[n].address)
       => Alarmed(m) \/ Alarmed(n)

\* When nobody restarts any more, no address has two owners in the end.
Conflict ==
  \E m, n \in Node :
    m # n /\ Owner(m) /\ Owner(n) /\ nsm[m].address = nsm[n].address
RestartStep == \E n \in Node : ModuleRestart(n) \/ Reboot(n)
ConflictsEnd == <>[][~RestartStep]_vars => <>[]~Conflict

\* "I lose", nmea2000.c:247: the name just heard is lower than ours.
LosesToLower ==
  [][\A n \in Node :
       (nsm[n].state = 3 /\ nsm'[n].state = 4) => nsm[n].recv < name[n]]_vars

=============================================================================
