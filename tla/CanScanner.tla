----------------------------- MODULE CanScanner -----------------------------
(***************************************************************************)
(* The battery scanner of the BCI application, app/bci/can-scanner.c, on   *)
(* its SDO client, app/bci/sdo-client.c.                                   *)
(*                                                                         *)
(* A full scan asks every node of a range for its device type; the polling *)
(* then reads a list of objects from every battery found, over and over.   *)
(* Both use the same few SDO channels, the same callback and the same      *)
(* state of the battery, so an answer does not say which of the two it     *)
(* belongs to.                                                             *)
(*                                                                         *)
(* Everything runs in the main loop, one handler after another.  The loop  *)
(* of on_tick_poll() over the batteries is taken one battery at a time,    *)
(* with nothing else in between: loop is its index, 0 outside of it.       *)
(*                                                                         *)
(* Of the CANopen stack, lib/canopen/canopen.c, there is what the scanner  *)
(* uses: a channel carries one request, ends it by an answer, an abort or  *)
(* a time-out, and calls back once; and a frame goes to the first channel  *)
(* connected to the node that sent it.  A node may answer, abort or stay   *)
(* silent, at any time after it was asked, also after the request has      *)
(* timed out.                                                              *)
(***************************************************************************)
EXTENDS Integers, FiniteSets

CONSTANTS
  NodeMax,    \* BATT_ID_MAX: node ids are 1 .. NodeMax
  Own,        \* our own node id
  Channels,   \* SDO client channels: 1 .. Channels
  PollCount,  \* POLL_INFO_COUNT, objects read in a poll round
  Backoff,    \* ticks without action after a failed scan request
  Ranges,     \* the ranges that full scans are asked for
  LateMax,    \* bound on the requests that nodes have yet to answer
  PauseMax    \* bound on the pause counter

ASSUME NodeAssumption == NodeMax \in Nat \ {0} /\ Own \in 1 .. NodeMax
ASSUME BoundAssumption ==
  /\ Channels \in Nat \ {0}
  /\ PollCount \in Nat \ {0}
  /\ Backoff \in Nat
  /\ Ranges \subseteq (1 .. NodeMax) \X (1 .. NodeMax)
  /\ LateMax \in Nat
  /\ PauseMax \in Nat

VARIABLES
  mode,     \* scanner->state
  pause,    \* scanner->pause
  scan,     \* scanner->scan: first and last node id, and the next to ask
  backoff,  \* ticks left to skip
  loop,     \* index of the loop of on_tick_poll()
  state,    \* state[n]: the state of battery n
  busy,     \* busy[n]: batt->poll.busy
  item,     \* item[n]: batt->poll.item, the next object to read
  hold,     \* hold[n]: the time batt->poll.t_next is yet to come
  chan,     \* chan[c]: the node channel c is connected to, what it asked for
  asked,    \* requests on the bus that their node has yet to answer
  saved,    \* the battery list in the configuration memory
  got,      \* history: the objects whose data came since the battery became TESTING
  alone     \* history: nothing else was outstanding when it became TESTING

vars == <<mode, pause, scan, backoff, loop, state, busy, item, hold, chan,
          asked, saved, got, alone>>
pollVars == <<mode, pause, scan, backoff, saved>>

Node    == 1 .. NodeMax
Channel == 1 .. Channels
States  == {"unknown", "scanning", "unavailable", "testing", "available", "missing"}
Polled  == {"testing", "available", "missing"}

\* The objects asked for: item number k of the poll list, or the device type.
DeviceType == PollCount
Objects    == 0 .. PollCount
Idle       == PollCount + 1   \* SDO_READY: the channel has no request

TypeOK ==
  /\ mode \in {"poll", "scan"}
  /\ pause \in 0 .. PauseMax
  /\ scan \in [first : Node \cup {0}, last : Node \cup {0}, node : 0 .. NodeMax + 1]
  /\ backoff \in 0 .. Backoff
  /\ loop \in 0 .. NodeMax
  /\ state \in [Node -> States]
  /\ busy \in [Node -> BOOLEAN]
  /\ item \in [Node -> 0 .. PollCount - 1]
  /\ hold \in [Node -> BOOLEAN]
  /\ chan \in [Channel -> [node : Node \cup {0}, obj : Objects \cup {Idle}]]
  /\ asked \subseteq Node \X Objects
  /\ saved \subseteq Node
  /\ got \in [Node -> SUBSET Objects]
  /\ alone \in [Node -> BOOLEAN]

\* can_scanner_init(), reading back the list of batteries.
Started(list) == [n \in Node |-> IF n \in list THEN "testing" ELSE "unknown"]

\* The stack starts with channel c connected to node c, if there is one.
Fresh(c) == [node |-> IF c \in Node THEN c ELSE 0, obj |-> Idle]

Init ==
  /\ mode = "poll"
  /\ pause = 0
  /\ scan = [first |-> 0, last |-> 0, node |-> 0]
  /\ backoff = 0
  /\ loop = 0
  /\ state = Started({})
  /\ busy = [n \in Node |-> FALSE]
  /\ item = [n \in Node |-> 0]
  /\ hold = [n \in Node |-> FALSE]
  /\ chan = [c \in Channel |-> Fresh(c)]
  /\ asked = {}
  /\ saved = {}
  /\ got = [n \in Node |-> {}]
  /\ alone = [n \in Node |-> TRUE]

-----------------------------------------------------------------------------
(* Requests.                                                               *)

Ready == {c \in Channel : chan[c].obj = Idle}
Requests(n) == {c \in Channel : chan[c].node = n /\ chan[c].obj # Idle}
Outstanding(n) == Requests(n) # {}

First(S) == CHOOSE c \in S : \A d \in S : c <= d

\* sdo_read(): connect the first ready channel and send the request on it.  Beyond
\* LateMax unanswered requests, the new one gets no answer.
SdoRead(n, o) ==
  /\ Ready # {}
  /\ chan' = [chan EXCEPT ![First(Ready)] = [node |-> n, obj |-> o]]
  /\ asked' = IF Cardinality(asked) < LateMax THEN asked \cup {<<n, o>>} ELSE asked

\* sdo_read() that sends nothing: there is no ready channel or it could not be connected,
\* or it is connected to n now and the frame could not be written.
SdoReadFails(n) ==
  /\ \/ chan' = chan
     \/ Ready # {} /\ chan' = [chan EXCEPT ![First(Ready)] = [node |-> n, obj |-> Idle]]
  /\ asked' = asked

-----------------------------------------------------------------------------
(* Faulty variants of definitions below, each a slip that some property of *)
(* this module has to notice.                                              *)

\* The loop over the batteries goes one too far.
PollNextPast == loop' = IF loop > NodeMax THEN 0 ELSE loop + 1

\* A battery is polled again before its last request was answered.
DueAlways(n) == ~hold[n] /\ state[n] \in Polled

\* The scan moves on though the request was not sent.
ScanAskFailsOn ==
  /\ loop = 0 /\ backoff = 0 /\ pause = 0
  /\ mode = "scan"
  /\ scan.node <= scan.last
  /\ state[scan.node] = "scanning"
  /\ SdoReadFails(scan.node)
  /\ backoff' = Backoff
  /\ scan' = [scan EXCEPT !.node = @ + 1]
  /\ UNCHANGED <<mode, pause, loop, state, busy, item, hold, saved, got, alone>>

\* A missing battery that answers is available at once; one that fails to answer
\* the scan is left without a verdict.
OnAnswerReturns(s) == IF s = "missing" THEN "available" ELSE IF s = "scanning" THEN "testing" ELSE s
OnErrorWaits(s)    == IF s \in {"testing", "available"} THEN "missing" ELSE s

\* The callback clears busy for an answer only.
OnBattReadBusy(c, data) ==
  LET n == chan[c].node
      s == CASE data /\ state[n] \in {"scanning", "missing"}   -> "testing"
             [] ~data /\ state[n] = "scanning"                -> "unavailable"
             [] ~data /\ state[n] \in {"testing", "available"} -> "missing"
             [] OTHER                                         -> state[n]
  IN  /\ busy' = [busy EXCEPT ![n] = @ /\ ~data]
      /\ state' = [state EXCEPT ![n] = s]
      /\ UNCHANGED item
      /\ hold' = [hold EXCEPT ![n] = @ \/ ~data]
      /\ UNCHANGED <<got, alone>>

-----------------------------------------------------------------------------
(* The scan.                                                               *)

\* can_scanner_full_scan().
FullScan(first, last) ==
  /\ loop = 0
  /\ mode = "poll"
  /\ first < last
  /\ mode' = "scan"
  /\ scan' = [first |-> first, last |-> last, node |-> first]
  /\ state' = [n \in Node |->
                IF n \notin first .. last THEN state[n]
                ELSE IF n = Own THEN "unavailable" ELSE "scanning"]
  /\ item' = [n \in Node |-> IF n \in first .. last THEN 0 ELSE item[n]]
  /\ UNCHANGED <<pause, backoff, loop, busy, hold, chan, asked, saved, got, alone>>

Ticking == loop = 0 /\ backoff = 0 /\ pause = 0

\* The next node of the range: ask it, unless it has left SCANNING already.
ScanAsk ==
  /\ Ticking
  /\ mode = "scan"
  /\ scan.node <= scan.last
  /\ IF state[scan.node] = "scanning"
       THEN SdoRead(scan.node, DeviceType)
       ELSE UNCHANGED <<chan, asked>>
  /\ scan' = [scan EXCEPT !.node = @ + 1]
  /\ UNCHANGED <<mode, pause, backoff, loop, state, busy, item, hold, saved, got, alone>>

\* The request was not sent: leave the bus alone for some ticks.
ScanAskFails ==
  /\ Ticking
  /\ mode = "scan"
  /\ scan.node <= scan.last
  /\ state[scan.node] = "scanning"
  /\ SdoReadFails(scan.node)
  /\ backoff' = Backoff
  /\ UNCHANGED <<mode, pause, scan, loop, state, busy, item, hold, saved, got, alone>>

\* Every node of the range was asked and has a verdict: save the list and poll.
ScanEnd ==
  /\ Ticking
  /\ mode = "scan"
  /\ scan.node > scan.last
  /\ \A n \in scan.first .. scan.last : state[n] # "scanning"
  /\ saved' = {n \in Node : state[n] = "available"}
  /\ mode' = "poll"
  /\ UNCHANGED <<pause, scan, backoff, loop, state, busy, item, hold, chan, asked,
                 got, alone>>

BackoffTick ==
  /\ loop = 0
  /\ backoff > 0
  /\ backoff' = backoff - 1
  /\ UNCHANGED <<mode, pause, scan, loop, state, busy, item, hold, chan, asked,
                 saved, got, alone>>

-----------------------------------------------------------------------------
(* The polling: on_tick_poll().                                            *)

PollBegin ==
  /\ Ticking
  /\ mode = "poll"
  /\ loop' = 1
  /\ UNCHANGED <<pollVars, state, busy, item, hold, chan, asked, got, alone>>

PollNext == loop' = IF loop = NodeMax THEN 0 ELSE loop + 1

Due(n) == ~hold[n] /\ ~busy[n] /\ state[n] \in Polled

PollSkip ==
  /\ loop # 0
  /\ ~Due(loop)
  /\ PollNext
  /\ UNCHANGED <<pollVars, state, busy, item, hold, chan, asked, got, alone>>

\* poll_batt(): ask for the next object.  The last one of the list ends the round,
\* and makes a battery under test available.
PollAsk ==
  /\ loop # 0
  /\ Due(loop)
  /\ SdoRead(loop, item[loop])
  /\ busy' = [busy EXCEPT ![loop] = TRUE]
  /\ IF item[loop] = PollCount - 1
       THEN /\ item' = [item EXCEPT ![loop] = 0]
            /\ hold' = [hold EXCEPT ![loop] = TRUE]
            /\ state' = [state EXCEPT ![loop] = IF @ = "testing" THEN "available" ELSE @]
       ELSE /\ item' = [item EXCEPT ![loop] = @ + 1]
            /\ UNCHANGED <<hold, state>>
  /\ PollNext
  /\ UNCHANGED <<pollVars, got, alone>>

PollAskFails ==
  /\ loop # 0
  /\ Due(loop)
  /\ SdoReadFails(loop)
  /\ PollNext
  /\ UNCHANGED <<pollVars, state, busy, item, hold, got, alone>>

\* The time t_next comes.
HoldOver(n) ==
  /\ loop = 0
  /\ hold[n]
  /\ hold' = [hold EXCEPT ![n] = FALSE]
  /\ UNCHANGED <<pollVars, loop, state, busy, item, chan, asked, got, alone>>

-----------------------------------------------------------------------------
(* Answers: on_batt_read(), called by the stack.                           *)

\* The state a battery goes to from state s on an answer, and on an error.
OnAnswer(s) == IF s \in {"scanning", "missing"} THEN "testing" ELSE s
OnError(s)  ==
  CASE s = "scanning"               -> "unavailable"
    [] s \in {"testing", "available"} -> "missing"
    [] OTHER                        -> s

\* The callback of the request on channel c, with data or an error.  batt_set_state()
\* restarts the poll round when it is called.
OnBattRead(c, data) ==
  LET n == chan[c].node
      s == IF data THEN OnAnswer(state[n]) ELSE OnError(state[n])
  IN  /\ busy' = [busy EXCEPT ![n] = FALSE]
      /\ state' = [state EXCEPT ![n] = s]
      /\ item' = [item EXCEPT ![n] = IF s # state[n] THEN 0 ELSE @]
      /\ hold' = [hold EXCEPT ![n] = @ \/ ~data]
      /\ got' = [got EXCEPT ![n] =
           IF s = state[n] /\ s = "testing" THEN @ \cup {chan[c].obj} ELSE {}]
      /\ alone' = [alone EXCEPT ![n] =
           IF s = state[n] THEN @ ELSE s = "testing" => Requests(n) = {c}]

Free(c) == chan' = [chan EXCEPT ![c].obj = Idle]

\* The channels connected to node n.
Connected(n) == {c \in Channel : chan[c].node = n}

\* A frame from node n that answers its request for o, with data or an abort.  The
\* first channel connected to n takes it, and fails if it asked for something else.
Answer(n, o, data) ==
  /\ loop = 0
  /\ <<n, o>> \in asked
  /\ asked' = asked \ {<<n, o>>}
  /\ IF Connected(n) # {} /\ chan[First(Connected(n))].obj # Idle
       THEN LET c == First(Connected(n))
            IN  /\ OnBattRead(c, data /\ chan[c].obj = o)
                /\ Free(c)
       ELSE UNCHANGED <<state, busy, item, hold, chan, got, alone>>
  /\ UNCHANGED <<pollVars, loop>>

\* CO_SDO_TIMEOUT: appTransferErrSDO().
Timeout(c) ==
  /\ loop = 0
  /\ chan[c].obj # Idle
  /\ OnBattRead(c, FALSE)
  /\ Free(c)
  /\ UNCHANGED <<pollVars, loop, asked>>

-----------------------------------------------------------------------------
(* The console and the bridge pause the scanner; the device restarts.      *)

Pause ==
  /\ loop = 0
  /\ pause < PauseMax
  /\ pause' = pause + 1
  /\ UNCHANGED <<mode, scan, backoff, loop, state, busy, item, hold, chan, asked,
                 saved, got, alone>>

Resume ==
  /\ loop = 0
  /\ pause > 0
  /\ pause' = pause - 1
  /\ UNCHANGED <<mode, scan, backoff, loop, state, busy, item, hold, chan, asked,
                 saved, got, alone>>

Restart ==
  /\ mode' = "poll"
  /\ pause' = 0
  /\ scan' = [first |-> 0, last |-> 0, node |-> 0]
  /\ backoff' = 0
  /\ loop' = 0
  /\ state' = Started(saved)
  /\ busy' = [n \in Node |-> FALSE]
  /\ item' = [n \in Node |-> 0]
  /\ hold' = [n \in Node |-> FALSE]
  /\ chan' = [c \in Channel |-> Fresh(c)]
  /\ got' = [n \in Node |-> {}]
  /\ alone' = [n \in Node |-> TRUE]
  /\ UNCHANGED <<asked, saved>>

Next ==
  \/ \E r \in Ranges : FullScan(r[1], r[2])
  \/ ScanAsk \/ ScanAskFails \/ ScanEnd \/ BackoffTick
  \/ PollBegin \/ PollSkip \/ PollAsk \/ PollAskFails
  \/ \E n \in Node : HoldOver(n)
  \/ \E n \in Node, o \in Objects, data \in BOOLEAN : Answer(n, o, data)
  \/ \E c \in Channel : Timeout(c)
  \/ Pause \/ Resume
  \/ Restart

Spec == Init /\ [][Next]_vars

\* The 100 Hz tick goes on, the stack ends every request in time, and a frame can
\* be written now and then: a tick may find the bus off or the scanner paused any
\* number of times, but not from some time on.
Fairness ==
  /\ SF_vars(ScanAsk)
  /\ SF_vars(ScanEnd)
  /\ WF_vars(BackoffTick)
  /\ \A c \in Channel : WF_vars(Timeout(c))

FairSpec == Spec /\ Fairness

-----------------------------------------------------------------------------
(* Properties.                                                             *)

\* A battery marked busy is never polled again until a callback clears the mark:
\* some channel always has yet to make it, however scan and poll overlap.
BusyIsOutstanding == \A n \in Node : busy[n] => Outstanding(n)

\* What the end of a scan waits for is on its way: a node still SCANNING that the
\* scan has passed has a request outstanding.
ScanWaitsForAnswers ==
  /\ mode = "poll" => \A n \in Node : state[n] # "scanning"
  /\ mode = "scan" => \A n \in Node :
       state[n] = "scanning" =>
         /\ n \in scan.first .. scan.last
         /\ n < scan.node => Outstanding(n)

\* A battery becomes AVAILABLE only after the data of every object but the last came
\* since it was found, if the answer that found it ended the only request to it: one
\* that is left over, of the scan or of a poll before it, is answered in between and
\* clears the mark of a poll that nobody has answered.
AvailableIsEarned ==
  [][\A n \in Node :
       (state[n] = "testing" /\ state'[n] = "available" /\ alone[n]) =>
          0 .. PollCount - 2 \subseteq got[n]]_vars

\* The states drawn at the head of can-scanner.c, with the edges that the drawing
\* leaves out: a scan starts from any state, a restart knows only the saved list,
\* and a battery under test may go missing.
Drawn ==
  {<<"scanning", "unavailable">>, <<"scanning", "testing">>, <<"testing", "available">>,
   <<"available", "missing">>, <<"missing", "testing">>, <<"testing", "missing">>}

Lifecycle ==
  [][\A n \in Node :
       \/ state'[n] = state[n]
       \/ <<state[n], state'[n]>> \in Drawn
       \/ mode = "poll" /\ mode' = "scan" /\ state'[n] \in {"scanning", "unavailable"}
       \/ state' = Started(saved)]_vars

\* A scan ends, unless the scanner is paused for ever: every node of the range gets
\* its verdict, though requests fail, time out and cross the answers to old polls.
ScanEnds == []<>(pause = 0) => (mode = "scan" ~> mode = "poll")

\* "not found in scan", can-scanner.c:13-14: a scanned node is given up only after
\* the scan has asked it.
UnavailableWasAsked ==
  [][\A n \in Node :
       (state[n] = "scanning" /\ state'[n] = "unavailable") => n < scan.node]_vars

\* "poll ok", from TESTING to AVAILABLE, can-scanner.c:17-23: whichever requests cross,
\* the objects of a battery made AVAILABLE were read, all but the last one asked for.
AvailableWasRead ==
  [][\A n \in Node :
       (state[n] = "testing" /\ state'[n] = "available") =>
          0 .. PollCount - 2 \subseteq got[n]]_vars

\* "scan completed, %d batteries found", can-scanner.c:431: the batteries found, those
\* in state TESTING, are on the list that the scan saves.
FoundAreSaved ==
  [][ScanEnd =>
       {n \in scan.first .. scan.last : state[n] = "testing"} \subseteq saved']_vars

=============================================================================
