---------------------------- MODULE DeviceState -----------------------------
(***************************************************************************)
(* The relay sequencer of the battery controller,                          *)
(* src/arm/app/bci/device_state.c.  A state machine drives four relays     *)
(* from CANopen commands and the 10 Hz tick: the load is charged through   *)
(* the precharge relay before the main high relay closes.                  *)
(*                                                                         *)
(* set_state() enters a state by writing the relays one after the other.   *)
(* A relay moves when it is written, so each write is a step here; the     *)
(* handler runs to its end before the next event, so no command or tick    *)
(* comes between two writes.                                               *)
(***************************************************************************)
EXTENDS Integers, Sequences

CONSTANTS
  OnTicks,   \* ticks of precharging in ON1 (30) before the supply is judged
  HoldTicks, \* ticks in ON2 and PRE1 (10)
  Sample     \* the raw converter values the supply takes

ASSUME TicksAssumption ==
  OnTicks \in Nat \ {0} /\ HoldTicks \in Nat \ {0} /\ OnTicks < 256 /\ HoldTicks < 256
ASSUME SampleAssumption == Sample # {} /\ Sample \subseteq 0 .. 4095

VARIABLES
  state,    \* the state of the machine
  entered,  \* how many writes of the state's entry function are done
  relay,    \* the position of each relay
  ticks,    \* 10 Hz ticks counted in the state
  supply,   \* what the converter samples on the supply
  charged   \* history: ticks the load has been precharging, up to OnTicks

vars == <<state, entered, relay, ticks, supply, charged>>

Relay    == {"high", "low", "precharge", "reset"}
Position == {"open", "closed"}
State    == {"INIT", "OFF", "ON1", "ON2", "ON", "PRE1", "PRE"}
Command  == {"OFF", "ON", "PRECHARGE", "RESET"}

TypeOK ==
  /\ state \in State
  /\ entered \in 0 .. 4
  /\ relay \in [Relay -> Position]
  /\ ticks \in 0 .. 255
  /\ supply \in Sample
  /\ charged \in 0 .. OnTicks

-----------------------------------------------------------------------------
(* The supply reading.  The converter counts 23 mV a step into a uint16_t, *)
(* which the driver hands on as an int16_t.                                *)

Int16(n)    == ((n + 32768) % 65536) - 32768
Reading(x)  == Int16((x * 23) % 65536)

\* The test of state_ON1_do(): the difference, too, is an int16_t.
Accepted(x) ==
  \/ Reading(x) >= 13000
  \/ Int16(13000 - Reading(x)) < 1000

-----------------------------------------------------------------------------
(* Faulty variants of definitions below, each a slip that some property of *)
(* this module has to notice.                                              *)

\* The low relay opens before the high one.
OFF_to_LowFirst ==
  << <<"low", "open">>, <<"high", "open">>, <<"precharge", "open">>, <<"reset", "open">> >>

\* The precharge relay opens before the others.
OFF_to_PrechargeFirst ==
  << <<"precharge", "open">>, <<"high", "open">>, <<"low", "open">>, <<"reset", "open">> >>

\* state_ON1_to() forgets ticks = 0; state_ON2_do() forgets ticks ++.
ResettingNotON1 == {"ON2", "PRE1"}
CountingNotON2  == {"ON1", "PRE1"}

\* The command is taken for the state of the same name.
TargetOfName(s, c) == IF s = "INIT" \/ c = "RESET" THEN "OFF" ELSE c

-----------------------------------------------------------------------------
(* Entering a state: the state_XXX_to() functions, as lists of writes.     *)

OFF_to  == << <<"high", "open">>, <<"low", "open">>,
              <<"precharge", "open">>, <<"reset", "open">> >>
ON1_to  == << <<"high", "open">>, <<"low", "closed">>,
              <<"precharge", "closed">>, <<"reset", "closed">> >>
ON2_to  == << <<"high", "closed">>, <<"low", "closed">>,
              <<"precharge", "closed">>, <<"reset", "closed">> >>
ON_to   == << <<"high", "closed">>, <<"low", "closed">>,
              <<"precharge", "open">>, <<"reset", "open">> >>
PRE1_to == << <<"low", "closed">>, <<"precharge", "closed">>, <<"reset", "closed">> >>
PRE_to  == ON1_to

Writes(s) ==
  CASE s = "OFF"  -> OFF_to
    [] s = "ON1"  -> ON1_to
    [] s = "ON2"  -> ON2_to
    [] s = "ON"   -> ON_to
    [] s = "PRE1" -> PRE1_to
    [] s = "PRE"  -> PRE_to
    [] OTHER      -> << >>

Settled == entered = Len(Writes(state))

\* The states that count ticks, and those whose entry function resets the count.
Counting  == {"ON1", "ON2", "PRE1"}
Resetting == {"ON1", "ON2", "PRE1"}

\* set_state(next), with ticks = t when the entry function does not reset it.
SetState(next, t) ==
  /\ state' = next
  /\ entered' = 0
  /\ ticks' = IF next \in Resetting THEN 0 ELSE t

Precharging(r) == r["high"] = "open" /\ r["low"] = "closed" /\ r["precharge"] = "closed"

\* relay_set(): the next write of the entry function.
RelayWrite ==
  /\ ~Settled
  /\ LET w == Writes(state)[entered + 1]
     IN  relay' = [relay EXCEPT ![w[1]] = w[2]]
  /\ entered' = entered + 1
  /\ charged' = IF Precharging(relay') THEN charged ELSE 0
  /\ UNCHANGED <<state, ticks, supply>>

-----------------------------------------------------------------------------
(* The state_XXX_do() functions.                                           *)

\* The commands a state has no branch for.
Ignored(s, c) ==
  \/ s = "OFF" /\ c = "OFF"
  \/ s \in {"ON1", "ON2", "ON"} /\ c = "ON"
  \/ s \in {"PRE1", "PRE"} /\ c = "PRECHARGE"

\* Where any other command leads.  INIT goes to OFF whatever it is told.
Target(s, c) ==
  CASE s # "INIT" /\ c = "ON"        -> "ON1"
    [] s # "INIT" /\ c = "PRECHARGE" -> "PRE1"
    [] OTHER                         -> "OFF"

\* device_state_cmd() with a command from the bus.
DeviceCmd(c) ==
  /\ Settled
  /\ ~Ignored(state, c)
  /\ SetState(Target(state, c), ticks)
  /\ UNCHANGED <<relay, supply, charged>>

\* device_state_cmd(DEVICE_CMD_TICK_10HZ), on EV_TICK_10HZ.
Tick ==
  /\ Settled
  /\ CASE state = "INIT" -> SetState("OFF", ticks)
       [] state = "ON1" /\ ticks + 1 = OnTicks ->
            SetState(IF Accepted(supply) THEN "ON2" ELSE "ON1", ticks + 1)
       [] state = "ON2" /\ ticks + 1 = HoldTicks  -> SetState("ON", ticks + 1)
       [] state = "PRE1" /\ ticks + 1 = HoldTicks -> SetState("PRE", ticks + 1)
       [] OTHER ->
            /\ ticks' = IF state \in Counting THEN (ticks + 1) % 256 ELSE ticks
            /\ UNCHANGED <<state, entered>>
  /\ charged' = IF Precharging(relay) /\ charged < OnTicks THEN charged + 1 ELSE charged
  /\ UNCHANGED <<relay, supply>>

\* The supply voltage is what it is.
SupplyChanges ==
  /\ supply' \in Sample \ {supply}
  /\ UNCHANGED <<state, entered, relay, ticks, charged>>

\* relay_init() has opened every relay before the first event.
Init ==
  /\ state = "INIT"
  /\ entered = 0
  /\ relay = [r \in Relay |-> "open"]
  /\ ticks = 0
  /\ supply \in Sample
  /\ charged = 0

Next ==
  \/ RelayWrite
  \/ \E c \in Command : DeviceCmd(c)
  \/ Tick
  \/ SupplyChanges

Spec == Init /\ [][Next]_vars

\* A handler runs to its end, and the tick timer never stops.
FairSpec == Spec /\ WF_vars(RelayWrite) /\ WF_vars(Tick)

-----------------------------------------------------------------------------
(* Properties.                                                             *)

\* The main high relay is never closed while the main low relay is open, not
\* even between two writes of an entry function.
HighNeedsLow == relay["high"] = "closed" => relay["low"] = "closed"

\* Whatever commands come, the main high relay closes only on a load that has
\* been precharging without a break for the whole of ON1.
PrechargedBeforeHigh ==
  [][relay["high"] = "open" /\ relay'["high"] = "closed"
       => charged = OnTicks /\ relay["precharge"] = "closed"]_vars

\* The precharge relay opens only when the main high relay has taken the load
\* over or has let it go, never to leave the load half connected: with the low
\* relay closed, it opens after the high relay is closed.
PrechargeHandsOver ==
  [][relay["precharge"] = "closed" /\ relay'["precharge"] = "open"
       => (relay["high"] = "closed" <=> relay["low"] = "closed")]_vars

\* Once commands stop coming and the supply stays good, the sequencer comes to
\* rest in OFF, ON or PRE with every relay where that state wants it.
SupplyGood  == supply \in {x \in Sample : Accepted(x)}
CommandStep == \E c \in Command : DeviceCmd(c)
AtRest      == state \in {"OFF", "ON", "PRE"} /\ Settled
ComesToRest == (<>[][~CommandStep]_vars /\ <>[]SupplyGood) => <>[]AtRest

\* The reason set_state() logs when it stays in ON1, device_state.c:149:
\* "ON1 (voltage_CAN - voltage_source) > 1000mV".
RetryMeansLowSupply ==
  [][Tick /\ state = "ON1" /\ state' = "ON1" /\ entered' = 0
       => 13000 - supply * 23 > 1000]_vars

=============================================================================
