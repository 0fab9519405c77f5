------------------------- MODULE DeviceStateProofs --------------------------
(***************************************************************************)
(* Proofs about DeviceState, for any tick counts and any supply samples.   *)
(***************************************************************************)
EXTENDS DeviceState, TLAPS

(***************************************************************************)
(* The entry functions, write by write.                                    *)
(***************************************************************************)

LEMMA WritesLength ==
  /\ Len(Writes("INIT")) = 0
  /\ Len(Writes("PRE1")) = 3
  /\ \A s \in {"OFF", "ON1", "ON2", "ON", "PRE"} : Len(Writes(s)) = 4
  BY DEF Writes, OFF_to, ON1_to, ON2_to, ON_to, PRE1_to, PRE_to

LEMMA WritesOff ==
  /\ Writes("OFF")[1] = <<"high", "open">>
  /\ Writes("OFF")[2] = <<"low", "open">>
  /\ Writes("OFF")[3] = <<"precharge", "open">>
  /\ Writes("OFF")[4] = <<"reset", "open">>
  BY DEF Writes, OFF_to, ON1_to, ON2_to, ON_to, PRE1_to, PRE_to

LEMMA WritesOn ==
  /\ Writes("ON")[1] = <<"high", "closed">>
  /\ Writes("ON")[2] = <<"low", "closed">>
  /\ Writes("ON")[3] = <<"precharge", "open">>
  /\ Writes("ON")[4] = <<"reset", "open">>
  BY DEF Writes, OFF_to, ON1_to, ON2_to, ON_to, PRE1_to, PRE_to

\* ON1 and PRE write the same relays, ON2 differs in the first only.
LEMMA WritesClosing ==
  /\ \A s \in {"ON1", "PRE"} : Writes(s)[1] = <<"high", "open">>
  /\ Writes("ON2")[1] = <<"high", "closed">>
  /\ \A s \in {"ON1", "ON2", "PRE"} :
       /\ Writes(s)[2] = <<"low", "closed">>
       /\ Writes(s)[3] = <<"precharge", "closed">>
       /\ Writes(s)[4] = <<"reset", "closed">>
  BY DEF Writes, OFF_to, ON1_to, ON2_to, ON_to, PRE1_to, PRE_to

LEMMA WritesPre1 ==
  /\ Writes("PRE1")[1] = <<"low", "closed">>
  /\ Writes("PRE1")[2] = <<"precharge", "closed">>
  /\ Writes("PRE1")[3] = <<"reset", "closed">>
  BY DEF Writes, OFF_to, ON1_to, ON2_to, ON_to, PRE1_to, PRE_to

(***************************************************************************)
(* The inductive invariant: how far each state's entry has brought the     *)
(* relays, and how long ON1 has precharged.  HighNeedsLow alone is not     *)
(* inductive: that OFF opens low only after high, and that ON2 and ON find *)
(* low closed, is what the other parts remember.                           *)
(***************************************************************************)
Positions ==
  /\ entered <= Len(Writes(state))
  /\ state = "INIT" => relay["high"] = "open"
  /\ state \in {"OFF", "ON1"} /\ entered >= 1 => relay["high"] = "open"
  /\ state = "OFF" /\ entered >= 2 => relay["low"] = "open"
  /\ state = "ON1" /\ entered >= 2 => relay["low"] = "closed"
  /\ state = "ON1" /\ entered >= 3 => relay["precharge"] = "closed"
  /\ state \in {"ON2", "PRE", "ON"} => relay["low"] = "closed"
  /\ state = "ON2" => relay["precharge"] = "closed"
  /\ state = "ON2" /\ entered = 0 => charged = OnTicks
  /\ state = "ON2" /\ entered >= 1 => relay["high"] = "closed"
  /\ state = "ON" => relay["high"] = "closed"
  /\ state = "PRE1" /\ entered >= 1 => relay["low"] = "closed"

Counts ==
  state = "ON1" => /\ ticks < OnTicks
                   /\ entered < 4 => ticks = 0
                   /\ ticks <= charged

IInv == TypeOK /\ HighNeedsLow /\ Positions /\ Counts

LEMMA InitIInv == Init => IInv
  BY TicksAssumption, SampleAssumption, WritesLength
  DEF Init, IInv, TypeOK, HighNeedsLow, Positions, Counts, State, Relay, Position

LEMMA CmdIInv ==
  ASSUME IInv, NEW c \in Command, DeviceCmd(c)
  PROVE  IInv'
<1> USE DEF IInv
<1>1. /\ state' \in {"OFF", "ON1", "PRE1"}
      /\ state = "INIT" => state' = "OFF"
      /\ entered' = 0
      /\ ticks' = IF state' \in Resetting THEN 0 ELSE ticks
      /\ UNCHANGED <<relay, supply, charged>>
  BY DEF DeviceCmd, SetState, Target, Command
<1>2. TypeOK'
  BY <1>1 DEF TypeOK, State
<1>3. HighNeedsLow'
  BY <1>1 DEF HighNeedsLow
<1>4. Positions'
  BY <1>1, WritesLength DEF Positions
<1>5. Counts'
  BY <1>1, TicksAssumption DEF Counts, Counting, Resetting, TypeOK
<1> QED
  BY <1>2, <1>3, <1>4, <1>5

\* What one relay write does, whatever the relay.
LEMMA WriteEffect ==
  ASSUME TypeOK, Positions, RelayWrite, NEW r \in Relay, NEW p \in Position,
         Writes(state)[entered + 1] = <<r, p>>
  PROVE  /\ relay' = [relay EXCEPT ![r] = p]
         /\ relay' \in [Relay -> Position]
         /\ entered' = entered + 1
         /\ entered' \in 1 .. Len(Writes(state))
         /\ entered' \in 1 .. 4
         /\ charged' = IF Precharging(relay') THEN charged ELSE 0
         /\ charged' \in 0 .. OnTicks
         /\ UNCHANGED <<state, ticks, supply>>
<1>1. entered < Len(Writes(state)) /\ Len(Writes(state)) \in {0, 3, 4} /\ entered \in Nat
  BY WritesLength DEF TypeOK, Positions, RelayWrite, Settled, State
<1>2. relay' = [relay EXCEPT ![r] = p] /\ entered' = entered + 1
  BY DEF RelayWrite
<1>3. charged' = IF Precharging(relay') THEN charged ELSE 0
  BY DEF RelayWrite
<1>4. charged' \in 0 .. OnTicks
  BY <1>3, TicksAssumption DEF TypeOK
<1>5. relay' \in [Relay -> Position]
  BY <1>2 DEF TypeOK
<1>6. entered' \in 1 .. Len(Writes(state)) /\ entered' \in 1 .. 4
  BY <1>1, <1>2
<1> QED
  BY <1>2, <1>3, <1>4, <1>5, <1>6 DEF RelayWrite

LEMMA RelayWriteIInv ==
  ASSUME IInv, RelayWrite
  PROVE  IInv'
<1> USE DEF IInv
<1>1. /\ state \in State \ {"INIT"}
      /\ entered \in 0 .. 3
      /\ state = "PRE1" => entered \in 0 .. 2
  BY WritesLength DEF RelayWrite, Settled, TypeOK, Positions, State
<1>2. \E r \in Relay, p \in Position : Writes(state)[entered + 1] = <<r, p>>
  BY <1>1, WritesOff, WritesOn, WritesClosing, WritesPre1 DEF State, Relay, Position
<1>3. PICK r \in Relay, p \in Position : Writes(state)[entered + 1] = <<r, p>>
  BY <1>2
<1>4. /\ relay' = [relay EXCEPT ![r] = p]
      /\ relay' \in [Relay -> Position]
      /\ entered' = entered + 1
      /\ entered' \in 1 .. Len(Writes(state))
      /\ entered' \in 1 .. 4
      /\ charged' = IF Precharging(relay') THEN charged ELSE 0
      /\ charged' \in 0 .. OnTicks
      /\ UNCHANGED <<state, ticks, supply>>
  BY <1>3, WriteEffect
<1>5. TypeOK'
  BY <1>4 DEF TypeOK
<1>6. ASSUME NEW q \in Relay
      PROVE  relay'[q] = IF q = r THEN p ELSE relay[q]
  BY <1>4 DEF TypeOK
<1>7. CASE state = "OFF"
  <2>1. \/ entered = 0 /\ r = "high" /\ p = "open"
        \/ entered = 1 /\ r = "low" /\ p = "open"
        \/ entered = 2 /\ r = "precharge" /\ p = "open"
        \/ entered = 3 /\ r = "reset" /\ p = "open"
    BY <1>1, <1>3, <1>7, WritesOff
  <2> QED
    BY <2>1, <1>4, <1>5, <1>6, <1>7 DEF HighNeedsLow, Positions, Counts, Relay, Position
<1>8. CASE state = "ON"
  <2>1. \/ entered = 0 /\ r = "high" /\ p = "closed"
        \/ entered = 1 /\ r = "low" /\ p = "closed"
        \/ entered = 2 /\ r = "precharge" /\ p = "open"
        \/ entered = 3 /\ r = "reset" /\ p = "open"
    BY <1>1, <1>3, <1>8, WritesOn
  <2> QED
    BY <2>1, <1>4, <1>5, <1>6, <1>8 DEF HighNeedsLow, Positions, Counts, Relay, Position
<1>9. CASE state \in {"ON2", "PRE"}
  <2>1. \/ entered = 0 /\ r = "high" /\ p = (IF state = "ON2" THEN "closed" ELSE "open")
        \/ entered = 1 /\ r = "low" /\ p = "closed"
        \/ entered = 2 /\ r = "precharge" /\ p = "closed"
        \/ entered = 3 /\ r = "reset" /\ p = "closed"
    BY <1>1, <1>3, <1>9, WritesClosing
  <2> QED
    BY <2>1, <1>4, <1>5, <1>6, <1>9 DEF HighNeedsLow, Positions, Counts, Relay, Position
<1>10. CASE state = "PRE1"
  <2>1. \/ entered = 0 /\ r = "low" /\ p = "closed"
        \/ entered = 1 /\ r = "precharge" /\ p = "closed"
        \/ entered = 2 /\ r = "reset" /\ p = "closed"
    BY <1>1, <1>3, <1>10, WritesPre1
  <2> QED
    BY <2>1, <1>4, <1>5, <1>6, <1>10 DEF HighNeedsLow, Positions, Counts, Relay, Position
<1>11. CASE state = "ON1"
  <2>1. \/ entered = 0 /\ r = "high" /\ p = "open"
        \/ entered = 1 /\ r = "low" /\ p = "closed"
        \/ entered = 2 /\ r = "precharge" /\ p = "closed"
        \/ entered = 3 /\ r = "reset" /\ p = "closed"
    BY <1>1, <1>3, <1>11, WritesClosing
  <2>2. Counts'
    BY <1>1, <1>4, <1>11, TicksAssumption DEF Counts, TypeOK
  <2> QED
    BY <2>1, <2>2, <1>4, <1>5, <1>6, <1>11 DEF HighNeedsLow, Positions, Relay, Position
<1> QED
  BY <1>1, <1>7, <1>8, <1>9, <1>10, <1>11 DEF State

LEMMA TickIInv ==
  ASSUME IInv, Tick
  PROVE  IInv'
<1> USE DEF IInv
<1>1. UNCHANGED <<relay, supply>> /\ Settled
  BY DEF Tick
<1>2. /\ charged' = IF Precharging(relay) /\ charged < OnTicks THEN charged + 1 ELSE charged
      /\ charged' \in 0 .. OnTicks
  BY TicksAssumption DEF Tick, TypeOK
<1>3. HighNeedsLow'
  BY <1>1 DEF HighNeedsLow
<1>4. CASE state = "ON1"
  <2>1. Precharging(relay) /\ ticks < OnTicks /\ ticks <= charged /\ entered = 4
    <3>1. entered = 4
      BY <1>1, <1>4, WritesLength DEF Settled
    <3> QED
      BY <1>4, <3>1 DEF Positions, Counts, Precharging
  <2>2. CASE ticks + 1 = OnTicks
    <3>1. state' \in {"ON1", "ON2"} /\ entered' = 0 /\ ticks' = 0
      BY <1>4, <2>2 DEF Tick, SetState, Counting, Resetting
    <3>2. charged' = OnTicks
      BY <1>2, <2>1, <2>2 DEF TypeOK
    <3>3. TypeOK'
      BY <1>1, <1>2, <3>1 DEF TypeOK, State
    <3>4. Positions'
      BY <1>1, <2>1, <3>1, <3>2, WritesLength DEF Positions, Precharging
    <3>5. Counts'
      BY <3>1, <3>2, TicksAssumption DEF Counts
    <3> QED
      BY <1>3, <3>3, <3>4, <3>5
  <2>3. CASE ticks + 1 # OnTicks
    <3>1. state' = state /\ entered' = entered /\ ticks' = (ticks + 1) % 256
      BY <1>4, <2>3 DEF Tick, Counting, Resetting
    <3>2. ticks' = ticks + 1
      BY <2>1, <3>1, TicksAssumption DEF TypeOK
    <3>3. TypeOK'
      BY <1>1, <1>2, <2>1, <3>1, <3>2, TicksAssumption DEF TypeOK
    <3>4. Positions'
      BY <1>1, <1>4, <3>1 DEF Positions
    <3>5. Counts'
      BY <1>2, <2>1, <2>3, <3>1, <3>2, TicksAssumption DEF Counts, TypeOK
    <3> QED
      BY <1>3, <3>3, <3>4, <3>5
  <2> QED
    BY <2>2, <2>3
<1>5. CASE state # "ON1"
  <2>1. \/ UNCHANGED <<state, entered>>
        \/ /\ entered' = 0
           /\ <<state, state'>> \in {<<"INIT", "OFF">>, <<"ON2", "ON">>, <<"PRE1", "PRE">>}
    BY <1>5 DEF Tick, SetState
  <2>2. ticks' \in 0 .. 255
    BY <1>5, TicksAssumption DEF Tick, SetState, Counting, Resetting, TypeOK
  <2>3. TypeOK'
    BY <1>1, <1>2, <2>1, <2>2 DEF TypeOK, State
  <2>4. Positions'
    <3>1. CASE UNCHANGED <<state, entered>>
      BY <1>1, <1>2, <1>5, <3>1, WritesLength DEF Positions, Settled
    <3>2. CASE entered' = 0 /\ state = "INIT" /\ state' = "OFF"
      BY <1>1, <3>2, WritesLength DEF Positions
    <3>3. CASE entered' = 0 /\ state = "ON2" /\ state' = "ON"
      BY <1>1, <3>3, WritesLength DEF Positions, Settled
    <3>4. CASE entered' = 0 /\ state = "PRE1" /\ state' = "PRE"
      BY <1>1, <3>4, WritesLength DEF Positions, Settled
    <3> QED
      BY <2>1, <3>1, <3>2, <3>3, <3>4
  <2>5. Counts'
    BY <2>1, <1>5 DEF Counts
  <2> QED
    BY <1>3, <2>3, <2>4, <2>5
<1> QED
  BY <1>4, <1>5

LEMMA NextIInv ==
  ASSUME IInv, [Next]_vars
  PROVE  IInv'
<1>1. CASE RelayWrite
  BY <1>1, RelayWriteIInv
<1>2. ASSUME NEW c \in Command, DeviceCmd(c)
      PROVE  IInv'
  BY <1>2, CmdIInv
<1>3. CASE Tick
  BY <1>3, TickIInv
<1>4. CASE SupplyChanges \/ UNCHANGED vars
  <2>1. UNCHANGED <<state, entered, relay, ticks, charged>>
    BY <1>4 DEF SupplyChanges, vars
  <2>2. supply' \in Sample
    BY <1>4 DEF SupplyChanges, vars, IInv, TypeOK
  <2>3. TypeOK'
    BY <2>1, <2>2 DEF IInv, TypeOK
  <2>4. HighNeedsLow' /\ Positions' /\ Counts'
    BY <2>1 DEF IInv, HighNeedsLow, Positions, Counts
  <2> QED
    BY <2>3, <2>4 DEF IInv
<1> QED
  BY <1>1, <1>2, <1>3, <1>4 DEF Next

(***************************************************************************)
(* The theorems.                                                           *)
(***************************************************************************)

LEMMA Invariance == Spec => []IInv
<1>1. IInv /\ [Next]_vars => IInv'
  BY NextIInv
<1> QED
  BY <1>1, InitIInv, PTL DEF Spec

\* Every variable keeps its type; in particular the uint8_t tick counter never
\* wraps on its way to the tick that moves the machine on.
THEOREM TypeCorrect == Spec => []TypeOK
<1>1. IInv => TypeOK
  BY DEF IInv
<1> QED
  BY <1>1, Invariance, PTL

\* The main high relay is never closed on an open main low relay, in any order of
\* commands and ticks and between any two relay writes.
THEOREM HighOnlyWithLow == Spec => []HighNeedsLow
<1>1. IInv => HighNeedsLow
  BY DEF IInv
<1> QED
  BY <1>1, Invariance, PTL

\* The main high relay closes only on a load precharged for all of ON1.
THEOREM HighOnlyPrecharged == Spec => PrechargedBeforeHigh
<1> DEFINE A == relay["high"] = "open" /\ relay'["high"] = "closed"
                  => charged = OnTicks /\ relay["precharge"] = "closed"
<1>1. ASSUME IInv, [Next]_vars
      PROVE  [A]_vars
  <2> USE <1>1 DEF IInv
  <2>1. CASE RelayWrite
    <3>1. /\ state \in State \ {"INIT"}
          /\ entered \in 0 .. 3
          /\ state = "PRE1" => entered \in 0 .. 2
      BY <2>1, WritesLength DEF RelayWrite, Settled, TypeOK, Positions, State
    <3>2. relay' = [relay EXCEPT ![Writes(state)[entered + 1][1]]
                                   = Writes(state)[entered + 1][2]]
      BY <2>1 DEF RelayWrite
    <3>3. Writes(state)[entered + 1] = <<"high", "closed">>
            => state \in {"ON2", "ON"} /\ entered = 0
      BY <3>1, WritesOff, WritesOn, WritesClosing, WritesPre1 DEF State
    <3>4. A
      BY <3>1, <3>2, <3>3, WritesOff, WritesOn, WritesClosing, WritesPre1
      DEF Positions, TypeOK, Relay, Position, State
    <3> QED
      BY <3>4
  <2>2. CASE (\E c \in Command : DeviceCmd(c)) \/ Tick \/ SupplyChanges
    BY <2>2 DEF DeviceCmd, Tick, SupplyChanges
  <2> QED
    BY <2>1, <2>2 DEF Next
<1> QED
  BY <1>1, Invariance, PTL DEF Spec, PrechargedBeforeHigh

\* The precharge relay opens only with the two main relays both closed or both
\* open: never while the low relay alone holds the load.
THEOREM PrechargeReleased == Spec => PrechargeHandsOver
<1> DEFINE A == relay["precharge"] = "closed" /\ relay'["precharge"] = "open"
                  => (relay["high"] = "closed" <=> relay["low"] = "closed")
<1>1. ASSUME IInv, [Next]_vars
      PROVE  [A]_vars
  <2> USE <1>1 DEF IInv
  <2>1. CASE RelayWrite
    <3>1. /\ state \in State \ {"INIT"}
          /\ entered \in 0 .. 3
          /\ state = "PRE1" => entered \in 0 .. 2
      BY <2>1, WritesLength DEF RelayWrite, Settled, TypeOK, Positions, State
    <3>2. relay' = [relay EXCEPT ![Writes(state)[entered + 1][1]]
                                   = Writes(state)[entered + 1][2]]
      BY <2>1 DEF RelayWrite
    <3>3. Writes(state)[entered + 1] = <<"precharge", "open">>
            => state \in {"OFF", "ON"} /\ entered = 2
      BY <3>1, WritesOff, WritesOn, WritesClosing, WritesPre1 DEF State
    <3>4. A
      BY <3>1, <3>2, <3>3, WritesOff, WritesOn, WritesClosing, WritesPre1
      DEF Positions, TypeOK, Relay, Position, State
    <3> QED
      BY <3>4
  <2>2. CASE (\E c \in Command : DeviceCmd(c)) \/ Tick \/ SupplyChanges
    BY <2>2 DEF DeviceCmd, Tick, SupplyChanges
  <2> QED
    BY <2>1, <2>2 DEF Next
<1> QED
  BY <1>1, Invariance, PTL DEF Spec, PrechargeHandsOver

(***************************************************************************)
(* The supply, where 16 bits are enough for it: below 32768 mV.            *)
(***************************************************************************)
LEMMA ReadingExact ==
  ASSUME NEW x \in 0 .. 1424
  PROVE  Reading(x) = 23 * x
<1>1. x * 23 \in 0 .. 32752
  OBVIOUS
<1>2. (x * 23) % 65536 = x * 23
  BY <1>1
<1>3. ((x * 23) + 32768) % 65536 = (x * 23) + 32768
  BY <1>1
<1> QED
  BY <1>1, <1>2, <1>3 DEF Reading, Int16

LEMMA LowSupply ==
  ASSUME NEW x \in 0 .. 1424, ~Accepted(x)
  PROVE  13000 - x * 23 > 1000
<1>1. Reading(x) = x * 23 /\ x * 23 \in 0 .. 32752
  BY ReadingExact
<1>2. x * 23 < 13000 /\ ~(Int16(13000 - x * 23) < 1000)
  BY <1>1 DEF Accepted
<1>3. (13000 - x * 23) + 32768 \in 32769 .. 45768
  BY <1>1, <1>2
<1>4. ((13000 - x * 23) + 32768) % 65536 = (13000 - x * 23) + 32768
  BY <1>3
<1>5. Int16(13000 - x * 23) = 13000 - x * 23
  BY <1>1, <1>4 DEF Int16
<1>6. x * 23 # 12000
  OBVIOUS
<1> QED
  BY <1>1, <1>2, <1>5, <1>6

\* With a supply that fits 16 bits, 1424 steps of the converter or 32752 mV, the
\* machine begins ON1 again only for the reason it logs: what fails above
\* (device_state_supply.cfg) is the width of the difference, not the test.
THEOREM RetryOnlyWhenLow ==
  ASSUME Sample \subseteq 0 .. 1424
  PROVE  Spec => RetryMeansLowSupply
<1> DEFINE A == Tick /\ state = "ON1" /\ state' = "ON1" /\ entered' = 0
                  => 13000 - supply * 23 > 1000
<1>1. ASSUME IInv, [Next]_vars
      PROVE  [A]_vars
  <2>1. SUFFICES ASSUME Tick, state = "ON1", state' = "ON1", entered' = 0
                 PROVE  13000 - supply * 23 > 1000
    OBVIOUS
  <2>2. entered = 4
    BY <2>1, WritesLength DEF Tick, Settled
  <2>3. ticks + 1 = OnTicks
    BY <2>1, <2>2 DEF Tick
  <2>4. ~Accepted(supply)
    BY <2>1, <2>3 DEF Tick, SetState
  <2>5. supply \in 0 .. 1424
    BY <1>1 DEF IInv, TypeOK
  <2> QED
    BY <2>4, <2>5, LowSupply
<1> QED
  BY <1>1, Invariance, PTL DEF Spec, RetryMeansLowSupply

(***************************************************************************)
(* How far it is to rest: the writes and the ticks that are left when no   *)
(* command comes and the supply is good.                                   *)
(***************************************************************************)
ToWrite == Len(Writes(state)) - entered

Remaining ==
  CASE state = "INIT" -> 1 + 4
    [] state = "ON1"  -> ToWrite + (OnTicks - ticks) + 4 + HoldTicks + 4
    [] state = "ON2"  -> ToWrite + (HoldTicks - ticks) + 4
    [] state = "PRE1" -> ToWrite + (HoldTicks - ticks) + 4
    [] OTHER          -> ToWrite

\* The count of a state that holds is still below its end.
Holds == state \in {"ON2", "PRE1"} => ticks < HoldTicks

LEMMA HoldsNext ==
  ASSUME IInv, Holds, [Next]_vars
  PROVE  Holds'
<1>1. CASE RelayWrite \/ SupplyChanges \/ UNCHANGED vars
  BY <1>1 DEF RelayWrite, SupplyChanges, vars, Holds
<1>2. ASSUME NEW c \in Command, DeviceCmd(c)
      PROVE  Holds'
  BY <1>2, TicksAssumption DEF DeviceCmd, SetState, Resetting, Holds
<1>3. CASE Tick
  <2>1. CASE state' \in {"ON2", "PRE1"} /\ state' # state
    BY <1>3, <2>1, TicksAssumption DEF Tick, SetState, Resetting, Holds
  <2>2. CASE state' \in {"ON2", "PRE1"} /\ state' = state
    <3>1. ticks' = (ticks + 1) % 256 /\ ticks + 1 # HoldTicks
      BY <1>3, <2>2 DEF Tick, SetState, Counting
    <3>2. ticks \in 0 .. 255 /\ ticks < HoldTicks
      BY <2>2 DEF Holds, IInv, TypeOK
    <3>3. ticks' = ticks + 1
      BY <3>1, <3>2, TicksAssumption
    <3> QED
      BY <3>1, <3>2, <3>3, TicksAssumption DEF Holds
  <2> QED
    BY <2>1, <2>2 DEF Holds
<1> QED
  BY <1>1, <1>2, <1>3 DEF Next

LEMMA HoldsAlways == Spec => [](IInv /\ Holds)
<1>1. Init => Holds
  BY DEF Init, Holds
<1>2. IInv /\ Holds /\ [Next]_vars => Holds'
  BY HoldsNext
<1> QED
  BY <1>1, <1>2, Invariance, PTL DEF Spec

LEMMA ToWriteType ==
  ASSUME IInv
  PROVE  /\ ToWrite \in 0 .. 4
         /\ Settled <=> ToWrite = 0
<1>1. Len(Writes(state)) \in {0, 3, 4}
  BY WritesLength DEF IInv, TypeOK, State
<1>2. entered \in Nat /\ entered <= Len(Writes(state))
  BY DEF IInv, TypeOK, Positions
<1>3. ToWrite = Len(Writes(state)) - entered
  BY DEF ToWrite
<1>4. entered = Len(Writes(state)) <=> ToWrite = 0
  BY <1>1, <1>2, <1>3
<1>5. PICK n \in {0, 3, 4} : n = Len(Writes(state))
  BY <1>1
<1>6. ToWrite = n - entered /\ entered \in Nat /\ entered <= n
  BY <1>2, <1>3, <1>5
<1>7. ToWrite \in 0 .. 4
  BY <1>6
<1> QED
  BY <1>4, <1>7 DEF Settled

LEMMA RemainingBound ==
  ASSUME IInv, Holds
  PROVE  /\ ToWrite \in 0 .. 4
         /\ Remaining \in 0 .. OnTicks + HoldTicks + 12
         /\ Remaining = 0 <=> AtRest
<1>1. ToWrite \in 0 .. 4 /\ (Settled <=> ToWrite = 0)
  BY ToWriteType
<1>2. state \in State /\ ticks \in Nat /\ OnTicks \in Nat \ {0} /\ HoldTicks \in Nat \ {0}
  BY TicksAssumption DEF IInv, TypeOK
<1>3. state = "ON1" => ticks < OnTicks
  BY DEF IInv, Counts
<1>4. state \in {"ON2", "PRE1"} => ticks < HoldTicks
  BY DEF Holds
<1> HIDE DEF ToWrite
<1> QED
  BY <1>1, <1>2, <1>3, <1>4 DEF Remaining, AtRest, State

LEMMA WriteLowers ==
  ASSUME IInv, Holds, RelayWrite
  PROVE  Remaining' = Remaining - 1
<1>1. state' = state /\ ticks' = ticks /\ entered' = entered + 1
  BY DEF RelayWrite
<1>2. state # "INIT"
  BY WritesLength DEF RelayWrite, Settled, IInv, TypeOK, Positions
<1>3. ToWrite' = ToWrite - 1 /\ ToWrite \in 0 .. 4
  BY <1>1, RemainingBound, WritesLength DEF ToWrite, IInv, TypeOK, Positions, State
<1>4. state \in State /\ ticks \in Nat /\ OnTicks \in Nat \ {0} /\ HoldTicks \in Nat \ {0}
  BY TicksAssumption DEF IInv, TypeOK
<1> QED
  BY <1>1, <1>2, <1>3, <1>4 DEF Remaining, State

LEMMA TickLowers ==
  ASSUME IInv, Holds, SupplyGood, Tick
  PROVE  IF AtRest THEN AtRest' ELSE Remaining' = Remaining - 1
<1>1. /\ state \in State /\ ticks \in 0 .. 255
      /\ OnTicks \in 1 .. 255 /\ HoldTicks \in 1 .. 255
      /\ Settled /\ ToWrite = 0
  BY TicksAssumption, ToWriteType DEF IInv, TypeOK, Tick
<1>2. CASE state \in {"OFF", "ON", "PRE"}
  <2>1. UNCHANGED <<state, entered>>
    BY <1>2 DEF Tick
  <2> QED
    BY <1>1, <1>2, <2>1 DEF AtRest, Settled
<1>3. CASE state = "INIT"
  <2>1. state' = "OFF" /\ entered' = 0
    BY <1>3 DEF Tick, SetState
  <2> QED
    BY <1>3, <2>1, WritesLength DEF AtRest, Remaining, ToWrite
<1>4. CASE state \in Counting /\ ticks' = ticks + 1 /\ UNCHANGED <<state, entered>>
  <2>1. ToWrite' = ToWrite
    BY <1>4 DEF ToWrite
  <2>2. ~AtRest
    BY <1>4 DEF AtRest, Counting
  <2>3. state \in {"ON1", "ON2", "PRE1"} /\ state' = state /\ ticks' = ticks + 1
    BY <1>4 DEF Counting
  <2>4. CASE state = "ON1"
    <3>1. Remaining' = ToWrite + (OnTicks - (ticks + 1)) + 4 + HoldTicks + 4
      BY <2>1, <2>3, <2>4 DEF Remaining
    <3>2. Remaining = ToWrite + (OnTicks - ticks) + 4 + HoldTicks + 4
      BY <2>4 DEF Remaining
    <3> QED
      BY <1>1, <2>2, <3>1, <3>2
  <2>5. CASE state \in {"ON2", "PRE1"}
    <3>1. Remaining' = ToWrite + (HoldTicks - (ticks + 1)) + 4
      BY <2>1, <2>3, <2>5 DEF Remaining
    <3>2. Remaining = ToWrite + (HoldTicks - ticks) + 4
      BY <2>5 DEF Remaining
    <3> QED
      BY <1>1, <2>2, <3>1, <3>2
  <2> QED
    BY <2>3, <2>4, <2>5
<1>5. CASE state = "ON1"
  <2>1. CASE ticks + 1 = OnTicks
    <3>1. state' = "ON2" /\ entered' = 0 /\ ticks' = 0
      BY <1>5, <2>1 DEF Tick, SetState, SupplyGood, Resetting
    <3>2. ToWrite' = 4
      BY <3>1, WritesLength DEF ToWrite
    <3> QED
      BY <1>1, <1>5, <2>1, <3>1, <3>2 DEF AtRest, Remaining
  <2>2. CASE ticks + 1 # OnTicks
    <3>1. ticks' = (ticks + 1) % 256 /\ UNCHANGED <<state, entered>>
      BY <1>5, <2>2 DEF Tick, Counting
    <3>2. ticks < OnTicks
      BY <1>5 DEF IInv, Counts
    <3>3. ticks' = ticks + 1
      BY <1>1, <2>2, <3>1, <3>2
    <3> QED
      BY <1>4, <1>5, <3>1, <3>3 DEF Counting
  <2> QED
    BY <2>1, <2>2
<1>6. CASE state \in {"ON2", "PRE1"}
  <2>1. CASE ticks + 1 = HoldTicks
    <3>1. state' = (IF state = "ON2" THEN "ON" ELSE "PRE") /\ entered' = 0
      BY <1>6, <2>1 DEF Tick, SetState
    <3>2. ToWrite' = 4
      BY <3>1, WritesLength DEF ToWrite
    <3> QED
      BY <1>1, <1>6, <2>1, <3>1, <3>2 DEF AtRest, Remaining
  <2>2. CASE ticks + 1 # HoldTicks
    <3>1. ticks' = (ticks + 1) % 256 /\ UNCHANGED <<state, entered>>
      BY <1>6, <2>2 DEF Tick, Counting
    <3>2. ticks < HoldTicks
      BY <1>6 DEF Holds
    <3>3. ticks' = ticks + 1
      BY <1>1, <2>2, <3>1, <3>2
    <3> QED
      BY <1>4, <1>6, <3>1, <3>3 DEF Counting
  <2> QED
    BY <2>1, <2>2
<1> QED
  BY <1>1, <1>2, <1>3, <1>5, <1>6 DEF State

\* The core of ComesToRest: while no command comes and the supply is good, every
\* relay write and every tick brings rest one step nearer, from at most
\* OnTicks + HoldTicks + 12 steps away, and at rest nothing moves.  That these
\* steps are taken at all is what the fairness of FairSpec says.
StepsTowardsRest ==
  [][/\ RelayWrite \/ (Tick /\ SupplyGood /\ ~AtRest) => Remaining' = Remaining - 1
     /\ SupplyChanges => Remaining' = Remaining
     /\ AtRest => AtRest' \/ CommandStep]_vars

THEOREM RestComesNearer ==
  Spec => /\ [](Remaining \in 0 .. OnTicks + HoldTicks + 12 /\ (Remaining = 0 <=> AtRest))
          /\ StepsTowardsRest
<1> DEFINE P == Remaining \in 0 .. OnTicks + HoldTicks + 12 /\ (Remaining = 0 <=> AtRest)
<1> DEFINE A == /\ RelayWrite \/ (Tick /\ SupplyGood /\ ~AtRest) => Remaining' = Remaining - 1
                /\ SupplyChanges => Remaining' = Remaining
                /\ AtRest => AtRest' \/ CommandStep
<1>1. IInv /\ Holds => P
  BY RemainingBound
<1>2. ASSUME IInv, Holds, [Next]_vars
      PROVE  [A]_vars
  <2>1. RelayWrite => Remaining' = Remaining - 1 /\ ~AtRest
    BY <1>2, WriteLowers DEF RelayWrite, AtRest
  <2>2. Tick /\ SupplyGood /\ ~AtRest => Remaining' = Remaining - 1
    BY <1>2, TickLowers
  <2>3. SupplyChanges => Remaining' = Remaining /\ AtRest' = AtRest
    BY DEF SupplyChanges, Remaining, ToWrite, AtRest, Settled
  <2>4. Tick /\ AtRest => AtRest'
    BY DEF Tick, AtRest, Settled
  <2> QED
    BY <1>2, <2>1, <2>2, <2>3, <2>4 DEF Next, CommandStep
<1> QED
  BY <1>1, <1>2, HoldsAlways, PTL DEF Spec, StepsTowardsRest

=============================================================================
