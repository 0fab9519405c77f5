---------------------------- MODULE MCEventQueue ----------------------------
(***************************************************************************)
(* Instances of EventQueue for TLC.                                        *)
(***************************************************************************)
EXTENDS EventQueue, TLC

CONSTANTS Boot, Tick, Uart, Button

MCEvent  == {Boot, Tick, Uart, Button}
MCevSize == Boot :> 1 @@ Tick :> 1 @@ Uart :> 2 @@ Button :> 3

\* Level 1 is the system tick, level 2 the UART interrupt, which the processor
\* serves above it.
MCSources == 1 :> {Tick} @@ 2 :> {Uart}

\* The button is scanned on the 100 Hz tick, and the console's button command
\* runs on a UART event.
MCResponse == [e \in MCEvent |-> IF e \in {Tick, Uart} THEN {Button} ELSE {}]

=============================================================================
