--------------------------- MODULE MCDeviceState ----------------------------
(***************************************************************************)
(* The relay sequencer with its own tick counts, and supply samples around *)
(* every edge of the 16-bit arithmetic.                                    *)
(***************************************************************************)
EXTENDS DeviceState

\* In millivolts: 0, 11983, 12006, 32752, 32775, 45770, 65527, 65550, 94185.
MCSample == {0, 521, 522, 1424, 1425, 1990, 2849, 2850, 4095}

=============================================================================
