--------------------------- MODULE MCConfigStore ----------------------------
(***************************************************************************)
(* Instance of ConfigStore for TLC: two keys and room for two records.  A  *)
(* record that was cut short takes one of the places, so the store runs    *)
(* full, and a third record would end exactly at its end.  Pages of four   *)
(* cells cut headers and data in two.                                      *)
(***************************************************************************)
EXTENDS ConfigStore, TLC

CONSTANTS batt_list, modules

MCKey  == {batt_list, modules}
MCidOf == batt_list :> <<11>> @@ modules :> <<12>>
MCData == {<<3, 4>>, <<4, 3>>}

\* A checksum without collisions between the values of MCData and what a cut
\* leaves of them.
MCCrc(len, d) ==
  LET digit(c) == IF c \in {3, 4} THEN c - 2 ELSE 0
  IN  100 + 3 * digit(d[1]) + digit(d[2])

ASSUME CrcAssumption == CrcTellsApart

=============================================================================
