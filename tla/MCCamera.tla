------------------------------ MODULE MCCamera ------------------------------
(***************************************************************************)
(* An instance of Camera for TLC: a picture of a line with large and small *)
(* differences in both directions, one whose code is longer than a report  *)
(* and shows its last bits before the end of it, and one with a code that  *)
(* ends on the one bit behind the report that the viewer reads.            *)
(***************************************************************************)
EXTENDS Camera

MCscene ==
  0 :> <<0, 1, 0, 300, 295>> @@
  1 :> <<16383, 0, 31, 16383, 9>> @@
  2 :> <<16383, 0, 130, 130, 7>>

=============================================================================
