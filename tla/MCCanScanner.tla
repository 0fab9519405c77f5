---------------------------- MODULE MCCanScanner ----------------------------
(***************************************************************************)
(* Instances of CanScanner for TLC: our own node is 1, batteries are 2 and *)
(* 3.  Two channels are enough for them to run out and for one node to     *)
(* hold both of them; it takes a third for a request left over from before *)
(* the scan to be answered while another is outstanding.  One range holds  *)
(* every node, the other leaves out a battery.                             *)
(***************************************************************************)
EXTENDS CanScanner

MCRanges == {<<1, 3>>, <<1, 2>>}

MCRange == {<<1, 3>>}

=============================================================================
