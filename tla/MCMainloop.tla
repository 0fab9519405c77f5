----------------------------- MODULE MCMainloop -----------------------------
(***************************************************************************)
(* An instance of Mainloop for TLC: two timers, and as many clients as     *)
(* there are descriptors for.                                              *)
(***************************************************************************)
EXTENDS Mainloop

CONSTANTS fast, slow, c1, c2

MCival == fast :> 1 @@ slow :> 2

=============================================================================
