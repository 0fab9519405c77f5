---------------------------- MODULE MCLineEditor ----------------------------
(***************************************************************************)
(* An instance of LineEditor for TLC.                                      *)
(***************************************************************************)
EXTENDS LineEditor

CONSTANTS a, b

MCChar == {Blank, a, b}

\* "a" abbreviates two commands, "b" is one and abbreviates another.
MCCommand == {<<a, a>>, <<a, b>>, <<b>>, <<b, a>>}

=============================================================================
