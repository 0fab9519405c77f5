------------------------------ MODULE LineEdit ------------------------------
(***************************************************************************)
(* What the console's line editor promises: a line of at most MaxLen       *)
(* characters with a cursor in it, the line entered last, which can be     *)
(* recalled, and what came of it.  There is no buffer, no terminator and   *)
(* no escape sequence here.                                                *)
(***************************************************************************)
EXTENDS Naturals, Sequences, SequencesExt

CONSTANTS
  Char,         \* the characters a line is made of
  MaxLen,       \* the longest line
  NoOutcome,    \* nothing was entered yet
  Outcome(_)    \* what entering a line does

VARIABLES text, cursor, last, outcome

editVars == <<text, cursor, last, outcome>>

EditInit == text = <<>> /\ cursor = 0 /\ last = <<>> /\ outcome = NoOutcome

InsertChar == \E c \in Char :
  /\ Len(text) < MaxLen
  /\ text' = InsertAt(text, cursor + 1, c) /\ cursor' = cursor + 1
  /\ UNCHANGED <<last, outcome>>

RubOut == /\ cursor > 0
          /\ text' = RemoveAt(text, cursor) /\ cursor' = cursor - 1
          /\ UNCHANGED <<last, outcome>>

DeleteChar == /\ cursor < Len(text)
              /\ text' = RemoveAt(text, cursor + 1)
              /\ UNCHANGED <<cursor, last, outcome>>

MoveCursor == /\ cursor' \in 0 .. Len(text)
              /\ UNCHANGED <<text, last, outcome>>

EnterLine == /\ text' = <<>> /\ cursor' = 0
             /\ last' = text /\ outcome' = Outcome(text)

RecallLine == /\ text' = last /\ cursor' = Len(last)
              /\ UNCHANGED <<last, outcome>>

ClearLine == /\ text' = <<>> /\ cursor' = 0
             /\ UNCHANGED <<last, outcome>>

EditNext == \/ InsertChar \/ RubOut \/ DeleteChar \/ MoveCursor
            \/ EnterLine \/ RecallLine \/ ClearLine

EditSpec == EditInit /\ [][EditNext]_editVars
=============================================================================
