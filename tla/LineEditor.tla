----------------------------- MODULE LineEditor -----------------------------
(***************************************************************************)
(* The console, src/arm/bios/cmd.c: a line editor fed one character per    *)
(* EV_UART event, and the interpreter that splits an entered line into     *)
(* words and runs the command the first word names or abbreviates.         *)
(*                                                                         *)
(* Both buffers are C strings in arrays of Size cells; cells behind the    *)
(* terminator keep what they held.  The keys that edit are actions, so     *)
(* only the printable characters are values.                               *)
(***************************************************************************)
EXTENDS Integers, SequencesExt

CONSTANTS
  Char,       \* the printable characters that are typed
  Blank,      \* ' ', one of them
  Nul,        \* '\0'
  Size,       \* CMD_BUF_SIZE
  MaxParts,   \* CMD_MAX_PARTS
  Command,    \* the names of the registered commands
  NoOutcome   \* no line was entered yet

ASSUME CharAssumption == Blank \in Char /\ Nul \notin Char
ASSUME SizeAssumption == Size \in Nat \ {0} /\ MaxParts \in Nat \ {0}

VARIABLES
  buf,      \* the line being edited
  hist,     \* the line entered last
  state,    \* 0 plain, 1 after ESC, 2 after ESC [
  pos,      \* the cursor
  len,      \* the length of the line
  outcome   \* what came of the last line entered (not kept by the code)

vars == <<buf, hist, state, pos, len, outcome>>

Idx    == 0 .. Size - 1
Buffer == [Idx -> Char \cup {Nul}]

-----------------------------------------------------------------------------
(* Faulty variants of definitions below, each a slip that some property of *)
(* this module has to notice.                                              *)

\* The last cell, which the terminator needs, takes a character too.
RoomToTheEnd == len < Size

\* The line is not terminated again after a key.
Unterminated(b) == b

\* The tail is moved one character short.
MovedShort(b, p, l, d) ==
  [i \in Idx |-> IF i \in p + d .. l + d - 2 THEN b[i - d] ELSE b[i]]

\* Blanks between words are not skipped but for the first.
AfterBlanksOne(s, i) == i

-----------------------------------------------------------------------------
(* C strings. *)

\* The buffer b holds a string of n characters.
IsString(b, n) == b[n] = Nul /\ \A i \in 0 .. n - 1 : b[i] # Nul

\* strlen()
StrLen(b) == CHOOSE n \in Idx : IsString(b, n)

Str(b) == [i \in 1 .. StrLen(b) |-> b[i - 1]]

\* strcpy(): the string and its terminator, nothing behind them.
StrCpy(d, b) == [i \in Idx |-> IF i <= StrLen(b) THEN b[i] ELSE d[i]]

\* buf[len] = '\0', which ends every key.
Terminated(b) == [b EXCEPT ![len'] = Nul]

-----------------------------------------------------------------------------
(* The interpreter, on the string that was entered. *)

\* Where the word that starts at i ends: its blank, or the end of the string.
WordEnd(s, i) ==
  LET end[j \in i .. Len(s) + 1] ==
        IF j > Len(s) \/ s[j] = Blank THEN j ELSE end[j + 1]
  IN  end[i]

\* The first character that is not blank, from i on.
AfterBlanks(s, i) ==
  LET skip[j \in i .. Len(s) + 1] ==
        IF j > Len(s) \/ s[j] # Blank THEN j ELSE skip[j + 1]
  IN  skip[i]

\* split(): the words, the last of MaxParts being all the rest of the line.
\* A line that starts with a blank has an empty first word.  What the loop adds
\* depends on the place p[1] it has come to and on p[2], one more than the words
\* found before.
Split(s) ==
  LET from[p \in (1 .. Len(s) + 1) \X (1 .. MaxParts)] ==
        LET i    == p[1]
            e    == WordEnd(s, i)
            next == IF e > Len(s) THEN e ELSE AfterBlanks(s, e + 1)
            word == SubSeq(s, i, e - 1)
        IN  IF p[2] = MaxParts THEN << SubSeq(s, i, Len(s)) >>
            ELSE IF next > Len(s) THEN <<word>>
            ELSE <<word>> \o from[<<next, p[2] + 1>>]
  IN  IF s = <<>> THEN <<>> ELSE from[<<1, 1>>]

\* The commands that match: by their whole name, or else by a prefix of it.
Matches(w) == IF w \in Command THEN {w} ELSE {c \in Command : IsPrefix(w, c)}

\* handle_cmd(): a command runs when it is the only one that matches.
HandleCmd(s) ==
  LET part == Split(s)
  IN  IF part # <<>> /\ \E c \in Command : Matches(part[1]) = {c}
      THEN [run  |-> CHOOSE c \in Command : Matches(part[1]) = {c},
            args |-> Tail(part)]
      ELSE NoOutcome

-----------------------------------------------------------------------------
(* handle_char(), an action per case.  Each ends in buf[len] = '\0', the   *)
(* redraw that follows changes nothing.                                    *)

\* move(d): the tail of the line shifts by d, memmove() minding the overlap.
Moved(b, p, l, d) ==
  [i \in Idx |-> IF i \in p + d .. l + d - 1 THEN b[i - d] ELSE b[i]]

Room == len < Size - 1

Plain == state = 0

Insert(c) ==
  /\ Plain /\ Room
  /\ pos' = pos + 1 /\ len' = len + 1
  /\ buf' = Terminated([Moved(buf, pos, len, 1) EXCEPT ![pos] = c])
  /\ UNCHANGED <<hist, state, outcome>>

\* Codes 8 and 127.
Backspace ==
  /\ Plain /\ pos > 0
  /\ pos' = pos - 1 /\ len' = len - 1
  /\ buf' = Terminated(Moved(buf, pos, len, -1))
  /\ UNCHANGED <<hist, state, outcome>>

\* Code 4: the cursor steps over the character and rubs it out.
Delete ==
  /\ Plain /\ pos < len
  /\ pos' = pos /\ len' = len - 1
  /\ buf' = Terminated(Moved(buf, pos + 1, len, -1))
  /\ UNCHANGED <<hist, state, outcome>>

Home == /\ Plain /\ pos' = 0
        /\ UNCHANGED <<buf, hist, state, len, outcome>>

End == /\ Plain /\ pos' = len
       /\ UNCHANGED <<buf, hist, state, len, outcome>>

\* Codes 10 and 13.  The terminators that split() leaves in the line lie
\* behind the one that ends it afterwards.
Cut(b) ==
  [i \in Idx |->
    IF /\ i < StrLen(b) /\ b[i] = Blank /\ (i = 0 \/ b[i - 1] # Blank)
       /\ Cardinality({j \in 0 .. i : b[j] = Blank /\ (j = 0 \/ b[j - 1] # Blank)})
            < MaxParts
    THEN Nul ELSE b[i]]

Enter ==
  /\ Plain
  /\ hist' = StrCpy(hist, buf)
  /\ outcome' = HandleCmd(Str(buf))
  /\ pos' = 0 /\ len' = 0
  /\ buf' = Terminated(Cut(buf))
  /\ UNCHANGED state

\* Code 27.
Escape == /\ Plain /\ state' = 1
          /\ UNCHANGED <<buf, hist, pos, len, outcome>>

\* After ESC: '[' goes on, anything else gives up.
Bracket == /\ state = 1 /\ state' \in {0, 2}
           /\ UNCHANGED <<buf, hist, pos, len, outcome>>

\* ESC [ A
Up == /\ state = 2 /\ state' = 0
      /\ pos' = StrLen(hist) /\ len' = StrLen(hist)
      /\ buf' = Terminated(StrCpy(buf, hist))
      /\ UNCHANGED <<hist, outcome>>

\* ESC [ B
Down == /\ state = 2 /\ state' = 0
        /\ pos' = 0 /\ len' = 0
        /\ buf' = Terminated(buf)
        /\ UNCHANGED <<hist, outcome>>

\* ESC [ C
Right == /\ state = 2 /\ state' = 0
         /\ pos' = IF pos < len THEN pos + 1 ELSE pos
         /\ UNCHANGED <<buf, hist, len, outcome>>

\* ESC [ D, or ESC [ and a code that means nothing.
Left == /\ state = 2 /\ state' = 0
        /\ pos' \in {pos, IF pos > 0 THEN pos - 1 ELSE pos}
        /\ UNCHANGED <<buf, hist, len, outcome>>

\* struct cmd is static: all zero, both strings empty.
Init ==
  /\ buf = [i \in Idx |-> Nul] /\ hist = [i \in Idx |-> Nul]
  /\ state = 0 /\ pos = 0 /\ len = 0
  /\ outcome = NoOutcome

Next ==
  \/ \E c \in Char : Insert(c)
  \/ Backspace \/ Delete \/ Home \/ End
  \/ Enter \/ Escape \/ Bracket
  \/ Up \/ Down \/ Right \/ Left

Spec == Init /\ [][Next]_vars

-----------------------------------------------------------------------------
(* Properties. *)

\* Every variable of the code has its type; the cursor is within the line, and the line
\* within its buffer with a cell left for the terminator.
TypeOK ==
  /\ buf \in Buffer /\ hist \in Buffer
  /\ state \in 0 .. 2
  /\ len \in Idx /\ pos \in 0 .. len

\* Whatever keys came, the line is a string of exactly len characters, which
\* printd(), strcpy() and split() take on trust, and so is the line that may
\* be recalled, in a buffer whose rest is left over from longer lines.
Strings == IsString(buf, len) /\ \E n \in Idx : IsString(hist, n)

\* What a line's words are: each starts at the beginning of the line or after
\* a blank, and ends at a blank, but for the last one there is room for.
WordsOf(s) ==
  LET start   == {i \in 1 .. Len(s) : i = 1 \/ (s[i] # Blank /\ s[i - 1] = Blank)}
      num(i)  == Cardinality({j \in start : j <= i})
      ends(i) == {e \in i .. Len(s) : s[e] = Blank /\ num(i) < MaxParts} \cup {Len(s) + 1}
      count   == Min({MaxParts, Cardinality(start)})
      word(k) == LET i == CHOOSE i \in start : num(i) = k
                 IN  SubSeq(s, i, Min(ends(i)) - 1)
  IN  [k \in 1 .. count |-> word(k)]

\* split(), which walks the line and cuts it in place, finds those words in
\* every line that can be typed: runs of blanks, blanks at either end, and
\* more words than MaxParts.
SplitsIntoWords == Split(Str(buf)) = WordsOf(Str(buf))

\* The line is the first len cells of its buffer, the history a C string.
Text == [i \in 1 .. len |-> buf[i - 1]]

Edit == INSTANCE LineEdit WITH
  MaxLen <- Size - 1, Outcome <- HandleCmd,
  text <- Text, cursor <- pos, last <- Str(hist)

\* The editor of cmd.c, with its terminators, its memmove() and its escape
\* sequences, edits a line as LineEdit does, and runs what was typed.
ImplementsLineEdit == Edit!EditSpec
=============================================================================
