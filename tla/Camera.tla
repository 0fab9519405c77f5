------------------------------- MODULE Camera -------------------------------
(***************************************************************************)
(* The thermal camera and its viewer.  The main loop of the firmware       *)
(* (src/arm/app/flir/lepton.c) reads packets from the sensor and encodes   *)
(* each into its line of img; the USB interrupt (main.c) sends the lines   *)
(* one after the other, or pending text.  The viewer (src/linux/flir.c)    *)
(* decodes the lines, takes frames, and switches a stimulus on for the     *)
(* first half of every cycle of frames and off for the second.             *)
(*                                                                         *)
(* The picture stands still.  Half a line buffer stands for as much as     *)
(* memcpy() has copied when an interrupt comes.                            *)
(***************************************************************************)
EXTENDS Golomb

CONSTANTS
  Height,    \* flir_h, the lines in a frame
  scene,     \* the pixels of each line
  Cycle,     \* n_cycle as the viewer starts, 100 or the option -n
  MinCycle,  \* what reset() does not go below, 10
  Step,      \* what the keys add and subtract, 10
  MaxCycle,  \* bound on n_cycle
  QueueMax   \* bound on the reports that wait for hid_read()

Lines == 0 .. Height - 1

ASSUME CameraAssumption ==
  /\ Height \in Nat /\ Height >= 2
  /\ scene \in [Lines -> [1 .. Width -> Pixel]]
  /\ Cycle \in Nat /\ MinCycle \in Nat /\ Step \in Nat
  /\ Cycle >= 2 /\ MinCycle >= 2
  /\ MaxCycle \in Nat /\ QueueMax \in Nat

VARIABLES
  img,      \* which halves of each line hold its code, not the zeros of a reset
  id,       \* the line of the packet the main loop is at, 0 when idle
  main,     \* where the main loop is with it
  text,     \* printd_ptr > 0
  line,     \* the line GetInReport() sends next
  queue,    \* the reports between GetInReport() and hid_read()
  up,       \* the viewer runs
  on,       \* the stimulus, as the script last left it
  running,  \* a first frame was skipped
  fresh,    \* history: the lines decoded since the last of a frame, or a reset
  n, cycle  \* the frames of this cycle, n_cycle

firmware == <<img, id, main, text, line>>
viewer   == <<up, on, running, fresh, n, cycle>>
vars     == <<firmware, queue, viewer>>

-----------------------------------------------------------------------------
(* Faulty variants of definitions below. *)

\* Interrupts stay on while a line is copied.
IrqAlways == TRUE

\* A reset goes on taking frames.
RunningKept == running

\* A reset leaves the frames counted.
CountKept == n

-----------------------------------------------------------------------------
(* The firmware's main loop. *)

\* on_ev_tick(), lepton_read_packet(): a packet that is no line of the picture
\* ends lepton_read_frame() and changes nothing.
ReadPacket ==
  /\ main = "idle"
  /\ id' \in Lines /\ main' = "encoded"
  /\ UNCHANGED <<img, text, line, queue, viewer>>

CopyFirst ==
  /\ main = "encoded"
  /\ main' = "copying"
  /\ img' = [img EXCEPT ![id].first = TRUE]
  /\ UNCHANGED <<id, text, line, queue, viewer>>

CopySecond ==
  /\ main = "copying"
  /\ main' = "idle" /\ id' = 0
  /\ img' = [img EXCEPT ![id].second = TRUE]
  /\ UNCHANGED <<text, line, queue, viewer>>

\* flir_tx(): what the firmware prints waits for the next report.
PrintText ==
  /\ main = "idle"
  /\ text' = TRUE
  /\ UNCHANGED <<img, id, main, line, queue, viewer>>

-----------------------------------------------------------------------------
(* The interrupt. *)

\* lepton_read_packet() disables interrupts around memcpy().
IrqOn == main # "copying"

NextLine(y) == IF y = Height - 1 THEN 0 ELSE y + 1

\* The report GetInReport() makes; the line that would have been next, and the
\* code in img, are of no matter to text.
Report == [text |-> text, y |-> line, code |-> img[line]]

\* GetInReport(): the host asks while the viewer has the device open, and has
\* room for the answer as long as the viewer keeps up.
GetInReport ==
  /\ IrqOn /\ up
  /\ Len(queue) < QueueMax
  /\ queue' = Append(queue, Report)
  /\ text' = FALSE
  /\ line' = IF text THEN line ELSE NextLine(line)
  /\ UNCHANGED <<img, id, main, viewer>>

-----------------------------------------------------------------------------
(* The viewer. *)

\* run() after init(): the script turns the stimulus off and on.  Nothing of
\* an earlier run is waiting.
Start ==
  /\ ~up
  /\ up' = TRUE /\ on' = TRUE /\ running' = FALSE /\ fresh' = {}
  /\ n' = 0 /\ cycle' = Cycle
  /\ queue' = <<>>
  /\ UNCHANGED firmware

\* set_stimulus(): when the script fails the viewer exits.
SetStimulus(b) ==
  \/ up' = TRUE /\ on' = b
  \/ up' = FALSE /\ on' \in BOOLEAN

\* on_frame()
CountFrame ==
  /\ cycle' = cycle
  /\ IF n + 1 = cycle THEN n' = 0 /\ SetStimulus(TRUE)
     ELSE /\ n' = n + 1
          /\ IF n + 1 = cycle \div 2 THEN SetStimulus(FALSE) ELSE UNCHANGED <<up, on>>

\* poll_flir() on text, which only prints it, and on a line.
ReadText ==
  /\ up /\ queue # <<>> /\ Head(queue).text
  /\ queue' = Tail(queue)
  /\ UNCHANGED <<firmware, viewer>>

Decoding(y) == up /\ queue # <<>> /\ ~Head(queue).text /\ Head(queue).y = y

DecodeLine ==
  /\ \E y \in Lines \ {Height - 1} : Decoding(y) /\ fresh' = fresh \cup {y}
  /\ queue' = Tail(queue)
  /\ UNCHANGED <<firmware, up, on, running, n, cycle>>

\* The last line of a frame: the first frame is skipped.
DecodeLast ==
  /\ Decoding(Height - 1)
  /\ fresh' = {} /\ running' = TRUE
  /\ IF running THEN CountFrame ELSE UNCHANGED <<up, on, n, cycle>>
  /\ queue' = Tail(queue)
  /\ UNCHANGED firmware

Clamped(c) == IF c < MinCycle THEN MinCycle ELSE c

CountAfterReset == 0

RunningAfterReset == FALSE

\* reset() from poll_sdl(): r, ], and [.
Reset ==
  /\ up
  /\ \E c \in {cycle, cycle + Step, cycle - Step} :
       c <= MaxCycle /\ cycle' = Clamped(c)
  /\ SetStimulus(TRUE)
  /\ n' = CountAfterReset /\ running' = RunningAfterReset
  /\ fresh' = {}
  /\ UNCHANGED <<firmware, queue>>

\* poll_sdl(): q turns the stimulus off, escape leaves it.
Exit ==
  /\ up /\ up' = FALSE
  /\ on' \in {on, FALSE}
  /\ UNCHANGED <<firmware, queue, running, fresh, n, cycle>>

-----------------------------------------------------------------------------
Init ==
  /\ img = [y \in Lines |-> [first |-> FALSE, second |-> FALSE]]
  /\ id = 0 /\ main = "idle"
  /\ text = TRUE
  /\ line = 0
  /\ queue = <<>>
  /\ up = FALSE /\ on \in BOOLEAN
  /\ running = FALSE /\ fresh = {} /\ n = 0 /\ cycle = Cycle

Next ==
  \/ ReadPacket \/ CopyFirst \/ CopySecond \/ PrintText
  \/ GetInReport
  \/ Start \/ ReadText \/ DecodeLine \/ DecodeLast \/ Reset \/ Exit

Spec == Init /\ [][Next]_vars

-----------------------------------------------------------------------------
(* Properties. *)

TypeOK ==
  /\ img \in [Lines -> [first : BOOLEAN, second : BOOLEAN]]
  /\ id \in Lines /\ main \in {"idle", "encoded", "copying"}
  /\ text \in BOOLEAN /\ line \in Lines
  /\ queue \in Seq([text : BOOLEAN, y : Lines,
                    code : [first : BOOLEAN, second : BOOLEAN]])
  /\ Len(queue) <= QueueMax
  /\ up \in BOOLEAN /\ on \in BOOLEAN /\ running \in BOOLEAN
  /\ fresh \subseteq Lines
  /\ cycle \in Nat /\ n \in Nat /\ n < cycle

\* The pixels of a line of which img has these halves, as the viewer decodes
\* them where the rest of the buffers holds zeros, or ones.
Shown(y, code, rest) ==
  LET whole == Written(Coded(scene[y])[Width], rest)
  IN  Decoded(Received(
        [i \in DOMAIN whole |->
          IF code[IF i <= 4 * LineBytes THEN "first" ELSE "second"]
          THEN whole[i] ELSE 0], rest))

\* Every line the viewer decodes shows what the sensor saw there, as far as its
\* code fits into the report, or nothing yet; never parts of two pictures.  The
\* number that the end of the report cuts, and those behind it, are zero: their
\* pixels repeat the last one.  (Of a pixel whose code ends with the one bit that
\* is read of the byte behind the report nothing is said.)  The interrupt cannot
\* come while a line is copied, and br_golomb() reads what bw_golomb() wrote, as
\* long as the camera's golomb_k is the viewer's.  (It is said of the newest
\* report; each once is that.)
LinesWhole ==
  queue # <<>> /\ ~Last(queue).text =>
    \A rest \in {0, 1} :
      LET y   == Last(queue).y
          got == Shown(y, Last(queue).code, rest)
      IN  \/ /\ \A x \in Fitting(scene[y]) : got[x] = scene[y][x]
             /\ \A x \in Cut(scene[y]) : got[x] = IF x = 1 THEN 0 ELSE got[x - 1]
          \/ \A x \in 1 .. Width : got[x] = 0

\* A frame that on_frame() takes has all its lines decoded after the frame before
\* it, and after the last reset, however text comes between lines and wherever
\* in a frame the viewer starts or is reset.  Skipping the first frame sees to
\* it as long as no report is lost.
FramesFresh ==
  [][\A y \in {Height - 1} :
       Decoding(y) /\ running /\ queue' # queue => fresh \cup {y} = Lines]_vars

\* As long as the viewer runs the stimulus is on in the first half of the
\* frames of a cycle and off in the second, which is what the phase of the
\* integrated picture refers to.
StimulusFollowsPhase == up => (on <=> n < cycle \div 2)
=============================================================================
