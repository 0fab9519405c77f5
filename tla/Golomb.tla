------------------------------- MODULE Golomb -------------------------------
(***************************************************************************)
(* The exponential Golomb code in which a line of pixels travels from the  *)
(* camera to the viewer, src/arm/app/flir/golomb.c and its copy            *)
(* src/linux/golomb.c.  Buffers are sequences of bits; what is written     *)
(* beyond the end of one is dropped, and what the decoder reads beyond the *)
(* bytes it was sent is whatever was there.  Camera and viewer have to     *)
(* agree on the order of the code: the viewer's is fixed, the camera's     *)
(* starts out the same and can be set from its console.                    *)
(***************************************************************************)
EXTENDS Integers, SequencesExt

CONSTANTS
  Width,      \* flir_w, the pixels in a line
  LineBytes,  \* sizeof(line), of which one byte less is sent
  K,          \* golomb_k of the camera
  ViewerK     \* the order that poll_flir() decodes with, 2

\* A pixel is 16 bits shifted right by two.
Pixel == {v \in Nat : v < 2^14}

\* 1 << k is an int.
ASSUME GolombAssumption ==
  /\ Width \in Nat \ {0} /\ LineBytes \in Nat \ {0}
  /\ K \in 0 .. 30 /\ ViewerK \in 0 .. 30

\* A line of zeros, as a reset leaves it, ends within its first number, although
\* br_golomb() counts the bits of it in a uint8_t: so it is for lines of 64 bytes.
ASSUME EmptyLineAssumption == (ViewerK + 1 + 8 * (LineBytes - 1)) % 256 > 1

-----------------------------------------------------------------------------
(* The encoder. *)

\* The bijection from signed to unsigned numbers in bw_golomb().
ToUnsigned(val) == IF val > 0 THEN 2 * val - 1 ELSE -2 * val

\* Its inverse in br_golomb().
ToSigned(v) == IF v % 2 = 1 THEN (v + 1) \div 2 ELSE -(v \div 2)

\* 1 << n
Bit[n \in 0 .. 30] == IF n = 0 THEN 1 ELSE 2 * Bit[n - 1]

\* 32 - clz(v), for v > 0: the place of the first bit that is set.
BitLength(v) == CHOOSE n \in 1 .. 31 : v \div Bit[n - 1] = 1

\* bw_golomb(): the n bits of the number behind zeros for those over K + 1.
Code(val) ==
  LET v == ToUnsigned(val) + Bit[K]
      n == BitLength(v)
  IN  [i \in 1 .. n - (K + 1) |-> 0] \o [i \in 1 .. n |-> (v \div Bit[n - i]) % 2]

\* The code of the first i pixels as lepton_read_packet() writes it: each as
\* its difference from the one before.
Coded(pix) ==
  LET upto[i \in 0 .. Width] ==
        IF i = 0 THEN <<>>
        ELSE upto[i - 1] \o Code(pix[i] - IF i = 1 THEN 0 ELSE pix[i - 1])
  IN  upto

\* The line buffer after bw_flush(), which always writes one byte more: the
\* code, zeros to the end of that byte, and what the line before left there.
Written(code, stale) ==
  LET full == (Len(code) \div 8 + 1) * 8
  IN  [i \in 1 .. 8 * LineBytes |->
        IF i <= Len(code) THEN code[i] ELSE IF i <= full THEN 0 ELSE stale]

-----------------------------------------------------------------------------
(* The decoder. *)

\* A faulty variant of Readable below: the viewer passes br_init() the length of the
\* report, not that of its buffer.
ReadableOfReport(bits) == Len(bits) - 15

\* GetInReport() sends all but the last byte, the viewer decodes all.
Received(buf, garbage) ==
  [i \in DOMAIN buf |-> IF i <= 8 * (LineBytes - 1) THEN buf[i] ELSE garbage]

\* The number that n bits behind p make, the first one the highest.
NumberAt(bits, p, n) ==
  LET num[i \in 0 .. n] == IF i = 0 THEN 0 ELSE 2 * num[i - 1] + bits[p + i]
  IN  num[n]

\* The bits that br_get() reads: it is at the end as soon as it has loaded the last
\* byte, and gives the first bit of that byte only.
Readable(bits) == Len(bits) - 7

\* The bits read of a number of n: the first one, behind the zeros, has been read
\* before they are counted, even if n is 0.
Taken(n) == IF n = 0 THEN 1 ELSE n

\* br_golomb() after p bits: the number, and how many bits are read then.  Where the
\* data ends within a number the number is 0.
Decode(bits, p) ==
  LET end == Readable(bits)
      one == {i \in p + 1 .. end : bits[i] = 1}
      z   == (CHOOSE i \in one : \A j \in one : i <= j) - (p + 1)
      n   == (ViewerK + 1 + z) % 256
      at  == p + z + Taken(n)
  IN  IF one = {} \/ at > end THEN [val |-> 0, at |-> end]
      ELSE [val |-> ToSigned(NumberAt(bits, p + z, n) - Bit[ViewerK]), at |-> at]

\* The pixels poll_flir() puts into a line; v is a uint16_t.
Decoded(bits) ==
  LET upto[i \in 0 .. Width] ==
        IF i = 0 THEN [pix |-> <<>>, v |-> 0, at |-> 0]
        ELSE LET l == upto[i - 1]
                 d == Decode(bits, l.at)
                 v == (l.v + d.val) % 2^16
             IN  [pix |-> Append(l.pix, v), v |-> v, at |-> d.at]
  IN  upto[Width].pix

\* The pixels of a line whose codes end within the bytes of a report.
Fitting(pix) == {i \in 1 .. Width : Len(Coded(pix)[i]) <= 8 * (LineBytes - 1)}

\* Those whose codes go on behind the one bit more that the viewer reads.
Cut(pix) == {i \in 1 .. Width : Len(Coded(pix)[i]) > 8 * (LineBytes - 1) + 1}
=============================================================================
