--------------------------------- MODULE ZX0 ---------------------------------
(***************************************************************************)
(* The compressor of the pictures and the decoder it is held against       *)
(* (internal/zx0/zx0.go).  A stream is bytes with the bits of a group kept *)
(* in a byte set aside before the bytes that follow them.  A byte has Bits *)
(* bits, 8 in the program; everything the format says follows from that:   *)
(* an offset is a pair of bytes less one bit, and the end is a run of as   *)
(* many ones as a byte holds.                                              *)
(*                                                                         *)
(* For TLC only: the decoder is recursive.                                 *)
(***************************************************************************)
EXTENDS Integers, Sequences, SequencesExt

CONSTANTS Bits,
          Screens       \* the runs of bytes that may be compressed

VARIABLES screen,       \* the bytes being compressed
          taken,        \* how many of them the stream says
          lastOffset,   \* the offset in hand
          copied,       \* whether the stream stands after a copy
          stream,       \* the writer: its bytes, and the bits still free in the one at `at'
          ended

zx0Vars == <<screen, taken, lastOffset, copied, stream, ended>>

Byte == 2 ^ Bits
Half == 2 ^ (Bits - 1)
\* Mutant: every offset a pair of bytes holds may be used, the one of the end too.
MaxOffset_EveryPair == Byte * Half

MaxOffset == (Byte - 1) * Half
MinMatch == 2
EndMarkerBits == Bits

-----------------------------------------------------------------------------
\* The writer.

PutBit(w, b) ==
  LET open == IF w.left = 0
              THEN [out |-> Append(w.out, 0), at |-> Len(w.out) + 1, left |-> Bits]
              ELSE w
      left == open.left - 1
  IN  [open EXCEPT !.left = left, !.out[open.at] = @ + b * 2 ^ left]

PutBits(w, bits) == FoldLeft(PutBit, w, bits)
PutBytes(w, bytes) == [w EXCEPT !.out = @ \o bytes]

\* The bits of a value below its first, most significant first.
BelowTop(value) ==
  LET top == CHOOSE t \in 0..value : 2 ^ t <= value /\ value < 2 ^ (t + 1)
  IN  [i \in 1..top |-> (value \div 2 ^ (top - i)) % 2]

\* Each bit behind a 0 that says it is coming, and a 1 to finish; or, where that
\* 0 has gone out already, each before the bit that says whether another comes.
EliasBits(bits) == FlattenSeq([i \in DOMAIN bits |-> <<0, bits[i]>>]) \o <<1>>
Elias(value) == EliasBits(BelowTop(value))
LengthTail(value) ==
  LET bits == BelowTop(value)
  IN  FlattenSeq([i \in DOMAIN bits |-> <<bits[i], IF i = Len(bits) THEN 1 ELSE 0>>])

\* runTo: the fewest bits that take the decoder's counter to a byte.
RunTo(want) ==
  LET Reached(n) == ((Byte - 2) * 2 ^ n + (want % 2 ^ n)) % Byte
      n == CHOOSE i \in 0..EndMarkerBits :
             Reached(i) = want /\ \A j \in 0..(i - 1) : Reached(j) # want
  IN  [i \in 1..n |-> (want \div 2 ^ (n - i)) % 2]

PutMatch(w, offset, length) ==
  LET negated == Byte * Byte - offset
      lengthBit == IF length = MinMatch THEN 1 ELSE 0
      pair == (negated % (Byte * Half)) * 2 + lengthBit
      said == PutBytes(PutBits(w, EliasBits(RunTo((pair \div Byte + Byte - 1) % Byte))), <<pair % Byte>>)
  IN  IF lengthBit = 1 THEN said ELSE PutBits(said, LengthTail(length - 1))

Closed(w) == PutBits(PutBit(w, 1), EliasBits([i \in 1..EndMarkerBits |-> 1]))

-----------------------------------------------------------------------------
\* The match finder.  Positions count from 0, as in the program.

Agrees(at, from, n) == \A i \in 1..n : screen[from + i] = screen[at + i]

MatchLength(at, from) ==
  IF from < 0 \/ from >= at THEN 0
  ELSE CHOOSE n \in 0..(Len(screen) - at) :
         Agrees(at, from, n) /\ (at + n < Len(screen) => ~Agrees(at, from, n + 1))

LongestMatch(at) ==
  LET from == IF at > MaxOffset THEN at - MaxOffset ELSE 0
      inHand == MatchLength(at, at - lastOffset)
      start == IF inHand >= MinMatch THEN [length |-> inHand, offset |-> lastOffset]
               ELSE [length |-> 0, offset |-> 0]
      Better(best, back) ==
        IF MatchLength(at, back) > best.length
        THEN [length |-> MatchLength(at, back), offset |-> at - back] ELSE best
  IN  FoldLeft(Better, start, [i \in 1..(at - from) |-> at - i])

WorthCopying(m) ==
  m.length >= MinMatch /\ (m.length > MinMatch \/ m.offset = lastOffset \/ m.offset <= Half)

\* How many bytes go out as they are before the next copy worth making.
Literals ==
  LET copies == {at \in taken..(Len(screen) - 1) : WorthCopying(LongestMatch(at))}
  IN  IF copies = {} THEN Len(screen) - taken
      ELSE (CHOOSE at \in copies : \A other \in copies : at <= other) - taken

-----------------------------------------------------------------------------
ZX0Init ==
  /\ screen \in Screens /\ screen # <<>>
  /\ taken = 0
  /\ lastOffset = 1
  /\ copied = FALSE
  /\ stream = [out |-> <<>>, at |-> 0, left |-> 0]
  /\ ended = FALSE

\* Nothing is being compressed.
ZX0Idle ==
  /\ screen = <<>> /\ taken = 0 /\ lastOffset = 1 /\ copied = FALSE
  /\ stream = [out |-> <<>>, at |-> 0, left |-> 0]
  /\ ended = TRUE

WriteLiterals ==
  /\ taken < Len(screen) /\ Literals > 0
  /\ LET back == IF copied THEN PutBit(stream, 0) ELSE stream
     IN  stream' = PutBytes(PutBits(back, Elias(Literals)), SubSeq(screen, taken + 1, taken + Literals))
  /\ taken' = taken + Literals
  /\ copied' = FALSE
  /\ UNCHANGED <<screen, lastOffset, ended>>

WriteCopy ==
  /\ taken < Len(screen) /\ Literals = 0
  /\ LET m == LongestMatch(taken)
     IN  /\ IF m.offset = lastOffset /\ ~copied
            THEN stream' = PutBits(PutBit(stream, 0), Elias(m.length))
            ELSE stream' = PutMatch(PutBit(stream, 1), m.offset, m.length)
         /\ lastOffset' = m.offset
         /\ taken' = taken + m.length
  /\ copied' = TRUE
  /\ UNCHANGED <<screen, ended>>

WriteEnd ==
  /\ taken = Len(screen) /\ ~ended
  /\ stream' = Closed(stream)
  /\ ended' = TRUE
  /\ UNCHANGED <<screen, taken, lastOffset, copied>>

ZX0Next == WriteLiterals \/ WriteCopy \/ WriteEnd

ZX0Spec == ZX0Init /\ [][ZX0Next]_zx0Vars

-----------------------------------------------------------------------------
\* The decoder.  It is the stream, how much of it has been read, the byte of bits
\* it is working through, what it has put out, the offset in hand, and the value
\* being read: what for, and what the next bit is, "control", which says whether
\* another follows, or the "bit" that does; or "fresh", which says what follows a
\* block.

TakeByte(d) ==
  IF d.i >= Len(d.src) THEN [d EXCEPT !.next = "failed"]
  ELSE [d EXCEPT !.i = @ + 1, !.got = d.src[d.i + 1]]

\* A marker follows the last bit of the byte; shifted out, it is what brings the
\* next byte in.
Reloaded(d, carry) ==
  IF d.next = "failed" THEN d
  ELSE [d EXCEPT !.a = ((2 * d.got) % Byte) + carry, !.got = d.got \div Half]
TakeBit(d) ==
  IF (2 * d.a) % Byte # 0
  THEN [d EXCEPT !.a = (2 * @) % Byte, !.got = d.a \div Half]
  ELSE Reloaded(TakeByte(d), d.a \div Half)

Reading(d, for, value) == [d EXCEPT !.for = for, !.value = value, !.next = "control"]

\* dzx0s_copy, which copies byte by byte and may run into what it has copied.
Copied(d, length) ==
  IF d.offset > Len(d.out) THEN [d EXCEPT !.next = "failed"]
  ELSE [d EXCEPT !.next = "fresh", !.for = "copy",
                 !.out = @ \o [i \in 1..length |-> @[Len(@) - d.offset + ((i - 1) % d.offset) + 1]]]

\* The bit that falls out of the pair is the length's.
NewOffset(d, high) ==
  IF d.next = "failed" THEN d
  ELSE LET pair == high * Byte + d.got
       IN  [d EXCEPT !.offset = Byte * Half - pair \div 2, !.for = "length", !.value = 1,
                     !.next = IF pair % 2 = 0 THEN "bit" ELSE "said"]

Said(d) ==
  IF d.for \in {"literals", "again"} /\ d.value >= Byte * Byte THEN [d EXCEPT !.next = "failed"]
  ELSE CASE d.for = "literals" ->
              IF d.i + d.value > Len(d.src) THEN [d EXCEPT !.next = "failed"]
              ELSE [d EXCEPT !.out = @ \o SubSeq(d.src, d.i + 1, d.i + d.value),
                             !.i = @ + d.value, !.next = "fresh"]
         [] d.for = "again" -> Copied(d, d.value)
         [] d.for = "length" -> Copied(d, d.value + 1)
         [] d.for = "offset" ->
              IF (d.value + 1) % Byte = 0 THEN [d EXCEPT !.next = "end"]
              ELSE NewOffset(TakeByte(d), (d.value + 1) % Byte)

AfterBit(d, was) ==
  IF d.next = "failed" THEN d
  ELSE CASE was = "control" -> [d EXCEPT !.next = IF d.got = 1 THEN "said" ELSE "bit"]
         [] was = "bit" -> [d EXCEPT !.value = 2 * @ + d.got, !.next = "control"]
         [] was = "fresh" ->
              Reading(d, IF d.got = 1 THEN "offset" ELSE IF d.for = "copy" THEN "literals" ELSE "again",
                      IF d.got = 1 THEN Byte - 2 ELSE 1)

RECURSIVE Decoded(_)
Decoded(d) ==
  CASE d.next \in {"end", "failed"} -> d
    [] d.next = "said" -> Decoded(Said(d))
    [] d.next \in {"control", "bit", "fresh"} -> Decoded(AfterBit(TakeBit(d), d.next))

Decompress(src) ==
  Decoded([src |-> src, i |-> 0, a |-> Half, got |-> 0, out |-> <<>>, offset |-> 1,
           for |-> "literals", value |-> 1, next |-> "control"])

-----------------------------------------------------------------------------
\* Closed where it stands, the stream reads back as the bytes taken so far, on
\* the decoder the interpreter runs; at its end, as all of them (zx0.go: a coder
\* "whose output it reads back byte for byte").
StreamReadsBack ==
  LET read == Decompress((IF ended THEN stream ELSE Closed(stream)).out)
  IN  taken > 0 => read.next = "end" /\ read.out = SubSeq(screen, 1, taken)
=============================================================================
