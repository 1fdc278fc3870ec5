-------------------------------- MODULE Charset --------------------------------
(***************************************************************************)
(* The character set (internal/charset): the text of a source, a sequence  *)
(* of code points, and the codes an interpreter shows.  Going in there are *)
(* several spellings of a code; coming back, one.                          *)
(***************************************************************************)
EXTENDS Integers, Sequences, SequencesExt, TLC

EndOfText == 10
FirstLowChar == 16
Hash == 35
Backslash == 92

LowCharset == <<170, 161, 191, 171, 187, 225, 233, 237, 243, 250, 241, 209, 231, 199, 252, 220>>

\* Which slot of the second set a letter is drawn in.
GraphicChars ==
  [slot \in 123..127 |-> <<193, 201, 205, 211, 218>>[slot - 122]]
  @@ [slot \in 16..31 |-> <<224, 227, 228, 226, 232, 235, 234, 236, 239, 238,
                            242, 245, 246, 244, 249, 251>>[slot - 15]]
  @@ [slot \in 32..47 |-> <<192, 195, 196, 194, 200, 203, 202, 204, 207, 206,
                            210, 213, 214, 212, 217, 219>>[slot - 31]]
  @@ [slot \in 58..63 |-> <<253, 221, 254, 222, 229, 197>>[slot - 57]]
  @@ [slot \in 91..94 |-> <<240, 208, 248, 216>>[slot - 90]]

\* Escapes of one letter, in the order they are applied, after the euro's.
HashEscapes ==
  <<<<103, 14>>, <<116, 15>>, <<98, 11>>, <<115, 32>>, <<102, 127>>, <<107, 12>>, <<110, 13>>, <<114, 13>>>>
OldEscapes ==
  <<<<103, 14>>, <<116, 15>>, <<98, 11>>, <<102, 127>>, <<107, 12>>, <<110, 13>>, <<114, 13>>>>

Escapes ==
  <<[from |-> <<Hash, 101>>, to |-> <<Hash, 103, 96, Hash, 116>>]>>
  \o [i \in DOMAIN HashEscapes |-> [from |-> <<Hash, HashEscapes[i][1]>>, to |-> <<HashEscapes[i][2]>>]]
  \o [i \in DOMAIN OldEscapes |-> [from |-> <<Backslash, OldEscapes[i][1]>>, to |-> <<OldEscapes[i][2]>>]]
  \o [i \in 1..16 |-> [from |-> <<Hash, 64 + i>>, to |-> <<FirstLowChar + i - 1>>]]

\* strings.ReplaceAll: every occurrence from the left, none over another.
Replacing(text, token, by) ==
  LET Scan(acc, i) ==
        IF acc.skip > 0 THEN [acc EXCEPT !.skip = @ - 1]
        ELSE IF i + Len(token) - 1 <= Len(text) /\ SubSeq(text, i, i + Len(token) - 1) = token
        THEN [text |-> acc.text \o by, skip |-> Len(token) - 1, uses |-> acc.uses + 1]
        ELSE [acc EXCEPT !.text = Append(@, text[i])]
  IN  FoldLeft(Scan, [text |-> <<>>, skip |-> 0, uses |-> 0], [i \in DOMAIN text |-> i])

\* One letter by itself, before the escapes.
Letter(c) ==
  CASE c \in Range(LowCharset) ->
         <<FirstLowChar - 1 + CHOOSE i \in DOMAIN LowCharset : LowCharset[i] = c>>
    [] c = 223 -> <<127>>
    [] c \in Range(GraphicChars) ->
         <<Hash, 103, CHOOSE slot \in DOMAIN GraphicChars : GraphicChars[slot] = c, Hash, 116>>
    [] OTHER -> <<c>>

Encode(text) ==
  FoldLeft(LAMBDA out, e : Replacing(out, e.from, e.to).text,
           FlattenSeq([i \in DOMAIN text |-> Letter(text[i])]), Escapes)

\* EncodeBytes narrows it to bytes.
HasCode(text) == \A c \in Range(Encode(text)) : c <= 255

\* DecodeByte: the codes that have a spelling, and which.
Escaped == [code \in {11, 12, 13, 14, 15, 127} |->
              CASE code = 11 -> 98 [] code = 12 -> 107 [] code = 13 -> 110
                [] code = 14 -> 103 [] code = 15 -> 116 [] code = 127 -> 102]

HasSpelling(code) == code \in 11..127

Spelling(code) ==
  CASE code \in 16..31 -> <<LowCharset[code - FirstLowChar + 1]>>
    [] code \in DOMAIN Escaped -> <<Hash, Escaped[code]>>
    [] OTHER -> <<code>>
=============================================================================
