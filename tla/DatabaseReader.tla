---------------------------- MODULE DatabaseReader ----------------------------
(***************************************************************************)
(* Reading a database back (internal/ddbfile: reader.go, oldcondacts.go,   *)
(* qrun.go).  A reading r is the record of what has to be known to make    *)
(* sense of the bytes: the data, which way round its words go, the size of *)
(* its header, the address it was laid at, and how many tokens it has, 0   *)
(* when nobody said.  What cannot be read has no value: every operator     *)
(* that reads something has one that says whether it reads.                *)
(***************************************************************************)
EXTENDS Charset, FiniteSets

CONSTANT Condacts       \* ddb's table: opcode -> [params, terminal, ...]

HeaderSizeV1 == 32
HeaderSizeV2 == 34
MaxPadding == 512
NumTokens == 128
TokenReference == 128

PtrTokens == 0
PtrProcesses == 1
PtrObjectText == 2
PtrLocationText == 3
PtrMessageText == 4
PtrSysMessageText == 5
PtrConnections == 6
PtrVocabulary == 7
PtrObjectLocation == 8
PtrObjectName == 9
PtrObjectWeight == 10
PtrObjectAttrs == 11

Reading(data, big, size, base, told) ==
  [data |-> data, big |-> big, size |-> size, base |-> base, told |-> told]

Byte(r, i) == r.data[i + 1]
Clear(r, i) == 255 - Byte(r, i)
WordAt(r, i) ==
  IF r.big THEN 256 * Byte(r, i) + Byte(r, i + 1) ELSE Byte(r, i) + 256 * Byte(r, i + 1)
Address(r, i) == WordAt(r, i) - r.base
InRange(r, p, need) == p >= r.size /\ p + need <= Len(r.data)

\* A pointer of zero is a section that is not there, and stays zero.
Pointer(r, slot) == IF WordAt(r, 8 + 2 * slot) = 0 THEN 0 ELSE Address(r, 8 + 2 * slot)
Pointers(r) == {Pointer(r, slot) : slot \in 0..((r.size - 8) \div 2 - 2)}
DeclaredLength(r) == Address(r, r.size - 2)

NumObjects(r) == Byte(r, 3)
NumLocations(r) == Byte(r, 4)
NumMessages(r) == Byte(r, 5)
NumSysMessages(r) == Byte(r, 6)
NumProcesses(r) == Byte(r, 7)

TextTables(r) ==
  {<<PtrSysMessageText, NumSysMessages(r)>>, <<PtrMessageText, NumMessages(r)>>,
   <<PtrObjectText, NumObjects(r)>>, <<PtrLocationText, NumLocations(r)>>}

\* The header describes itself.
HeaderAgrees(r) ==
  /\ r.base >= 0
  /\ DeclaredLength(r) > r.size
  /\ DeclaredLength(r) <= Len(r.data)
  /\ \A p \in Pointers(r) : p # 0 => p >= r.size /\ p < DeclaredLength(r)

LengthAccountsForFile(r) == Len(r.data) - DeclaredLength(r) < MaxPadding

-----------------------------------------------------------------------------
\* The tokens.

\* Where whatever starts at from has to stop.  A text pointer names an index, and
\* the texts lie before it, so what the indices name counts too.
SectionAfter(r, from) ==
  LET indexed == UNION {{Address(r, Pointer(r, t[1]) + 2 * i) : i \in 0..(t[2] - 1)} :
                          t \in {t \in TextTables(r) :
                                   Pointer(r, t[1]) # 0 /\ InRange(r, Pointer(r, t[1]), 2 * t[2])}}
      after == {p \in Pointers(r) \cup indexed : p > from /\ p < DeclaredLength(r)}
  IN  IF after = {} THEN DeclaredLength(r) ELSE CHOOSE p \in after : \A q \in after : p <= q

\* Every token ends with its high bit set; the first is a placeholder.  The table
\* ends where another section starts, or is padded to.
TokensRead(r) ==
  LET from == Pointer(r, PtrTokens)
      end == SectionAfter(r, from)
      wanted == IF r.told > 0 THEN r.told ELSE NumTokens
      Ends(acc, i) ==
        acc.token = <<>> /\ acc.all # <<>>
          /\ (i >= end \/ Byte(r, i) = 0 \/ Len(acc.all) > wanted)
      Read(acc, i) ==
        IF acc.over \/ Ends(acc, i) THEN [acc EXCEPT !.over = TRUE]
        ELSE IF Byte(r, i) < 128 THEN [acc EXCEPT !.token = Append(@, Byte(r, i))]
        ELSE [acc EXCEPT !.all = Append(@, Append(acc.token, Byte(r, i) - 128)), !.token = <<>>]
  IN  FoldLeft(Read, [all |-> <<>>, token |-> <<>>, over |-> FALSE],
               [i \in 1..(Len(r.data) - from) |-> from + i - 1])

HasTokens(r) == Pointer(r, PtrTokens) # 0

TokensReads(r) ==
  HasTokens(r) =>
    /\ InRange(r, Pointer(r, PtrTokens), 1)
    /\ LET read == TokensRead(r)
       IN  /\ read.token = <<>> /\ read.all # <<>>
           /\ \A i \in DOMAIN read.all : i > 1 => \A c \in Range(read.all[i]) : HasSpelling(c)

Spelt(codes) == FlattenSeq([i \in DOMAIN codes |-> Spelling(codes[i])])

\* A reading with its tokens, which are kept as the source spells them.
Opened(r) ==
  [tokens |-> IF HasTokens(r)
              THEN LET all == Tail(TokensRead(r).all) IN [i \in DOMAIN all |-> Spelt(all[i])]
              ELSE <<>>] @@ r

-----------------------------------------------------------------------------
\* The vocabulary.

\* Five letters, padded with spaces on the right.
IsLetter(c) == c \in 65..90 \cup 97..122 \cup 48..57 \cup 16..31

LooksLikeWord(r, p) ==
  /\ \A i \in 0..4 : Clear(r, p + i) = 32 \/ IsLetter(Clear(r, p + i))
  /\ \A i \in 0..3 : Clear(r, p + i) = 32 => Clear(r, p + i + 1) = 32
  /\ Clear(r, p) # 32

\* How many words there are before the zero that ends them.
WordCount(r) ==
  LET from == Pointer(r, PtrVocabulary)
      ends == {n \in 0..(Len(r.data) \div 7) :
                 from + 7 * (n + 1) <= Len(r.data) /\ Byte(r, from + 7 * n) = 0}
  IN  IF ends = {} THEN 0 ELSE CHOOSE n \in ends : \A m \in ends : n <= m

VocabularyReads(r) ==
  /\ Pointer(r, PtrVocabulary) # 0
  /\ WordCount(r) > 0
  /\ \A n \in 0..(WordCount(r) - 1) : LooksLikeWord(r, Pointer(r, PtrVocabulary) + 7 * n)

Vocabulary(r) ==
  LET At(n) == Pointer(r, PtrVocabulary) + 7 * (n - 1)
      Length(n) == Cardinality({i \in 0..4 : Clear(r, At(n) + i) # 32})
  IN  [n \in 1..WordCount(r) |->
         [word |-> Spelt([i \in 1..Length(n) |-> Clear(r, At(n) + i - 1)]),
          value |-> Byte(r, At(n) + 5), kind |-> Byte(r, At(n) + 6)]]

-----------------------------------------------------------------------------
\* The texts.

\* Whether the codes from p on are those of a text, and up to where.
TextEnds(r, p) == {q \in p..(Len(r.data) - 1) : Clear(r, q) = EndOfText}
TextEnd(r, p) == CHOOSE q \in TextEnds(r, p) : \A s \in TextEnds(r, p) : q <= s

TextReads(r, p) ==
  /\ InRange(r, p, 1)
  /\ TextEnds(r, p) # {}
  /\ \A q \in p..(TextEnd(r, p) - 1) :
       IF Clear(r, q) >= TokenReference
       THEN Clear(r, q) - TokenReference < Len(r.tokens)
       ELSE HasSpelling(Clear(r, q))

Text(r, p) ==
  LET Expand(code) ==
        IF code >= TokenReference THEN r.tokens[code - TokenReference + 1] ELSE Spelling(code)
  IN  FlattenSeq([i \in 1..(TextEnd(r, p) - p) |-> Expand(Clear(r, p + i - 1))])

\* Where the entries of an index lead, which is one word each.
IndexReads(r, slot, count) == InRange(r, Pointer(r, slot), 2 * count)
Indexed(r, slot, i) == Address(r, Pointer(r, slot) + 2 * (i - 1))

TextTableReads(r, slot, count) ==
  IndexReads(r, slot, count) /\ \A i \in 1..count : TextReads(r, Indexed(r, slot, i))
TextTable(r, slot, count) == [i \in 1..count |-> Text(r, Indexed(r, slot, i))]

-----------------------------------------------------------------------------
\* The objects, from arrays that share their index.

HasAttributes(r) == r.size >= HeaderSizeV2 /\ Pointer(r, PtrObjectAttrs) # 0

ObjectsRead(r) ==
  /\ InRange(r, Pointer(r, PtrObjectLocation), NumObjects(r))
  /\ InRange(r, Pointer(r, PtrObjectName), 2 * NumObjects(r))
  /\ InRange(r, Pointer(r, PtrObjectWeight), NumObjects(r))
  /\ HasAttributes(r) => InRange(r, Pointer(r, PtrObjectAttrs), 2 * NumObjects(r))

Bit(n, b) == (n \div 2 ^ b) % 2 = 1

Objects(r) ==
  [i \in 1..NumObjects(r) |->
     LET packed == Byte(r, Pointer(r, PtrObjectWeight) + i - 1)
         name == Pointer(r, PtrObjectName) + 2 * (i - 1)
     IN  [place |-> Byte(r, Pointer(r, PtrObjectLocation) + i - 1),
          weight |-> packed % 64, container |-> Bit(packed, 6), wearable |-> Bit(packed, 7),
          noun |-> Byte(r, name), adjective |-> Byte(r, name + 1),
          flags |-> IF HasAttributes(r)
                    THEN {b \in 1..16 : Bit(WordAt(r, Pointer(r, PtrObjectAttrs) + 2 * (i - 1)), 16 - b)}
                    ELSE {}]]

-----------------------------------------------------------------------------
\* The exits of the locations.

ExitsEnd(r, p) == {n \in 0..(Len(r.data) \div 2) : InRange(r, p + 2 * n, 1) /\ Byte(r, p + 2 * n) = 255}
ExitCount(r, p) == CHOOSE n \in ExitsEnd(r, p) : \A m \in ExitsEnd(r, p) : n <= m

ConnectionsRead(r) ==
  /\ IndexReads(r, PtrConnections, NumLocations(r))
  /\ \A i \in 1..NumLocations(r) :
       InRange(r, Indexed(r, PtrConnections, i), 1) /\ ExitsEnd(r, Indexed(r, PtrConnections, i)) # {}

Connections(r) ==
  [i \in 1..NumLocations(r) |->
     LET p == Indexed(r, PtrConnections, i)
     IN  [n \in 1..ExitCount(r, p) |-> [word |-> Byte(r, p + 2 * n - 2), to |-> Byte(r, p + 2 * n - 1)]]]

-----------------------------------------------------------------------------
\* The processes.  A condact takes as many operands as the table of its version
\* says: what the reader meets where it can go no further is Unread.

Unread == [op |-> -1, indirect |-> FALSE, params |-> <<>>]

OldParams ==
  [op \in {19, 26, 73} |-> 0] @@ [op \in {86} |-> 1] @@ [op \in 56..59 |-> 2]

Known(r, op) == op \in DOMAIN Condacts \/ (r.size = HeaderSizeV1 /\ op \in DOMAIN OldParams)
Takes(r, op) ==
  IF r.size = HeaderSizeV1 /\ op \in DOMAIN OldParams THEN OldParams[op] ELSE Len(Condacts[op].params)
EndsEntry(r, op) ==
  ~(r.size = HeaderSizeV1 /\ op \in DOMAIN OldParams) /\ Condacts[op].terminal

RECURSIVE CondactsAt(_, _)
CondactsAt(r, p) ==
  IF ~InRange(r, p, 1) THEN <<Unread>>
  ELSE IF Byte(r, p) = 255 THEN <<>>
  ELSE LET op == Byte(r, p) % 128
       IN  IF ~Known(r, op) THEN <<Unread>>
           ELSE IF p + 1 + Takes(r, op) > Len(r.data) THEN <<Unread>>
           ELSE <<[op |-> op, indirect |-> Byte(r, p) >= 128,
                   params |-> [i \in 1..Takes(r, op) |-> Byte(r, p + i)]]>>
                \o (IF EndsEntry(r, op) THEN <<>> ELSE CondactsAt(r, p + 1 + Takes(r, op)))

RECURSIVE EntriesAt(_, _)
EntriesAt(r, p) ==
  IF ~InRange(r, p, 4) THEN <<Unread>>
  ELSE IF Byte(r, p) = 0 THEN <<>>
  ELSE <<[verb |-> Byte(r, p), noun |-> Byte(r, p + 1), condacts |-> CondactsAt(r, Address(r, p + 2))]>>
       \o EntriesAt(r, p + 4)

\* A process that no address leads to ends the table early.
Unreadable(r) ==
  {i \in 1..NumProcesses(r) : ~InRange(r, Indexed(r, PtrProcesses, i), 4)}

Processes(r) ==
  LET count == IF Unreadable(r) = {} THEN NumProcesses(r)
               ELSE (CHOOSE i \in Unreadable(r) : \A j \in Unreadable(r) : i <= j) - 1
  IN  [i \in 1..count |-> EntriesAt(r, Indexed(r, PtrProcesses, i))]

ProcessesRead(r) ==
  /\ IndexReads(r, PtrProcesses, NumProcesses(r))
  /\ \A i \in DOMAIN Processes(r) :
       \A e \in Range(Processes(r)[i]) : e # Unread /\ Unread \notin Range(e.condacts)

-----------------------------------------------------------------------------
\* Opening.

\* candidateBases: a file of its own is laid at zero, or where the end it declares
\* says, or its vocabulary comes after the header and some padding.
CandidateBases(data, whole, size, big) ==
  LET probe == Reading(data, big, size, 0, 0)
      ended == WordAt(probe, size - 2) - Len(data)
      Guessed(pad) == WordAt(probe, 8 + 2 * PtrVocabulary) - (size + pad)
      guesses == SelectSeq([i \in 1..(MaxPadding + 1) |-> i - 1],
                           LAMBDA pad : /\ size + pad + 5 <= Len(data)
                                        /\ Guessed(pad) >= 0
                                        /\ LooksLikeWord(probe, size + pad))
  IN  IF whole THEN <<0>>
      ELSE IF Len(data) < size + 5 THEN <<>>
      ELSE (IF ended >= 0 THEN <<ended>> ELSE <<>>) \o [i \in DOMAIN guesses |-> Guessed(guesses[i])]

\* readerAt: every arrangement in turn, and the first that reads is kept.
Arrangements(data) ==
  FlattenSeq(
    FlattenSeq([w \in 1..2 |-> [s \in 1..4 |->
      LET whole == w = 1
          size == IF s < 3 THEN HeaderSizeV1 ELSE HeaderSizeV2
          big == s % 2 = 1
          bases == CandidateBases(data, whole, size, big)
      IN  [b \in DOMAIN bases |-> [whole |-> whole, r |-> Reading(data, big, size, bases[b], 0)]]]]))

Readings(data) ==
  IF Len(data) < HeaderSizeV2 THEN <<>>
  ELSE SelectSeq(Arrangements(data),
                 LAMBDA a : /\ HeaderAgrees(a.r)
                            /\ a.whole => LengthAccountsForFile(a.r)
                            /\ TokensReads(a.r)
                            /\ VocabularyReads(a.r))

ReaderAt(data) == Opened(Readings(data)[1].r)

\* OpenQRun: what readerAt works out is written in front.
Opens(r) == HeaderAgrees(r) /\ TokensReads(r) /\ VocabularyReads(r)

QRunReading(container) ==
  Reading(container.database, container.big,
          IF container.database[1] = 1 THEN HeaderSizeV1 ELSE HeaderSizeV2,
          container.base, container.tokens)
=============================================================================
