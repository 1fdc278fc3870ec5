-------------------------------- MODULE Linker --------------------------------
(***************************************************************************)
(* The back end (internal/back: link.go, compress.go): a database laid out *)
(* in the bytes an interpreter runs.  A header of counters and addresses,  *)
(* then one section after another, each noting where it starts.            *)
(***************************************************************************)
EXTENDS Processes, Charset

CONSTANTS Tokens,               \* compressionTokens of the language
          AddressLimit          \* the last address a machine has: 65535

ASSUME LinkerAssumption == AddressLimit \in 0..65535

VARIABLES bodies,       \* the texts, encoded and compressed, all but the objects'
          tokenTable,   \* linker.tokenTable
          image,        \* linker.out
          pointers,     \* linker.at
          step          \* how many steps of run are done; -1 when it has failed

linkerVars == <<bodies, tokenTable, image, pointers, step>>

\* arch.Machine: where each machine lays a database out, and how.  Its words are
\* at even addresses on those of 16 bits and in a browser.
Machines == <<"PC", "ZX", "C64", "CPC", "MSX", "ST", "AMIGA", "PCW", "ZX81", "", "",
              "CPM", "NEXTDAAD", "HTML", "CP4", "MSX2">>
MachineID == (CHOOSE i \in DOMAIN Machines : Machines[i] = opts.machine) - 1

BaseAddress ==
  CASE opts.machine = "ZX" \/ (opts.machine = "ZX81" /\ opts.sub = "SD81B") -> 33792
    [] opts.machine = "C64" -> 14464
    [] opts.machine = "CPC" -> 10368
    [] opts.machine \in {"MSX", "PCW"} -> 256
    [] opts.machine = "CPM" -> 8192
    [] opts.machine = "CP4" -> 28800
    [] OTHER -> 0
IsBigEndian == opts.machine \in {"ST", "AMIGA"}
IsWordAligned == opts.machine \in {"PC", "ST", "AMIGA", "HTML"}

\* What a whole note is worth, in milliseconds.
NoteLength ==
  CASE opts.machine = "ZX" -> IF opts.sub \in {"NEXT", "UNO", "PLUS3", "128K"} THEN 100 ELSE 195
    [] opts.machine = "ZX81" -> 195
    [] opts.machine = "C64" \/ (opts.machine = "PC" /\ opts.sub = "VGA256") -> 120
    [] opts.machine = "CP4" -> 80
    [] opts.machine \in {"HTML", "MSX", "MSX2"} -> 230
    [] opts.machine = "CPC" -> 300
    [] OTHER -> 200

LanguageBit == IF opts.language = "spanish" THEN 1 ELSE 0

Counters == 8
FirstToken == 127
MaxTokens == 129
EndOfList == 255
EndOfProcess == 0
IndirectBit == 128
ContainerBit == 64
WearableBit == 128
OpPause == 35
WholeNote == 200

\* The slots of the header.
PtrTokens == 1
PtrProcesses == 2
PtrObjectText == 3
PtrLocationText == 4
PtrMessageText == 5
PtrSysMessageText == 6
PtrConnections == 7
PtrVocabulary == 8
PtrObjectLocation == 9
PtrObjectName == 10
PtrObjectWeight == 11
PtrObjectAttrs == 12
PtrEndAddress == 13
Slots == 1..13

Obfuscated(byte) == 255 - byte
Least(a, b) == IF a < b THEN a ELSE b

-----------------------------------------------------------------------------
\* Compression.

Reference(number) == (FirstToken + number) % 256

\* worthKeeping: a token's first use costs a byte and every other saves its
\* length but one.  Each is measured on texts the ones before it have been put
\* into, those that were not kept among them.
WorthKeeping(texts) ==
  LET Measure(acc, i) ==
        LET in == [j \in DOMAIN acc.texts |-> Replacing(acc.texts[j], Tokens[i], <<Reference(i - 1)>>)]
            uses == FoldLeft(LAMBDA n, r : n + r.uses, 0, in)
            earned == (uses - 1) * (Len(Tokens[i]) - 1) - 1
        IN  IF Len(acc.kept) = MaxTokens THEN acc
            ELSE IF i = 1 THEN [acc EXCEPT !.kept = Append(@, Tokens[1])]
            ELSE [kept |-> IF uses > 0 /\ earned > 0 THEN Append(acc.kept, Tokens[i]) ELSE acc.kept,
                  texts |-> [j \in DOMAIN in |-> in[j].text]]
  IN  FoldLeft(Measure, [kept |-> <<>>, texts |-> texts], [i \in DOMAIN Tokens |-> i]).kept

\* Mutant: the tokens keep the numbers they were measured under.
Compressed_Unpruned(texts, table) ==
  LET NumberOf(token) == (CHOOSE i \in DOMAIN Tokens : Tokens[i] = token) - 1
  IN  FoldLeft(LAMBDA all, i : [j \in DOMAIN all |->
                                  Replacing(all[j], table[i], <<Reference(NumberOf(table[i]))>>).text],
               texts, [i \in DOMAIN table |-> i])

\* The texts are written with the tokens kept, under the numbers they then have.
Compressed(texts, table) ==
  FoldLeft(LAMBDA all, i : [j \in DOMAIN all |-> Replacing(all[j], table[i], <<Reference(i - 1)>>).text],
           texts, [i \in DOMAIN table |-> i])

-----------------------------------------------------------------------------
\* Writing.

Address(laid) == BaseAddress + Len(laid)

WordBytes(v) ==
  IF IsBigEndian THEN <<(v \div 256) % 256, v % 256>> ELSE <<v % 256, (v \div 256) % 256>>

Words(values) == FlattenSeq([i \in DOMAIN values |-> WordBytes(values[i])])

Pad(laid) == IF IsWordAligned /\ Address(laid) % 2 # 0 THEN Append(laid, 0) ELSE laid

Zeros(n) == [i \in 1..n |-> 0]

\* A section that starts here, and one that starts where it is padded to.
Lay(slot, from, bytes) ==
  /\ image' = from \o bytes
  /\ pointers' = [pointers EXCEPT ![slot] = Address(from)]
  /\ UNCHANGED <<bodies, tokenTable>>

\* Records one after another, each padded to, and where they start.
LayEach(from, records) ==
  FoldLeft(LAMBDA acc, record :
             [out |-> Pad(acc.out) \o record, at |-> Append(acc.at, Address(Pad(acc.out)))],
           [out |-> from, at |-> <<>>], records)

\* The table of their addresses comes last, and is what the header points to.
LayTable(slot, from, records) ==
  LET laid == LayEach(from, records)
  IN  Lay(slot, Pad(laid.out), Words(laid.at))

-----------------------------------------------------------------------------
LinkerInit ==
  /\ bodies = [object |-> <<>>, location |-> <<>>, user |-> <<>>, system |-> <<>>]
  /\ tokenTable = <<>>
  /\ image = <<>>
  /\ pointers = [s \in Slots |-> 0]
  /\ step = 0

\* The steps of run, in their order.
Step(n) == step = n /\ step' = n + 1

\* prepare: what the texts turn into is settled before anything is written, and a
\* letter without a code ends it there.
Encoded(texts) == [i \in DOMAIN texts |-> Encode(texts[i])]
ObjectTextsOf == [i \in DOMAIN db.objects |-> db.objects[i].text]

Fails == step' = -1 /\ UNCHANGED <<bodies, tokenTable, image, pointers>>

Prepare ==
  /\ parsing = "done" /\ step = 0
  /\ IF \A text \in Range(ObjectTextsOf \o db.locations \o db.user \o db.system) : HasCode(text)
     THEN LET kept == WorthKeeping(Encoded(db.locations) \o Encoded(db.user) \o Encoded(db.system))
          IN  /\ step' = 1
              /\ tokenTable' = kept
              /\ bodies' = [object |-> Encoded(ObjectTextsOf),
                            location |-> Compressed(Encoded(db.locations), kept),
                            user |-> Compressed(Encoded(db.user), kept),
                            system |-> Compressed(Encoded(db.system), kept)]
              /\ UNCHANGED <<image, pointers>>
     ELSE Fails

\* header: every counter is a byte.  The addresses and the vectors of the
\* externs are zeros until fillHeader.
Header ==
  /\ Step(1)
  /\ image' = <<opts.version, MachineID * 16 + LanguageBit, 95,
                Len(db.objects) % 256, Len(db.locations) % 256, Len(db.user) % 256,
                Len(db.system) % 256, Len(db.processes) % 256>> \o Zeros(4 * Cardinality(Slots))
  /\ UNCHANGED <<bodies, tokenTable, pointers>>

\* texts
Body(text) == [i \in 1..(Len(text) + 1) |-> Obfuscated(IF i > Len(text) THEN EndOfText ELSE text[i])]
Texts(slot, texts) == LayTable(slot, image, [i \in DOMAIN texts |-> Body(texts[i])])

ObjectTexts == Step(2) /\ Texts(PtrObjectText, bodies.object)

AllObjects == Range(db.objects)
EachObject(bytes) == FlattenSeq([i \in DOMAIN db.objects |-> bytes[db.objects[i]]])

ObjectNames ==
  Step(3) /\ Lay(PtrObjectName, Pad(image), EachObject([o \in AllObjects |-> <<o.noun, o.adjective>>]))

\* The two flags share the weight's byte, which leaves it six bits.
Fits == \A i \in DOMAIN db.objects : db.objects[i].weight <= MaxWeight

ObjectWeights ==
  /\ Step(4) /\ Fits
  /\ Lay(PtrObjectWeight, image,
         EachObject([o \in AllObjects |-> <<o.weight + (IF o.container THEN ContainerBit ELSE 0)
                                                     + (IF o.wearable THEN WearableBit ELSE 0)>>]))

\* The first flag written is the highest bit.
Packed(flags) ==
  FoldLeft(LAMBDA acc, i : 2 * acc + (IF i \in flags THEN 1 ELSE 0), 0, [i \in 1..16 |-> i])

ObjectAttributes ==
  Step(5) /\ Lay(PtrObjectAttrs, Pad(image), EachObject([o \in AllObjects |-> WordBytes(Packed(o.flags))]))

ObjectLocations ==
  Step(6) /\ Lay(PtrObjectLocation, image, Append(EachObject([o \in AllObjects |-> <<o.place>>]), EndOfList))

\* A word is encoded first, and only then cut or padded to five bytes and put in
\* capitals: an accented capital is its small letter, or it would be a drawing.
LowerAccent(c) == IF c \in {193, 201, 205, 211, 218} THEN c + 32 ELSE c
Capital(c) == IF c \in 97..122 THEN c - 32 ELSE c

VocabularyWord(word) ==
  LET encoded == Encode([i \in DOMAIN word |-> LowerAccent(word[i])])
  IN  [i \in 1..5 |-> IF i <= Len(encoded) THEN Capital(encoded[i]) ELSE 32]

\* Every spelling of every word, by its letters and then by its kind.

Spellings ==
  FlattenSeq([i \in DOMAIN db.words |->
                [s \in DOMAIN db.words[i].synonyms |->
                   [word |-> db.words[i].synonyms[s], id |-> db.words[i].id, kind |-> db.words[i].kind]]])

WordBefore(v, w) ==
  \/ \E i \in 1..Least(Len(v), Len(w)) :
       v[i] < w[i] /\ SubSeq(v, 1, i - 1) = SubSeq(w, 1, i - 1)
  \/ Len(v) < Len(w) /\ SubSeq(w, 1, Len(v)) = v

VocabularyOrder ==
  SortSeq(Spellings, LAMBDA a, b : IF a.word # b.word THEN WordBefore(a.word, b.word)
                                   ELSE a.kind < b.kind)

LayVocabulary ==
  /\ step = 7
  /\ IF \A entry \in Range(Spellings) : HasCode(entry.word)
     THEN LET Entry(e) == [i \in 1..5 |-> Obfuscated(VocabularyWord(e.word)[i])] \o <<e.id, e.kind>>
              from == Pad(image)
              words == from \o FlattenSeq([i \in DOMAIN VocabularyOrder |-> Entry(VocabularyOrder[i])])
          IN  /\ step' = 8
              /\ image' = Pad(Append(words, 0))
              /\ pointers' = [pointers EXCEPT ![PtrVocabulary] = Address(from)]
              /\ UNCHANGED <<bodies, tokenTable>>
     ELSE Fails

\* The last character of a token carries the high bit.  A table of none is a
\* zero that nothing points to.
TokenBytes(token) ==
  [i \in DOMAIN token |-> IF i = Len(token) THEN (token[i] % 128) + 128 ELSE token[i]]

LayTokens ==
  /\ Step(8)
  /\ LET bytes == IF tokenTable = <<>> THEN <<0>>
                  ELSE FlattenSeq([i \in DOMAIN tokenTable |-> TokenBytes(tokenTable[i])])
     IN  /\ image' = Pad(image \o bytes)
         /\ pointers' = [pointers EXCEPT ![PtrTokens] = IF tokenTable = <<>> THEN 0 ELSE Address(image)]
         /\ UNCHANGED <<bodies, tokenTable>>

SystemMessages == Step(9) /\ Texts(PtrSysMessageText, bodies.system)
UserMessages == Step(10) /\ Texts(PtrMessageText, bodies.user)
LocationTexts == Step(11) /\ Texts(PtrLocationText, bodies.location)

\* The exits of every location, in the order they were written.
ExitsOf(location) ==
  LET mine == SelectSeq(db.conns, LAMBDA c : c.from = location)
  IN  FlattenSeq([i \in DOMAIN mine |-> <<mine[i].word, mine[i].to>>])

Connections ==
  /\ Step(12)
  /\ LET laid == LayEach(image, [i \in DOMAIN db.locations |-> Append(ExitsOf(i - 1), EndOfList)])
         from == Pad(laid.out)
     IN  /\ image' = Pad(from \o Words(laid.at))
         /\ pointers' = [pointers EXCEPT ![PtrConnections] = Address(from)]
         /\ UNCHANGED <<bodies, tokenTable>>

-----------------------------------------------------------------------------
\* Processes.

\* A length of time is the machine's, unless it comes from a flag.
OperandByte(condact, i) ==
  IF condact.op = OpPause /\ i = 1 /\ ~condact.args[1].indirect
  THEN Least((condact.args[1].value * NoteLength + WholeNote \div 2) \div WholeNote, 255)
  ELSE condact.args[i].value

\* Only the first operand's @ is written, as a bit of the opcode.
CondactBytes(condact) ==
  <<(condact.op % 128) + (IF condact.op >= 128 \/ (condact.args # <<>> /\ condact.args[1].indirect)
                          THEN IndirectBit ELSE 0)>>
    \o [i \in DOMAIN condact.args |-> OperandByte(condact, i)]

\* A block ends at the first condact that ends an entry by itself, or else with a
\* mark of its own.
UpToTerminal(condacts) ==
  LET terminal == {i \in DOMAIN condacts : Condacts[condacts[i].op].terminal}
  IN  IF terminal = {} THEN condacts
      ELSE SubSeq(condacts, 1, CHOOSE i \in terminal : \A j \in terminal : i <= j)

BlockBytes(condacts) ==
  FlattenSeq([i \in DOMAIN condacts |-> CondactBytes(condacts[i])])
    \o (IF \E i \in DOMAIN condacts : Condacts[condacts[i].op].terminal THEN <<>> ELSE <<EndOfList>>)

\* Where its condacts begin, which is where another block may begin as well.
Starts(condacts) ==
  [i \in DOMAIN condacts |->
     Len(FlattenSeq([j \in 1..(i - 1) |-> CondactBytes(condacts[j])]))]

\* A block already there, whole or as the end of another, is not written again.
LayBlock(acc, condacts) ==
  LET run == UpToTerminal(condacts)
      bytes == BlockBytes(run)
      from == Pad(acc.out)
      Suffix(start) == SubSeq(bytes, start + 1, Len(bytes))
      Even(start) == IsWordAligned => (Address(from) + start) % 2 = 0
      starts == {s \in Range(Starts(run)) : Even(s)}
  IN  IF bytes \in DOMAIN acc.written
      THEN [acc EXCEPT !.at = Append(@, acc.written[bytes])]
      ELSE [out |-> from \o bytes,
            at |-> Append(acc.at, Address(from)),
            written |-> acc.written @@
                          [tail \in {Suffix(s) : s \in starts} |->
                             Address(from) + CHOOSE s \in starts :
                                            /\ Suffix(s) = tail
                                            /\ \A t \in starts : Suffix(t) = tail => s <= t]]

AllEntries == FlattenSeq(db.processes)

LayProcesses ==
  /\ Step(13)
  /\ LET laid == FoldLeft(LAMBDA acc, e : LayBlock(acc, blocks[e.block]),
                          [out |-> image, at |-> <<>>, written |-> <<>>], AllEntries)
         Before(p) == Len(FlattenSeq(SubSeq(db.processes, 1, p - 1)))
         Entry(p, i) == <<db.processes[p][i].verb, db.processes[p][i].noun>>
                          \o WordBytes(laid.at[Before(p) + i])
         List(p) == Append(FlattenSeq([i \in DOMAIN db.processes[p] |-> Entry(p, i)]), EndOfProcess)
         lists == LayEach(Pad(laid.out), [p \in DOMAIN db.processes |-> List(p)])
     IN  Lay(PtrProcesses, Pad(lists.out), Words(lists.at))

\* fillHeader: an image that ends past what an address holds is refused.
FillHeader ==
  /\ step = 14
  /\ IF Address(image) <= AddressLimit
     THEN LET ended == [pointers EXCEPT ![PtrEndAddress] = Address(image)]
              addresses == Words([s \in Slots |-> ended[s]])
          IN  /\ step' = 15
              /\ pointers' = ended
              /\ image' = [i \in DOMAIN image |->
                             IF i \in (Counters + 1)..(Counters + Len(addresses))
                             THEN addresses[i - Counters] ELSE image[i]]
              /\ UNCHANGED <<bodies, tokenTable>>
     ELSE Fails

Linked == step = 15

LinkerNext ==
  \/ Prepare \/ Header \/ ObjectTexts \/ ObjectNames \/ ObjectWeights \/ ObjectAttributes
  \/ ObjectLocations \/ LayVocabulary \/ LayTokens \/ SystemMessages \/ UserMessages
  \/ LocationTexts \/ Connections \/ LayProcesses \/ FillHeader
=============================================================================
