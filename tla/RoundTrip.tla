------------------------------- MODULE RoundTrip ------------------------------
(***************************************************************************)
(* A database that has been compiled, read back: by who is told nothing of *)
(* how it was laid out and by who is told all (DatabaseReader).            *)
(***************************************************************************)
EXTENDS Compiler

R == INSTANCE DatabaseReader

\* pack.QRun: the container in which qrun takes a database.
QRun ==
  [big |-> IsBigEndian, base |-> BaseAddress, tokens |-> Len(tokenTable), database |-> image]

SameText(read, written) == Encode(read) = Encode(written)

SameTexts(r, slot, count, written) ==
  /\ count = Len(written)
  /\ R!TextTableReads(r, slot, count)
  /\ LET read == R!TextTable(r, slot, count)
     IN  \A i \in 1..count : SameText(read[i], written[i])

ReadsTexts(r) ==
  /\ SameTexts(r, R!PtrSysMessageText, R!NumSysMessages(r), db.system)
  /\ SameTexts(r, R!PtrMessageText, R!NumMessages(r), db.user)
  /\ SameTexts(r, R!PtrObjectText, R!NumObjects(r), ObjectTextsOf)
  /\ SameTexts(r, R!PtrLocationText, R!NumLocations(r), db.locations)

ReadsVocabulary(r) ==
  {[word |-> VocabularyWord(e.word), value |-> e.id, kind |-> e.kind] : e \in Range(Spellings)}
    = {[entry EXCEPT !.word = VocabularyWord(@)] : entry \in Range(R!Vocabulary(r))}

ReadsObjects(r) ==
  /\ R!ObjectsRead(r)
  /\ R!NumObjects(r) = Len(db.objects)
  /\ LET read == R!Objects(r)
     IN  \A i \in DOMAIN db.objects : [text |-> db.objects[i].text] @@ read[i] = db.objects[i]

ReadsConnections(r) ==
  /\ R!ConnectionsRead(r)
  /\ R!NumLocations(r) = Len(db.locations)
  /\ LET read == R!Connections(r)
     IN  \A i \in DOMAIN db.locations :
           [n \in DOMAIN read[i] |-> [from |-> i - 1] @@ read[i][n]]
             = SelectSeq(db.conns, LAMBDA c : c.from = i - 1)

\* What a block does, on this machine: nothing after it has ended the entry.
Does(condacts) ==
  LET run == UpToTerminal(condacts)
  IN  [i \in DOMAIN run |->
         [op |-> run[i].op, indirect |-> run[i].args # <<>> /\ run[i].args[1].indirect,
          params |-> [j \in DOMAIN run[i].args |-> OperandByte(run[i], j)]]]

ReadsProcesses(r) ==
  /\ R!ProcessesRead(r)
  /\ R!Processes(r) =
       [p \in DOMAIN db.processes |-> [e \in DOMAIN db.processes[p] |->
          [verb |-> db.processes[p][e].verb, noun |-> db.processes[p][e].noun,
           condacts |-> Does(blocks[db.processes[p][e].block])]]]

SaysWhatWasWritten(r) ==
  /\ r.big = IsBigEndian /\ r.base = BaseAddress
  /\ ReadsTexts(r) /\ ReadsVocabulary(r) /\ ReadsObjects(r)
  /\ ReadsConnections(r) /\ ReadsProcesses(r)

\* What the bytes have no way of saying, and nothing before the linker refuses: a
\* database without words, objects' places or processes to speak of; a word that
\* is not letters; a code that is a token's, or an opcode's with the indirection;
\* a verb or a way out whose number ends the list it is in.
Expressible ==
  /\ db.words # <<>>
  /\ \A entry \in Range(Spellings) : \A c \in Range(VocabularyWord(entry.word)) : c = 32 \/ R!IsLetter(c)
  /\ \A text \in Range(ObjectTextsOf \o db.locations \o db.user \o db.system) :
       \A c \in Range(Encode(text)) : R!HasSpelling(c)
  /\ \A i \in DOMAIN db.conns : db.conns[i].word # EndOfList
  /\ Len(AllEntries) > 0
  /\ \A e \in Range(AllEntries) :
       /\ e.verb # EndOfProcess
       /\ \A c \in Range(UpToTerminal(blocks[e.block])) :
            /\ c.op < 128
            /\ \A i \in DOMAIN c.args : c.args[i].indirect => i = 1

\* The reader wants as much room for the mark that ends a process as for an entry.
\* The processes are the last section: after the mark of the last of them lies
\* the table of where each begins, and on a machine that aligns nothing that of
\* one process alone is too short.
RoomForTheLastMark == IsWordAligned \/ Len(db.processes) > 1

\* By the reader that works out how a database was laid, and by the one that is told.
IsRead ==
  /\ LET found == R!Readings(image)
     IN  found # <<>> /\ SaysWhatWasWritten(R!Opened(found[1].r))
  /\ R!Opens(R!QRunReading(QRun)) /\ SaysWhatWasWritten(R!Opened(R!QRunReading(QRun)))

\* A linked database with room for its last mark reads back as what was written,
\* whatever it was linked for (link.go, reader.go).
ReadsBack == (Linked /\ Expressible /\ RoomForTheLastMark) => IsRead

\* What roundtrip_test.go says of every one: We can read what we write.
EveryDatabaseIsRead == (Linked /\ Expressible) => IsRead
=============================================================================
