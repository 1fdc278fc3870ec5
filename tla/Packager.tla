------------------------------- MODULE Packager -------------------------------
(***************************************************************************)
(* From a build to what a machine loads (cmd/qpack, internal/pack): a tape *)
(* for the 48K Spectrum (zx48.go, zximages.go), a disk for the +3          *)
(* (zxrelease.go, zxplus3cache.go, zxplus3images.go) or for the CPC        *)
(* (cpc.go), of whatever the build's directory holds by then.              *)
(*                                                                         *)
(* Contents are known by their size, and a picture's by the size it packs  *)
(* to; memory and sizes are scaled down together.  A byte of a picture is  *)
(* the picture's number, one of another part is that part's mark.          *)
(***************************************************************************)
EXTENDS BuildFolder, Diskette

CONSTANTS Top,                \* one past the last address, 0x10000
          ScreenBase, InterpreterOrigin, DatabaseOrigin, PictureData,
          InterpreterSize,    \* of each interpreter, by variant
          StubSize, FontSize, FontTrailer, FontHeader,
          CacheAt, CallSize,  \* what plus3DisableInterrupts appends
          CPCOrigin, CPCDatabase, CPCCeiling, CPCGraphics, CPCFontOffset,
          ReleaseNames,       \* what --name may say
          MaxWorn             \* how many tracks of a disk may wear

\* The last number a picture's byte can say ends the index.
EndMark == 255

ASSUME PackagerAssumption ==
  /\ Numbers \subseteq 0..EndMark
  /\ {Top, ScreenBase, InterpreterOrigin, DatabaseOrigin, PictureData} \subseteq Nat
  /\ {StubSize, FontSize, FontTrailer, FontHeader, CacheAt, CallSize} \subseteq Nat
  /\ {CPCOrigin, CPCDatabase, CPCCeiling, CPCGraphics, CPCFontOffset} \subseteq Nat
  /\ \A variant \in {"48k", "plus3", "cpc"} : InterpreterSize[variant] \in Nat
  /\ FontSize + FontTrailer <= StubSize
  /\ \A b \in Builds :
       /\ {b.database, b.loading} \subseteq Nat \cup {Empty}
       /\ \A n \in DOMAIN b.images : b.images[n] \in Nat \cup {Empty}

VARIABLES packing,      \* "idle", "assembling", "writing", "done" or "failed"
          packed,       \* the build being packed
          tape,         \* the blocks of the tape, in the order they load
          onto,         \* the files for the disk
          dropped       \* the pictures left out, and said to be

packagerVars == <<packing, packed, tape, onto, dropped>>

SizeOf(contents) == IF contents = Empty THEN 0 ELSE contents
Bytes(mark, size) == [i \in 1..size |-> mark]

\* The marks of what is not a picture.
Program == 240
InterpreterMark == 241
DatabaseMark == 242
StubMark == 243
FontMark == 244
LoadingMark == 245

Ascending(S) ==
  CHOOSE s \in [1..Cardinality(S) -> S] : \A i, j \in DOMAIN s : i < j => s[i] < s[j]

PicturesWhole == \A n \in DOMAIN packed.images : packed.images[n] # Empty

\* The names of a release's files: a part's, or a picture's by its number.
Part(name) == [part |-> name]
Picture(n) == [picture |-> n]
PartNames == {"DISK", "LOADING.SCR", "DAAD.BIN", "PART1.DDB", "PART1.SDG", "DAAD.GRA"}

\* They are of letters, digits and a point, which is what cpmName11 lets by.
ASSUME NamesAssumption ==
  /\ \A name \in PartNames : Part(name) \notin Unreadable
  /\ \A n \in Numbers : Picture(n) \notin Unreadable

-----------------------------------------------------------------------------
\* The 48K Spectrum's memory.

DatabaseEnd == DatabaseOrigin + SizeOf(packed.database)
\* Mutant: the pictures are laid at their address whatever lies there.
PageAt_Fixed == PictureData
PageAt == IF DatabaseEnd >= PictureData THEN DatabaseEnd + 1 ELSE PictureData

Word(n) == <<n \div 256, n % 256>>
LowFirst(n) == Reverse(Word(n))
NumberByte(n) == n % 256

\* A picture is its runs, each with where it goes and how long it is, and a zero
\* word; here it is one run.
PackedPicture(n) ==
  LowFirst(ScreenBase + 1) \o LowFirst(packed.images[n]) \o Bytes(n, packed.images[n]) \o <<0, 0>>

IndexFixed == 6
IndexEntry == 3

\* buildImagePage: a picture that does not fit is left out.
Page(images) ==
  LET room == Top - PageAt - StubSize - IndexFixed
      Lay(page, n) ==
        IF Len(page.body) + Len(PackedPicture(n)) + IndexEntry > room
        THEN [page EXCEPT !.out = @ \cup {n}]
        ELSE [page EXCEPT !.rows = Append(@, <<NumberByte(n)>> \o Word(PageAt + Len(page.body))),
                          !.body = @ \o PackedPicture(n)]
  IN  FoldLeft(Lay, [body |-> <<>>, rows |-> <<>>, out |-> {}], Ascending(images))

\* imageIndex: written forwards and turned round, to be read downwards.
Index(page) ==
  Reverse(Word(PageAt) \o Word(Len(page.body)) \o <<EndMark>> \o FlattenSeq(page.rows) \o <<EndMark>>)

\* charsetGlyphs, replaceCharset.
FontFits ==
  packed.charset # Empty => packed.charset \in {FontSize, FontSize + FontHeader}
TopBlock(page) ==
  Index(page) \o Bytes(StubMark, StubSize - FontSize - FontTrailer)
    \o Bytes(FontMark, FontSize) \o Bytes(StubMark, FontTrailer)
TopOrigin(page) == Top - Len(TopBlock(page))

\* zxBlocks: what both Spectrum releases are made of, or why there is none.
BlocksFit(variant, page) ==
  /\ FontFits
  /\ InterpreterOrigin + InterpreterSize[variant] <= DatabaseOrigin
  /\ DatabaseEnd <= TopOrigin(page)

TapeBlock(letter, at, body) == [letter |-> letter, at |-> at, body |-> body]

TapeOf(page) ==
  LET shown == IF packed.loading = Empty THEN <<>>
               ELSE <<TapeBlock("S", ScreenBase, Bytes(LoadingMark, packed.loading))>>
      game == <<TapeBlock("I", InterpreterOrigin, Bytes(InterpreterMark, InterpreterSize["48k"])),
                TapeBlock("D", DatabaseOrigin, Bytes(DatabaseMark, SizeOf(packed.database))),
                TapeBlock("G", TopOrigin(page), TopBlock(page))>>
      picts == IF page.body = <<>> THEN <<>> ELSE <<TapeBlock("P", PageAt, page.body)>>
  IN  shown \o game \o picts

\* TAP.Code takes no block that runs past the top of memory.
TapeHolds(page) == \A b \in Range(TapeOf(page)) : b.at + Len(b.body) <= Top

-----------------------------------------------------------------------------
\* The +3's files.

Cells(mark, size) == [i \in 1..size |-> [byte |-> mark]]
Header(size) == Filled(<<[header |-> size]>>, RecordSize)
Headed(name, mark, size) == [name |-> Part(name), data |-> Header(size) \o Cells(mark, size)]

PictureHeader == 1
PictureFile(n) == [name |-> Picture(n), data |-> Cells(n, PictureHeader + packed.images[n])]

\* chooseCached: as few as bring the names within the directory, smallest first, and
\* the lower number first of those of one size.
OtherFiles == IF packed.loading = Empty THEN 4 ELSE 5
CacheEntry == 1
CacheRoom == Top - CacheAt

Cached ==
  LET numbers == DOMAIN packed.images
      bySize == Ordered(numbers, packed.images)
      short == Cardinality(numbers) + OtherFiles - Plus3Names
      over == IF short > 0 THEN short + 1 ELSE 0
      Grown(in, n) == in.used + PictureHeader + packed.images[n] + CacheEntry
      Choose(in, n) ==
        IF in.full \/ Len(in.chosen) >= over THEN in
        ELSE IF Grown(in, n) + CacheEntry > CacheRoom THEN [in EXCEPT !.full = TRUE]
        ELSE [in EXCEPT !.used = Grown(in, n), !.chosen = Append(@, n)]
  IN  Range(FoldLeft(Choose, [used |-> 0, full |-> FALSE, chosen |-> <<>>], bySize).chosen)

Loose == DOMAIN packed.images \ Cached

\* plus3Cache: the length of the rest, the index, and the pictures.
CacheIndexSize == (Cardinality(Cached) + 1) * CacheEntry
\* Mutant: the pictures are looked for where the index begins.
CacheFile_OverTheIndex ==
  LET Add(sofar, n) ==
        [rows |-> Append(sofar.rows, [number |-> n, size |-> packed.images[n],
                                      at |-> CacheAt + Len(sofar.data)]),
         data |-> sofar.data \o PictureFile(n).data]
      laid == FoldLeft(Add, [rows |-> <<>>, data |-> <<>>], Ascending(Cached))
      rest == Append(laid.rows, [number |-> EndMark]) \o laid.data
  IN  [name |-> Part("DAAD.GRA"), data |-> <<[length |-> Len(rest)]>> \o rest]

CacheFile ==
  LET Add(sofar, n) ==
        [rows |-> Append(sofar.rows, [number |-> n, size |-> packed.images[n],
                                      at |-> CacheAt + CacheIndexSize + Len(sofar.data)]),
         data |-> sofar.data \o PictureFile(n).data]
      laid == FoldLeft(Add, [rows |-> <<>>, data |-> <<>>], Ascending(Cached))
      rest == Append(laid.rows, [number |-> EndMark]) \o laid.data
  IN  [name |-> Part("DAAD.GRA"), data |-> <<[length |-> Len(rest)]>> \o rest]

CacheFits ==
  Cached # {} =>
    /\ InterpreterOrigin + InterpreterSize["plus3"] + CallSize <= DatabaseOrigin
    /\ EndMark \notin Cached
    /\ Len(CacheFile.data) - 1 <= CacheRoom

Plus3Files ==
  LET call == IF Cached = {} THEN 0 ELSE CallSize
      blank == Page({})
      picture == IF packed.loading = Empty THEN <<>>
                 ELSE <<Headed("LOADING.SCR", LoadingMark, packed.loading)>>
      cache == IF Cached = {} THEN <<>> ELSE <<CacheFile>>
      loose == Ascending(Loose)
  IN  <<Headed("DISK", Program, 1)>> \o picture
        \o <<Headed("DAAD.BIN", InterpreterMark, InterpreterSize["plus3"] + call),
             Headed("PART1.DDB", DatabaseMark, SizeOf(packed.database)),
             Headed("PART1.SDG", StubMark, Len(TopBlock(blank)))>>
        \o cache \o [i \in DOMAIN loose |-> PictureFile(loose[i])]

\* cpcBinary: one file, under a header the disk's reader leaves alone.
CPCSize == CPCDatabase - CPCOrigin + SizeOf(packed.database) + CPCGraphics
CPCFits(name) ==
  /\ name \notin Unnameable
  /\ InterpreterSize["cpc"] <= CPCDatabase - CPCOrigin
  /\ FontFits /\ (packed.charset # Empty => CPCFontOffset + FontSize <= CPCGraphics)
  /\ CPCOrigin + CPCSize < CPCCeiling
CPCFile(name) ==
  [name |-> name,
   data |-> Filled(<<[amsdos |-> CPCSize]>>, RecordSize) \o Cells(DatabaseMark, CPCSize)]

-----------------------------------------------------------------------------
PackagerInit ==
  /\ packing = "idle"
  /\ packed \in Builds
  /\ tape = <<>>
  /\ onto = <<>>
  /\ dropped = {}
  /\ BlankDisk(Plus3Geometry)

\* qpack reads the directory while nobody is writing it.
ReadBuild ==
  /\ packing = "idle" /\ writing = "nothing"
  /\ packed' = IF Readable THEN Read ELSE packed
  /\ packing' = IF Readable THEN "assembling" ELSE "failed"
  /\ UNCHANGED <<tape, onto, dropped>>
  /\ UNCHANGED disketteVars

Fail ==
  /\ packing' = "failed"
  /\ UNCHANGED <<packed, tape, onto, dropped>>
  /\ UNCHANGED disketteVars

\* ZX48.
AssembleTape ==
  /\ packing = "assembling" /\ packed.manifest = "48k"
  /\ LET page == Page(DOMAIN packed.images)
     IN  IF PicturesWhole /\ BlocksFit("48k", page) /\ TapeHolds(page)
         THEN /\ tape' = TapeOf(page)
              /\ dropped' = page.out
              /\ packing' = "done"
              /\ UNCHANGED <<packed, onto>> /\ UNCHANGED disketteVars
         ELSE Fail

\* zxPlus3 and CPCRelease.
AssembleFiles ==
  /\ packing = "assembling"
  /\ \/ /\ packed.manifest = "plus3"
        /\ IF PicturesWhole /\ BlocksFit("plus3", Page({})) /\ CacheFits
           THEN /\ onto' = Plus3Files
                /\ packing' = "writing"
                /\ UNCHANGED <<packed, tape, dropped>> /\ UNCHANGED disketteVars
           ELSE Fail
     \/ /\ packed.manifest = "cpc"
        /\ \E name \in ReleaseNames :
             IF CPCFits(name)
             THEN /\ onto' = <<CPCFile(name)>>
                  /\ packing' = "writing"
                  /\ geometry' = DataGeometry
                  /\ UNCHANGED <<packed, tape, dropped, directory, data, filed, refusal, image, spoilt>>
             ELSE Fail

PutNext ==
  /\ packing = "writing" /\ Len(filed) < Len(onto)
  /\ PutFile(onto[Len(filed) + 1])
  /\ UNCHANGED packagerVars

\* ZXDisk: the last of the pictures comes off until the rest fit.
DropPicture ==
  /\ packing = "writing" /\ refusal # "no"
  /\ LET last == onto[Len(onto)].name
     IN  IF last \in {Picture(n) : n \in Numbers}
         THEN /\ onto' = SubSeq(onto, 1, Len(onto) - 1)
              /\ dropped' = dropped \cup {last.picture}
              /\ directory' = <<>> /\ data' = <<>> /\ filed' = <<>> /\ refusal' = "no"
              /\ UNCHANGED <<packing, packed, tape, geometry, image, spoilt>>
         ELSE Fail

FinishDisk ==
  /\ packing = "writing" /\ Len(filed) = Len(onto)
  /\ CloseDisk
  /\ packing' = "done"
  /\ UNCHANGED <<packed, tape, onto, dropped>>

\* What happens to the disk once it has left.
Worn == spoilt \cup {t \in DOMAIN image : image[t][1].id # geometry.firstID}
WearDisk ==
  /\ Cardinality(Worn) < MaxWorn
  /\ \E t \in (1..Tracks) \ Worn : Turn(t) \/ Spoil(t)
  /\ UNCHANGED packagerVars

PackagerNext ==
  \/ ReadBuild \/ AssembleTape \/ AssembleFiles
  \/ PutNext \/ DropPicture \/ FinishDisk \/ WearDisk

\* One program writes the directory, and another packs what is there.
ReleaseNext ==
  \/ FolderNext /\ UNCHANGED packagerVars /\ UNCHANGED disketteVars
  \/ PackagerNext /\ UNCHANGED folderVars

ReleaseSpec ==
  FolderInit /\ PackagerInit /\ [][ReleaseNext]_<<folderVars, packagerVars, disketteVars>>

-----------------------------------------------------------------------------
\* The machine.

\* A tape loads block after block, each where its header says.
Memory ==
  LET Load(ram, b) ==
        [a \in 0..(Top - 1) |->
           IF a \in b.at..(b.at + Len(b.body) - 1) THEN b.body[a - b.at + 1] ELSE ram[a]]
  IN  FoldLeft(Load, [a \in 0..(Top - 1) |-> 0], tape)

\* What the interpreter finds of a picture: the index read downwards from the
\* byte below the stub, and from where it says, run after run.
RowAt(ram, n) ==
  LET first == Top - StubSize - 1 - 5
      Row(k) == first - 3 * k
      rows == {k \in 0..(first \div 3 - 1) :
                 ram[Row(k)] = n /\ \A j \in 0..(k - 1) : ram[Row(j)] \notin {EndMark, n}}
  IN  IF n = EndMark \/ rows = {} THEN {} ELSE {Row(CHOOSE k \in rows : TRUE)}

\* Addresses come round past the last.
Drawn(ram, n) ==
  LET At(a) == ram[a % Top]
      Word16(a) == At(a) + 256 * At(a + 1)
  IN  {[at |-> Word16(start), body |-> [i \in 1..Word16(start + 2) |-> At(start + 3 + i)]] :
         start \in {256 * ram[row - 1] + ram[row - 2] : row \in RowAt(ram, n)}}

Shows(ram, n) ==
  Drawn(ram, n) = {[at |-> ScreenBase + 1, body |-> Bytes(n, packed.images[n])]}

Carried == DOMAIN packed.images \ dropped

\* A tape's pictures are found and drawn, or said not to be carried: the index is
\* "the table that says where the pictures are" (zx48.go), read where it lies once
\* every block has loaded.  The number that ends the index is left aside.
PicturesAreFound ==
  tape # <<>> => LET ram == Memory IN \A n \in Carried \ {EndMark} : Shows(ram, n)

LettersBlocks(letter) == {b \in Range(tape) : b.letter = letter}
PageEndsBelowTheIndex ==
  \A p \in LettersBlocks("P"), g \in LettersBlocks("G") : p.at + Len(p.body) <= g.at

\* What a block is to keep once all have loaded: the loading picture, which may be
\* a file of any length, what is below the interpreter, and the index with the stub
\* under it the stub.
KeptOf(b) ==
  {i \in DOMAIN b.body : /\ b.letter = "S" => b.at + i - 1 < InterpreterOrigin
                         /\ b.letter = "G" => i > Len(b.body) - StubSize}

\* The interpreter, the database, the pictures and the stub load at their
\* addresses, none over another; and when the pictures stop short of the index,
\* every one of a number other than its end mark is found and drawn.
TapeLoadsWhole ==
  tape # <<>> =>
    LET ram == Memory
    IN  /\ \A b \in Range(tape) : \A i \in KeptOf(b) : ram[b.at + i - 1] = b.body[i]
        /\ PageEndsBelowTheIndex => \A n \in Carried \ {EndMark} : Shows(ram, n)

\* Found through the index of the buffer, read where it was loaded.
InBuffer(n) ==
  n # EndMark /\ \E f \in Range(ReadFiles) :
    /\ f.name = Part("DAAD.GRA")
    /\ \E i \in 2..Len(f.data) :
         /\ "number" \in DOMAIN f.data[i] /\ f.data[i].number = n
         /\ SubSeq(f.data, f.data[i].at - CacheAt + 2,
                   f.data[i].at - CacheAt + 1 + PictureHeader + f.data[i].size) = PictureFile(n).data

OnDisk(n) ==
  \E f \in Range(ReadFiles) :
    f.name = Picture(n) /\ SubSeq(f.data, 1, Len(PictureFile(n).data)) = PictureFile(n).data

\* Every picture of a disk that has not been worn is a file of its own, or is
\* found in the buffer, or was said not to be on it; and the parts that are not
\* pictures are all there, each without its header.
EveryPictureAccounted ==
  (image # <<>> /\ spoilt = {} /\ packed.manifest = "plus3") =>
    /\ \A n \in DOMAIN packed.images : (n \in dropped) = ~(OnDisk(n) \/ InBuffer(n))
    /\ {Part("DISK"), Part("DAAD.BIN"), Part("PART1.DDB"), Part("PART1.SDG")}
         \subseteq {f.name : f \in Range(ReadFiles)}
=============================================================================
