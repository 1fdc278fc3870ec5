------------------------------- MODULE Diskette -------------------------------
(***************************************************************************)
(* The disks of a release (internal/media: plus3disk.go, plus3dos.go), the *)
(* container they are kept in and what it may go through (dsk.go), and the *)
(* reader of their files (amsdos.go).                                      *)
(*                                                                         *)
(* What is on a disk is a sequence of cells.  A cell is a byte of a file,  *)
(* an entry of the directory, which fills 32 bytes in the program, or a    *)
(* disk specification: a sector of one kind is never taken for another.    *)
(* The sizes are constants, 128 bytes to the record, 512 to the sector,    *)
(* 1,024 to the block, 16 blocks to the extent in the program.             *)
(***************************************************************************)
EXTENDS Integers, Sequences, SequencesExt, FiniteSets

CONSTANTS RecordSize, SectorSize, BlockSize, EntrySize,
          BlocksPerExtent, Tracks, SectorsPerTrack,
          Unnameable,   \* the names dataName refuses
          Unreadable    \* those it lets by and cpmName11 does not know

ASSUME DisketteAssumption ==
  /\ {RecordSize, SectorSize, BlockSize, EntrySize, BlocksPerExtent} \subseteq Nat \ {0}
  /\ Tracks \in Nat \ {0} /\ SectorsPerTrack \in Nat \ {0, 1}
  /\ BlockSize % RecordSize = 0 /\ BlockSize % EntrySize = 0

\* The two formats.  Only the +3's says what it is, in its first sector.
Plus3Geometry == [format |-> "plus3", reserved |-> 1, dirBlocks |-> 2, firstID |-> 1]
DataGeometry == [format |-> "data", reserved |-> 0, dirBlocks |-> 1, firstID |-> 193]

VARIABLES geometry,
          directory,    \* the entries written so far
          data,         \* the cells of the blocks after the directory
          filed,        \* the files put on the disk
          refusal,      \* why the last was not: "no", "name", "room", "names"
          image,        \* the image, or <<>> when it has not been made
          spoilt        \* the tracks of it that have gone bad

disketteVars == <<geometry, directory, data, filed, refusal, image, spoilt>>

Ceiling(a, b) == (a + b - 1) \div b

AreaOf(g) == (Tracks - g.reserved) * SectorsPerTrack * SectorSize
Blocks == AreaOf(geometry) \div BlockSize
EntriesOf(g) == (g.dirBlocks * BlockSize) \div EntrySize
Plus3Names == EntriesOf(Plus3Geometry)

Filler == [filled |-> TRUE]
Filled(cells, size) == cells \o [i \in 1..(size - Len(cells)) |-> Filler]

\* The next block to be handed out.
NextBlock == geometry.dirBlocks + Len(data) \div BlockSize

-----------------------------------------------------------------------------
BlankDisk(g) ==
  /\ geometry = g
  /\ directory = <<>> /\ data = <<>> /\ filed = <<>>
  /\ refusal = "no" /\ image = <<>> /\ spoilt = {}

Wanted(file) == Ceiling(Len(file.data), BlockSize)

\* A file of no bytes still has the one entry that says it is there.
Extents(file) == IF Wanted(file) = 0 THEN 1 ELSE Ceiling(Wanted(file), BlocksPerExtent)

Least(a, b) == IF a < b THEN a ELSE b
Most(a, b) == IF a > b THEN a ELSE b

\* Mutant: every extent starts at the file's first block.
Extent_FromTheFirst(file, e) ==
  LET first == e * BlocksPerExtent
  IN  [entry |-> file.name, number |-> e,
       records |-> Ceiling(Most(Len(file.data) - first * BlockSize, 0), RecordSize),
       blocks |-> [i \in 1..Least(Wanted(file) - first, BlocksPerExtent) |-> NextBlock + i - 1]]

Extent(file, e) ==
  LET first == e * BlocksPerExtent
      records == Ceiling(Most(Len(file.data) - first * BlockSize, 0), RecordSize)
  IN  [entry |-> file.name, number |-> e,
       records |-> Least(records, (BlocksPerExtent * BlockSize) \div RecordSize),
       blocks |-> [i \in 1..Least(Wanted(file) - first, BlocksPerExtent) |->
                     NextBlock + first + i - 1]]

RefusalOf(file) ==
  IF file.name \in Unnameable THEN "name"
  ELSE IF NextBlock + Wanted(file) > Blocks THEN "room"
  ELSE IF Len(directory) + Extents(file) > EntriesOf(geometry) THEN "names"
  ELSE "no"

\* diskImage, one file of it.  A refusal is the end of the disk.
PutFile(file) ==
  /\ image = <<>> /\ refusal = "no"
  /\ refusal' = RefusalOf(file)
  /\ IF refusal' = "no"
     THEN /\ directory' = directory \o [e \in 1..Extents(file) |-> Extent(file, e - 1)]
          /\ data' = data \o Filled(file.data, Wanted(file) * BlockSize)
          /\ filed' = Append(filed, file)
     ELSE UNCHANGED <<directory, data, filed>>
  /\ UNCHANGED <<geometry, image, spoilt>>

\* dataImage: the tracks, each with its sectors in the order of their numbers.
Area ==
  LET names == FlattenSeq([i \in DOMAIN directory |-> Filled(<<directory[i]>>, EntrySize)])
  IN  Filled(Filled(names, geometry.dirBlocks * BlockSize) \o data, AreaOf(geometry))

Specification ==
  [tracks |-> Tracks, reserved |-> geometry.reserved, dirBlocks |-> geometry.dirBlocks]

TrackCells(t) ==
  LET size == SectorsPerTrack * SectorSize
      from == (t - 1 - geometry.reserved) * size
  IN  IF t > geometry.reserved THEN SubSeq(Area, from + 1, from + size)
      ELSE Filled(IF t = 1 /\ geometry.format = "plus3" THEN <<Specification>> ELSE <<>>, size)

DataImage ==
  [t \in 1..Tracks |->
     [s \in 1..SectorsPerTrack |->
        [id |-> geometry.firstID + s - 1,
         cells |-> SubSeq(TrackCells(t), (s - 1) * SectorSize + 1, s * SectorSize)]]]

CloseDisk ==
  /\ image = <<>> /\ refusal = "no"
  /\ image' = DataImage
  /\ UNCHANGED <<geometry, directory, data, filed, refusal, spoilt>>

-----------------------------------------------------------------------------
\* What a disk may go through before it is read again: a track written from
\* another sector on, as loaders were, or gone bad and copied as the drive found
\* it, with fewer sectors under one number.

Turn(t) ==
  /\ image # <<>> /\ t \notin spoilt
  /\ image' = [image EXCEPT ![t] = [s \in 1..SectorsPerTrack |-> @[(s % SectorsPerTrack) + 1]]]
  /\ UNCHANGED <<geometry, directory, data, filed, refusal, spoilt>>

Spoil(t) ==
  /\ image # <<>> /\ t \notin spoilt
  /\ image' = [image EXCEPT ![t] = [s \in 1..2 |-> [@[1] EXCEPT !.id = 199]]]
  /\ spoilt' = spoilt \cup {t}
  /\ UNCHANGED <<geometry, directory, data, filed, refusal>>

\* One drive's worth of disks made of files: a disk is begun again when what is
\* to be on it changes.
DiskNext(files) ==
  \/ \E file \in files : PutFile(file)
  \/ CloseDisk
  \/ \E t \in 1..Tracks : Turn(t) \/ Spoil(t)
  \/ \E g \in {Plus3Geometry, DataGeometry} : BlankDisk(g)'

DiskSpec(files) ==
  /\ \E g \in {Plus3Geometry, DataGeometry} : BlankDisk(g)
  /\ [][DiskNext(files)]_disketteVars

-----------------------------------------------------------------------------
\* The reader.

\* Positions in the order of their keys, and those of one key in their own.
Ordered(S, key) ==
  LET Before(x) == {y \in S : key[y] < key[x] \/ (key[y] = key[x] /\ y < x)}
  IN  [i \in 1..Cardinality(S) |-> CHOOSE x \in S : Cardinality(Before(x)) = i - 1]
InTurn(S) == Ordered(S, [x \in S |-> x])

\* trackPayload: the sectors in the order of their numbers.
SectorOrder(track) == Ordered(DOMAIN track, [s \in DOMAIN track |-> track[s].id])
TrackPayload(track) ==
  LET order == SectorOrder(track)
  IN  FlattenSeq([i \in DOMAIN track |-> track[order[i]].cells])

Damaged(track) == \E i, j \in DOMAIN track : i # j /\ track[i].id = track[j].id

\* Mutant: a track that has gone bad is as wide as what is left of it.
Payload_AsItComes == FlattenSeq([t \in DOMAIN image |-> TrackPayload(image[t])])

\* A track that has gone bad is made up to the width of the last good one.
ReadTrack(read, track) ==
  LET sectors == TrackPayload(track)
  IN  IF Damaged(track)
      THEN [read EXCEPT !.cells = @ \o Filled(sectors, Most(read.width, Len(sectors)))]
      ELSE [cells |-> read.cells \o sectors, width |-> Len(sectors)]
Payload == FoldLeft(ReadTrack, [cells |-> <<>>, width |-> 0], image).cells

\* cpmDirectory: an entry that is not one is passed over.
IsEntry(cell) ==
  "entry" \in DOMAIN cell /\ cell.entry \notin Unreadable /\ cell.records > 0

DirectoryAt(area, entries) ==
  LET read == [i \in 1..entries |-> area[(i - 1) * EntrySize + 1]]
      at == InTurn({i \in 1..entries : IsEntry(read[i])})
  IN  [i \in DOMAIN at |-> read[at[i]]]

InDisk(extents, area) ==
  \A e \in Range(extents) : \A b \in Range(e.blocks) : (b + 1) * BlockSize <= Len(area)

ExtentCells(e, area) ==
  LET cells == FlattenSeq([i \in DOMAIN e.blocks |->
                             SubSeq(area, e.blocks[i] * BlockSize + 1, (e.blocks[i] + 1) * BlockSize)])
  IN  SubSeq(cells, 1, Least(e.records * RecordSize, Len(cells)))

\* WithoutPlus3Header: a header takes a record.
IsHeader(cell) == "header" \in DOMAIN cell
WithoutHeader(cells) ==
  IF cells # <<>> /\ IsHeader(cells[1]) THEN SubSeq(cells, RecordSize + 1, Len(cells)) ELSE cells

\* cpmAssemble: the extents of each name, in order, cut by their records; the
\* files in the order their names are first met.
Assembled(extents, area) ==
  LET PartsOf(name) == {i \in DOMAIN extents : extents[i].entry = name}
      Whole(name) ==
        LET at == Ordered(PartsOf(name), [i \in PartsOf(name) |-> extents[i].number])
        IN  FlattenSeq([i \in DOMAIN at |-> ExtentCells(extents[at[i]], area)])
      met == InTurn({i \in DOMAIN extents : \A j \in 1..(i - 1) : extents[j].entry # extents[i].entry})
  IN  [i \in DOMAIN met |-> [name |-> extents[met[i]].entry,
                             data |-> WithoutHeader(Whole(extents[met[i]].entry))]]

FilesAt(payload, start, entries) ==
  LET area == SubSeq(payload, start + 1, Len(payload))
  IN  IF start + entries * EntrySize > Len(payload) THEN <<>>
      ELSE LET extents == DirectoryAt(area, entries)
           IN  IF InDisk(extents, area) THEN Assembled(extents, area) ELSE <<>>

IsSpecification(cell) == "tracks" \in DOMAIN cell

\* cpmFiles: where the data area starts, and how many names it begins with, is
\* what the specification says, or is tried in turn.
ReadFiles ==
  LET payload == Payload
      trackSize == Len(TrackPayload(image[1]))
      said == IF IsSpecification(payload[1])
              THEN <<FilesAt(payload, payload[1].reserved * trackSize,
                             (payload[1].dirBlocks * BlockSize) \div EntrySize)>>
              ELSE <<>>
      tried == said \o [r \in 1..3 |-> FilesAt(payload, (r - 1) * trackSize, EntriesOf(DataGeometry))]
      Found(i) == tried[i] # <<>> /\ \A j \in 1..(i - 1) : tried[j] = <<>>
  IN  IF \A i \in DOMAIN tried : tried[i] = <<>> THEN <<>>
      ELSE tried[CHOOSE i \in DOMAIN tried : Found(i)]

-----------------------------------------------------------------------------
DisketteTypeOK ==
  /\ geometry \in {Plus3Geometry, DataGeometry}
  /\ refusal \in {"no", "name", "room", "names"}
  /\ Len(data) % BlockSize = 0
  /\ spoilt \subseteq 1..Tracks

\* No block is two files', nor two extents', nor the directory's: the blocks a
\* disk hands out are nobody else's (plus3disk.go: next).
BlocksAreOwned ==
  \A i, j \in DOMAIN directory :
    \A k \in DOMAIN directory[i].blocks, l \in DOMAIN directory[j].blocks :
      /\ directory[i].blocks[k] \in geometry.dirBlocks..(NextBlock - 1)
      /\ directory[i].blocks[k] = directory[j].blocks[l] => i = j /\ k = l

\* The tracks a file, or the directory, lies on.
TracksOf(blocks) ==
  {geometry.reserved + 1 + ((b * BlockSize + c) \div (SectorsPerTrack * SectorSize)) :
     b \in blocks, c \in 0..(BlockSize - 1)}

BlocksOf(file) ==
  UNION {Range(directory[i].blocks) : i \in {j \in DOMAIN directory : directory[j].entry = file.name}}

\* A name that is once on the disk, of a file that has something in it.
Plain(file) ==
  /\ file.data # <<>> /\ file.name \notin Unreadable
  /\ Cardinality({i \in DOMAIN filed : filed[i].name = file.name}) = 1

\* A file reads back as it was written, up to the end of its last record, from
\* whatever sector its tracks were written on; and a track that has gone bad
\* takes no file with it but those that lie on it, as long as the first track and
\* the directory's own are sound (dsk.go: "leaves everything after it where the
\* directory says it is").
FilesReadBack ==
  (image # <<>> /\ spoilt \cap ({1} \cup TracksOf(0..(geometry.dirBlocks - 1))) = {}) =>
     \A file \in Range(filed) :
       (Plain(file) /\ spoilt \cap TracksOf(BlocksOf(file)) = {}) =>
          [name |-> file.name,
           data |-> WithoutHeader(Filled(file.data, Ceiling(Len(file.data), RecordSize) * RecordSize))]
            \in Range(ReadFiles)
=============================================================================
