---------------------------- MODULE PackagerProofs ----------------------------
(***************************************************************************)
(* What lies between the compiler and a machine: a build that was written  *)
(* whole is read as it was written, whatever builds there are and however  *)
(* often a write has stopped half way; the blocks of a disk are nobody     *)
(* else's, for every size of sector, block, extent and directory, and      *)
(* every file put on it; a tape loads whole, for every build and every     *)
(* size of its parts; every file of a disk is read as it was put there     *)
(* wherever its tracks are sound, in whatever order their sectors stand;   *)
(* and every picture of a +3's disk is found, or said not to be on it.     *)
(***************************************************************************)
EXTENDS Packager, Induction, SequenceTheorems, TLAPS

-----------------------------------------------------------------------------
\* THE BUILD'S DIRECTORY

\* What is still to be written once f has been.
Later(f) ==
  CASE f = "manifest" -> {"database", "charset", "loading", "images", "pictures"}
    [] f = "database" -> {"charset", "loading", "images", "pictures"}
    [] f = "charset" -> {"loading", "images", "pictures"}
    [] f = "loading" -> {"images", "pictures"}

Functions ==
  /\ files = [f \in Files |-> files[f]]
  /\ pictures = [n \in Numbers |-> pictures[n]]

\* The files written so far are this build's.
FilesOfTheBuild ==
  \A f \in Files : writing \in Later(f) \/ complete => files[f] = Replaced(f)

\* So are the pictures, and nothing else is left in their directory.
PicturesOfTheBuild ==
  writing = "pictures" \/ complete =>
     \A n \in Numbers :
       pictures[n] = IF n \in DOMAIN build.images /\ n \notin left THEN build.images[n] ELSE Absent

FolderOK ==
  /\ Functions
  /\ FolderTypeOK
  /\ FilesOfTheBuild
  /\ PicturesOfTheBuild
  /\ complete => writing = "nothing" /\ left = {}
  /\ writing = "pictures" => left \subseteq DOMAIN build.images

-----------------------------------------------------------------------------
LEMMA FolderStart ==
  ASSUME FolderInit
  PROVE  FolderOK
<1>1. FolderTypeOK /\ Functions
  BY DEF FolderInit, FolderTypeOK, Functions
<1>2. FilesOfTheBuild
  BY DEF FolderInit, FilesOfTheBuild, Later, Files
<1>3. PicturesOfTheBuild
  BY DEF FolderInit, PicturesOfTheBuild
<1> QED
  BY <1>1, <1>2, <1>3 DEF FolderOK, FolderInit

LEMMA BeginKeeps ==
  ASSUME FolderOK, NEW b \in Builds, Begin(b)
  PROVE  FolderOK'
<1>1. (FolderTypeOK /\ Functions)'
  BY DEF FolderOK, Begin, FolderTypeOK, Functions, Files
<1>2. FilesOfTheBuild'
  BY DEF Begin, FilesOfTheBuild, Later, Files
<1>3. PicturesOfTheBuild'
  BY DEF Begin, PicturesOfTheBuild
<1> QED
  BY <1>1, <1>2, <1>3 DEF FolderOK, Begin

LEMMA WriteFileKeeps ==
  ASSUME FolderOK, WriteFile
  PROVE  FolderOK'
<1> USE DEF FolderOK
<1>1. /\ writing \in Files /\ writing' = After(writing) /\ writing' \notin {"pictures", "nothing"}
      /\ UNCHANGED <<pictures, build, left, complete>>
      /\ ~complete
  BY DEF WriteFile, After, Files
<1>2. files' = [f \in Files |-> IF f = writing THEN Replaced(writing) ELSE files[f]]
  BY DEF WriteFile, Functions
<1>3. (FolderTypeOK /\ Functions)'
  BY <1>1, <1>2 DEF FolderTypeOK, Functions, After, Files
<1>4. \A f \in Files : writing' \in Later(f) => f = writing \/ writing \in Later(f)
  BY <1>1 DEF After, Later, Files
<1>5. \A f \in Files : Replaced(f)' = Replaced(f)
  BY <1>1 DEF Replaced
<1>6. FilesOfTheBuild'
  BY <1>1, <1>2, <1>4, <1>5 DEF FilesOfTheBuild
<1>7. PicturesOfTheBuild'
  BY <1>1 DEF PicturesOfTheBuild
<1> QED
  BY <1>1, <1>3, <1>6, <1>7

LEMMA ClearPicturesKeeps ==
  ASSUME FolderOK, ClearPictures
  PROVE  FolderOK'
<1> USE DEF FolderOK
<1>1. /\ writing = "images" /\ writing' = "pictures" /\ left' = DOMAIN build.images /\ ~complete
      /\ pictures' = [n \in Numbers |-> Absent]
      /\ UNCHANGED <<files, build, complete>>
  BY DEF ClearPictures
<1>2. build \in Builds /\ DOMAIN build.images \subseteq Numbers
  BY BuildFolderAssumption DEF FolderTypeOK
<1>3. (FolderTypeOK /\ Functions)'
  BY <1>1, <1>2 DEF FolderTypeOK, Functions
<1>4. \A f \in Files : writing \in Later(f)
  BY <1>1 DEF Later, Files
<1>5. FilesOfTheBuild'
  BY <1>1, <1>4 DEF FilesOfTheBuild, Replaced
<1>6. PicturesOfTheBuild'
  BY <1>1 DEF PicturesOfTheBuild
<1> QED
  BY <1>1, <1>3, <1>5, <1>6

LEMMA WritePictureKeeps ==
  ASSUME FolderOK, NEW m \in Numbers, WritePicture(m)
  PROVE  FolderOK'
<1> USE DEF FolderOK
<1>1. /\ writing = "pictures" /\ left' = left \ {m} /\ m \in left /\ ~complete
      /\ UNCHANGED <<files, build, writing, complete>>
  BY DEF WritePicture
<1>2. pictures' = [n \in Numbers |-> IF n = m THEN build.images[m] ELSE pictures[n]]
  BY DEF WritePicture, Functions
<1>3. (FolderTypeOK /\ Functions)'
  BY <1>1, <1>2 DEF FolderTypeOK, Functions
<1>4. FilesOfTheBuild'
  BY <1>1 DEF FilesOfTheBuild, Replaced
<1>5. PicturesOfTheBuild'
  <2> SUFFICES ASSUME NEW n \in Numbers
               PROVE  pictures'[n] = IF n \in DOMAIN build.images /\ n \notin left'
                                     THEN build.images[n] ELSE Absent
    BY <1>1 DEF PicturesOfTheBuild
  <2>1. pictures[n] = IF n \in DOMAIN build.images /\ n \notin left
                      THEN build.images[n] ELSE Absent
    BY <1>1 DEF PicturesOfTheBuild
  <2>2. left \subseteq DOMAIN build.images
    BY <1>1
  <2>3. CASE n = m
    BY <1>1, <1>2, <2>2, <2>3
  <2>4. CASE n # m
    BY <1>1, <1>2, <2>1, <2>4
  <2> QED
    BY <2>3, <2>4
<1> QED
  BY <1>1, <1>3, <1>4, <1>5

LEMMA FinishKeeps ==
  ASSUME FolderOK, FinishWriting
  PROVE  FolderOK'
<1> USE DEF FolderOK
<1>1. /\ writing = "pictures" /\ left = {} /\ writing' = "nothing" /\ complete'
      /\ UNCHANGED <<files, pictures, build, left>>
  BY DEF FinishWriting
<1>2. (FolderTypeOK /\ Functions)'
  BY <1>1 DEF FolderTypeOK, Functions, FinishWriting
<1>3. \A f \in Files : writing \in Later(f)
  BY <1>1 DEF Later, Files
<1>4. FilesOfTheBuild'
  BY <1>1, <1>3 DEF FilesOfTheBuild, Replaced
<1>5. PicturesOfTheBuild'
  BY <1>1 DEF PicturesOfTheBuild
<1> QED
  BY <1>1, <1>2, <1>4, <1>5

\* A write that stops was not whole, and leaves nothing to be read as if it were.
LEMMA StopKeeps ==
  ASSUME FolderOK, StopWriting
  PROVE  FolderOK'
<1> USE DEF FolderOK
<1>1. /\ writing' = "nothing" /\ left' = {} /\ complete = FALSE /\ complete' = FALSE
      /\ UNCHANGED build
  BY DEF StopWriting, FolderTypeOK
<1>2. DOMAIN files' = Files /\ files' = [f \in Files |-> files'[f]]
  BY DEF StopWriting, Functions, FolderTypeOK
<1>3. DOMAIN pictures' = Numbers /\ pictures' = [n \in Numbers |-> pictures'[n]]
  BY DEF StopWriting, Functions, FolderTypeOK
<1>4. (FolderTypeOK /\ Functions)'
  BY <1>1, <1>2, <1>3 DEF FolderTypeOK, Functions
<1>5. FilesOfTheBuild' /\ PicturesOfTheBuild'
  BY <1>1 DEF FilesOfTheBuild, PicturesOfTheBuild, Later, Files
<1> QED
  BY <1>1, <1>4, <1>5

LEMMA FolderStep ==
  ASSUME FolderOK, [FolderNext]_folderVars
  PROVE  FolderOK'
<1>1. CASE UNCHANGED folderVars
  BY <1>1 DEF folderVars, FolderOK, Functions, FolderTypeOK, FilesOfTheBuild, PicturesOfTheBuild,
              Replaced
<1> QED
  BY <1>1, BeginKeeps, WriteFileKeeps, ClearPicturesKeeps, WritePictureKeeps, FinishKeeps,
     StopKeeps DEF FolderNext

\* What the invariant says of a write that came to its end.
LEMMA WholeIsRead ==
  ASSUME FolderOK
  PROVE  WrittenIsRead
<1> SUFFICES ASSUME complete
             PROVE  Read = build /\ (Readable <=> MachineOf[build.manifest] # NoMachine)
  BY DEF WrittenIsRead
<1>1. /\ build \in Builds /\ left = {}
      /\ \A f \in Files : files[f] = Replaced(f)
      /\ \A n \in Numbers :
           pictures[n] = IF n \in DOMAIN build.images THEN build.images[n] ELSE Absent
  BY DEF FolderOK, FolderTypeOK, FilesOfTheBuild, PicturesOfTheBuild
<1>2. /\ build = [manifest |-> build.manifest, database |-> build.database,
                  charset |-> build.charset, loading |-> build.loading,
                  images |-> [n \in DOMAIN build.images |-> build.images[n]]]
      /\ build.manifest # Empty /\ build.manifest # Absent /\ build.database # Absent
      /\ build.charset # Absent /\ build.loading # Absent
      /\ DOMAIN build.images \subseteq Numbers
      /\ \A n \in DOMAIN build.images : build.images[n] # Absent
      /\ Empty # Absent
  BY <1>1, BuildFolderAssumption DEF Files
<1>3. files.manifest = build.manifest /\ files.database = build.database
  BY <1>1 DEF Replaced, Files
<1>4. OrEmpty(files.charset) = build.charset /\ OrEmpty(files.loading) = build.loading
  BY <1>1, <1>2 DEF Replaced, Files, OrEmpty
<1>5. {m \in Numbers : pictures[m] # Absent} = DOMAIN build.images
  BY <1>1, <1>2
<1>6. [n \in {m \in Numbers : pictures[m] # Absent} |-> pictures[n]]
        = [n \in DOMAIN build.images |-> build.images[n]]
  BY <1>1, <1>2, <1>5
<1>7. Read = [manifest |-> build.manifest, database |-> build.database,
              charset |-> build.charset, loading |-> build.loading,
              images |-> [n \in DOMAIN build.images |-> build.images[n]]]
  BY <1>3, <1>4, <1>6 DEF Read
<1>8. Readable <=> MachineOf[build.manifest] # NoMachine
  BY <1>2, <1>3 DEF Readable, NamesItsMachine
<1> QED
  BY <1>2, <1>7, <1>8

\* WHAT WAS WRITTEN IS WHAT IS READ: after a write that ended, the directory holds
\* that build and nothing of any other, stopped or not; it can be read exactly when
\* the build is for a machine of a number other than 0 (build.go, Write and Read).
THEOREM WholeBuildsAreRead == FolderSpec => []WrittenIsRead
<1>1. FolderInit => FolderOK
  BY FolderStart
<1>2. FolderOK /\ [FolderNext]_folderVars => FolderOK'
  BY FolderStep
<1>3. FolderOK => WrittenIsRead
  BY WholeIsRead
<1> QED
  BY <1>1, <1>2, <1>3, PTL DEF FolderSpec

-----------------------------------------------------------------------------
\* THE DISK

CONSTANTS FileNames, FileCells

Contents == [name : FileNames, data : Seq(FileCells)]

-----------------------------------------------------------------------------
\* Arithmetic.

LEMMA Division ==
  ASSUME NEW a \in Nat, NEW b \in Nat \ {0}
  PROVE  /\ a \div b \in Nat
         /\ (a \div b) * b <= a
         /\ a < (a \div b) * b + b
OBVIOUS

LEMMA CeilingCovers ==
  ASSUME NEW a \in Nat, NEW b \in Nat \ {0}
  PROVE  Ceiling(a, b) \in Nat /\ a <= Ceiling(a, b) * b
<1> DEFINE q == (a + b - 1) \div b
<1>1. a + b - 1 \in Nat
  OBVIOUS
<1>2. q \in Nat /\ a + b - 1 < q * b + b
  BY <1>1, Division
<1>3. q * b \in Nat
  BY <1>2
<1> HIDE DEF q
<1>4. a <= q * b
  BY <1>2, <1>3
<1> QED
  BY <1>2, <1>4 DEF Ceiling, q

LEMMA WholeBlocks ==
  ASSUME NEW n \in Nat, NEW b \in Nat \ {0}
  PROVE  (n * b) \div b = n
OBVIOUS

\* Two extents' blocks do not meet.
LEMMA Apart ==
  ASSUME NEW p \in Nat \ {0}, NEW e \in Nat, NEW f \in Nat, NEW i \in 1..p, NEW j \in 1..p,
         e * p + i = f * p + j
  PROVE  e = f /\ i = j
OBVIOUS

-----------------------------------------------------------------------------
\* The invariant: the blocks handed out are whole, each from the end of the last.
Geometries == {Plus3Geometry, DataGeometry}

DiskOK ==
  /\ geometry \in Geometries
  /\ data \in Seq(FileCells \cup {Filler})
  /\ \E n \in Nat : Len(data) = n * BlockSize
  /\ \E S : directory \in Seq(S)
  /\ BlocksAreOwned

LEMMA Sizes ==
  /\ BlockSize \in Nat \ {0} /\ BlocksPerExtent \in Nat \ {0}
  /\ \A g \in Geometries : g.dirBlocks \in Nat
BY DisketteAssumption DEF Geometries, Plus3Geometry, DataGeometry

LEMMA NextBlockIs ==
  ASSUME geometry \in Geometries, NEW n \in Nat, Len(data) = n * BlockSize
  PROVE  NextBlock = geometry.dirBlocks + n
BY Sizes, WholeBlocks DEF NextBlock

\* What a file takes of the disk.
LEMMA FilledCells ==
  ASSUME NEW file \in Contents
  PROVE  /\ Wanted(file) \in Nat
         /\ Filled(file.data, Wanted(file) * BlockSize) \in Seq(FileCells \cup {Filler})
         /\ Len(Filled(file.data, Wanted(file) * BlockSize)) = Wanted(file) * BlockSize
<1> DEFINE T == FileCells \cup {Filler}
           size == Wanted(file) * BlockSize
           rest == [i \in 1..(size - Len(file.data)) |-> Filler]
<1>1. file.data \in Seq(FileCells) /\ Len(file.data) \in Nat
  BY DEF Contents
<1>2. Wanted(file) \in Nat /\ Len(file.data) <= size
  BY <1>1, Sizes, CeilingCovers DEF Wanted
<1>3. size \in Nat
  BY <1>2, Sizes
<1> HIDE DEF size
<1>4. size - Len(file.data) \in Nat
  BY <1>1, <1>2, <1>3
<1>5. rest \in Seq(T) /\ Len(rest) = size - Len(file.data)
  BY <1>4
<1>6. file.data \in Seq(T)
  BY <1>1
<1> HIDE DEF rest
<1>7. file.data \o rest \in Seq(T) /\ Len(file.data \o rest) = Len(file.data) + Len(rest)
  BY <1>5, <1>6, ConcatProperties
<1> QED
  BY <1>1, <1>2, <1>3, <1>5, <1>7 DEF Filled, size, rest

\* The blocks of an extent lie in what the file takes, in order.
LEMMA ExtentBlocks ==
  ASSUME DiskOK, NEW file \in Contents, NEW e \in Nat, NEW i \in DOMAIN Extent(file, e).blocks
  PROVE  /\ i \in 1..BlocksPerExtent
         /\ Extent(file, e).blocks[i] = NextBlock + e * BlocksPerExtent + i - 1
         /\ e * BlocksPerExtent + i <= Wanted(file)
<1> DEFINE first == e * BlocksPerExtent
           m == Least(Wanted(file) - first, BlocksPerExtent)
           blocks == [k \in 1..m |-> NextBlock + first + k - 1]
<1>1. Wanted(file) \in Nat
  BY FilledCells
<1>2. first \in Nat
  BY Sizes
<1>3. Extent(file, e).blocks = blocks
  BY DEF Extent
<1> HIDE DEF first
<1>4. m \in Int /\ m <= BlocksPerExtent /\ m <= Wanted(file) - first
  BY <1>1, <1>2, Sizes DEF Least
<1> HIDE DEF m
<1>5. i \in 1..m /\ blocks[i] = NextBlock + first + i - 1
  BY <1>3
<1> HIDE DEF blocks
<1>6. i \in 1..BlocksPerExtent /\ first + i <= Wanted(file)
  BY <1>1, <1>2, <1>4, <1>5, Sizes
<1> QED
  BY <1>3, <1>5, <1>6 DEF first

-----------------------------------------------------------------------------
LEMMA BlankIsOwned ==
  ASSUME NEW g \in Geometries, BlankDisk(g)
  PROVE  DiskOK
<1>1. directory = <<>> /\ data = <<>> /\ geometry = g
  BY DEF BlankDisk
<1>2. Len(data) = 0 * BlockSize
  BY <1>1, Sizes
<1>3. directory \in Seq({}) /\ data \in Seq(FileCells \cup {Filler})
  BY <1>1
<1>4. BlocksAreOwned
  BY <1>1 DEF BlocksAreOwned
<1> QED
  BY <1>1, <1>2, <1>3, <1>4 DEF DiskOK

\* The file's extents follow those of the files before it, and its blocks theirs.
LEMMA PutFileKeeps ==
  ASSUME DiskOK, NEW file \in Contents, PutFile(file), refusal' = "no"
  PROVE  DiskOK'
<1> DEFINE w == Wanted(file)
           more == [e \in 1..Extents(file) |-> Extent(file, e - 1)]
           cells == Filled(file.data, w * BlockSize)
<1>1. /\ geometry' = geometry /\ directory' = directory \o more /\ data' = data \o cells
  BY DEF PutFile
<1>2. /\ w \in Nat
      /\ cells \in Seq(FileCells \cup {Filler})
      /\ Len(cells) = w * BlockSize
  BY FilledCells
<1>3. PICK n \in Nat : Len(data) = n * BlockSize
  BY DEF DiskOK
<1>4. /\ geometry' \in Geometries
      /\ data' \in Seq(FileCells \cup {Filler})
      /\ Len(data') = (n + w) * BlockSize
  <2>1. data' \in Seq(FileCells \cup {Filler}) /\ Len(data') = Len(data) + Len(cells)
    BY <1>1, <1>2, ConcatProperties DEF DiskOK
  <2>2. n * BlockSize + w * BlockSize = (n + w) * BlockSize
    BY <1>2, Sizes
  <2> QED
    BY <1>1, <1>2, <1>3, <2>1, <2>2 DEF DiskOK
<1>5. /\ NextBlock = geometry.dirBlocks + n
      /\ NextBlock' = geometry.dirBlocks + n + w
  <2>1. NextBlock = geometry.dirBlocks + n
    BY <1>3, NextBlockIs DEF DiskOK
  <2>2. ((n + w) * BlockSize) \div BlockSize = n + w
    BY <1>2, Sizes, WholeBlocks
  <2>3. NextBlock' = geometry.dirBlocks + (n + w)
    BY <1>1, <1>4, <2>2 DEF NextBlock
  <2>4. geometry.dirBlocks \in Nat /\ w \in Nat
    BY <1>2, Sizes DEF DiskOK
  <2> HIDE DEF w
  <2> QED
    BY <2>1, <2>3, <2>4
<1>6. Extents(file) \in Nat
  BY <1>2, Sizes, CeilingCovers DEF Extents
<1> HIDE DEF w, cells
<1>7. PICK S : directory \in Seq(S)
  BY DEF DiskOK
<1> DEFINE T == S \cup {Extent(file, e - 1) : e \in 1..Extents(file)}
<1>8. more \in Seq(T) /\ Len(more) = Extents(file) /\ directory \in Seq(T)
  <2>1. \A e \in 1..Extents(file) : more[e] \in T
    OBVIOUS
  <2>2. more \in [1..Extents(file) -> T]
    BY <2>1
  <2>3. more \in Seq(T) /\ Len(more) = Extents(file)
    BY <1>6, <2>2
  <2>4. directory \in Seq(T)
    BY <1>7
  <2> QED
    BY <2>3, <2>4
<1>9. \A e \in 1..Extents(file) : more[e] = Extent(file, e - 1)
  OBVIOUS
<1> HIDE DEF more, T
<1>10. /\ directory' \in Seq(T)
       /\ Len(directory') = Len(directory) + Extents(file)
       /\ \A i \in 1..(Len(directory) + Len(more)) :
            directory'[i] = IF i <= Len(directory) THEN directory[i]
                            ELSE more[i - Len(directory)]
  BY <1>1, <1>8, ConcatProperties
<1> DEFINE d == Len(directory)
<1>11. d \in Nat /\ DOMAIN directory = 1..d /\ DOMAIN directory' = 1..(d + Extents(file))
  BY <1>6, <1>8, <1>10
<1> HIDE DEF d
<1>12. ASSUME NEW i \in DOMAIN directory', NEW k \in DOMAIN directory'[i].blocks, i <= d
       PROVE  /\ i \in DOMAIN directory /\ directory'[i] = directory[i]
              /\ directory'[i].blocks[k] \in geometry.dirBlocks..(NextBlock - 1)
  <2>1. i \in DOMAIN directory /\ directory'[i] = directory[i]
    BY <1>6, <1>8, <1>10, <1>11, <1>12 DEF d
  <2> QED
    BY <1>12, <2>1 DEF DiskOK, BlocksAreOwned
<1>13. ASSUME NEW i \in DOMAIN directory', NEW k \in DOMAIN directory'[i].blocks, i > d
       PROVE  /\ i - d - 1 \in Nat /\ k \in 1..BlocksPerExtent
              /\ directory'[i].blocks[k] = NextBlock + (i - d - 1) * BlocksPerExtent + k - 1
              /\ (i - d - 1) * BlocksPerExtent + k <= w
  <2>1. i - d \in 1..Extents(file) /\ i - d - 1 \in Nat
    BY <1>6, <1>11, <1>13
  <2>2. directory'[i] = Extent(file, i - d - 1)
    BY <1>8, <1>9, <1>10, <1>11, <1>13, <2>1 DEF d
  <2> QED
    BY <2>1, <2>2, ExtentBlocks DEF w
<1>14. ASSUME NEW i \in DOMAIN directory', NEW k \in DOMAIN directory'[i].blocks, i > d
       PROVE  directory'[i].blocks[k] \in NextBlock..(NextBlock + w - 1)
  <2>1. (i - d - 1) * BlocksPerExtent \in Nat
    BY <1>13, <1>14, Sizes
  <2>2. NextBlock \in Nat
    BY <1>5, Sizes DEF DiskOK
  <2> QED
    BY <1>2, <1>13, <1>14, <2>1, <2>2 DEF w
<1>15. BlocksAreOwned'
  <2> SUFFICES ASSUME NEW i \in DOMAIN directory', NEW j \in DOMAIN directory',
                      NEW k \in DOMAIN directory'[i].blocks, NEW l \in DOMAIN directory'[j].blocks
               PROVE  /\ directory'[i].blocks[k] \in geometry.dirBlocks..(NextBlock' - 1)
                      /\ directory'[i].blocks[k] = directory'[j].blocks[l] => i = j /\ k = l
    BY <1>1 DEF BlocksAreOwned
  <2>1. /\ w \in Nat /\ NextBlock \in Nat /\ NextBlock' = NextBlock + w
        /\ geometry.dirBlocks \in Nat /\ geometry.dirBlocks <= NextBlock
        /\ i \in Nat /\ j \in Nat /\ d \in Nat
    <3>1. w \in Nat
      BY <1>2 DEF w
    <3>2. geometry.dirBlocks \in Nat
      BY Sizes DEF DiskOK
    <3>3. i \in Nat /\ j \in Nat /\ d \in Nat
      BY <1>6, <1>11
    <3>4. NextBlock = geometry.dirBlocks + n /\ NextBlock' = geometry.dirBlocks + n + w
      BY <1>5 DEF w
    <3> QED
      BY <3>1, <3>2, <3>3, <3>4
  <2>2. CASE i <= d /\ j <= d
    BY <1>12, <2>1, <2>2 DEF DiskOK, BlocksAreOwned
  <2>3. CASE i <= d /\ j > d
    BY <1>12, <1>14, <2>1, <2>3
  <2>4. CASE i > d /\ j <= d
    BY <1>12, <1>14, <2>1, <2>4
  <2>5. CASE i > d /\ j > d
    <3> DEFINE e == i - d - 1
               f == j - d - 1
    <3>1. /\ e \in Nat /\ k \in 1..BlocksPerExtent
          /\ directory'[i].blocks[k] = NextBlock + e * BlocksPerExtent + k - 1
      BY <1>13, <2>5
    <3>2. /\ f \in Nat /\ l \in 1..BlocksPerExtent
          /\ directory'[j].blocks[l] = NextBlock + f * BlocksPerExtent + l - 1
      BY <1>13, <2>5
    <3>3. e = f => i = j
      BY <2>1
    <3> HIDE DEF e, f
    <3>4. e * BlocksPerExtent \in Nat /\ f * BlocksPerExtent \in Nat
      BY <3>1, <3>2, Sizes
    <3>5. directory'[i].blocks[k] = directory'[j].blocks[l] =>
            e * BlocksPerExtent + k = f * BlocksPerExtent + l
      BY <2>1, <3>1, <3>2, <3>4
    <3>6. directory'[i].blocks[k] = directory'[j].blocks[l] => e = f /\ k = l
      <4> SUFFICES ASSUME directory'[i].blocks[k] = directory'[j].blocks[l]
                   PROVE  e = f /\ k = l
        OBVIOUS
      <4>1. e * BlocksPerExtent + k = f * BlocksPerExtent + l
        BY <3>5
      <4>2. BlocksPerExtent \in Nat \ {0}
        BY Sizes
      <4> QED
        BY <3>1, <3>2, <4>1, <4>2, Apart
    <3>7. directory'[i].blocks[k] \in NextBlock..(NextBlock + w - 1)
      BY <1>14, <2>5
    <3> QED
      BY <2>1, <3>3, <3>6, <3>7
  <2> QED
    BY <2>1, <2>2, <2>3, <2>4, <2>5
<1>16. n + w \in Nat
  BY <1>2 DEF w
<1> QED
  BY <1>4, <1>10, <1>15, <1>16 DEF DiskOK

LEMMA DiskStep ==
  ASSUME DiskOK, [DiskNext(Contents)]_disketteVars
  PROVE  DiskOK'
<1>1. CASE UNCHANGED <<geometry, directory, data>>
  BY <1>1 DEF DiskOK, BlocksAreOwned, NextBlock
<1>2. ASSUME NEW file \in Contents, PutFile(file)
      PROVE  DiskOK'
  <2>1. CASE refusal' = "no"
    BY <1>2, <2>1, PutFileKeeps
  <2>2. CASE refusal' # "no"
    BY <1>1, <1>2, <2>2 DEF PutFile
  <2> QED
    BY <2>1, <2>2
<1>3. ASSUME NEW g \in Geometries, BlankDisk(g)'
      PROVE  DiskOK'
  <2>1. directory' = <<>> /\ data' = <<>> /\ geometry' = g
    BY <1>3 DEF BlankDisk
  <2>2. Len(data') = 0 * BlockSize
    BY <2>1, Sizes
  <2>3. directory' \in Seq({}) /\ data' \in Seq(FileCells \cup {Filler})
    BY <2>1
  <2>4. BlocksAreOwned'
    BY <2>1 DEF BlocksAreOwned
  <2> QED
    BY <2>1, <2>2, <2>3, <2>4 DEF DiskOK
<1>4. CASE CloseDisk \/ \E t \in 1..Tracks : Turn(t) \/ Spoil(t)
  BY <1>1, <1>4 DEF CloseDisk, Turn, Spoil
<1>5. CASE UNCHANGED disketteVars
  BY <1>1, <1>5 DEF disketteVars
<1> QED
  BY <1>2, <1>3, <1>4, <1>5 DEF DiskNext, Geometries

\* NO BLOCK HAS TWO OWNERS: whatever is put on a disk, in whatever sizes the
\* format has, each block lies past the directory and in one place of one extent
\* (plus3disk.go, diskImage).
THEOREM BlocksHaveOneOwner == DiskSpec(Contents) => []BlocksAreOwned
<1>1. (\E g \in Geometries : BlankDisk(g)) => DiskOK
  BY BlankIsOwned
<1>2. DiskOK /\ [DiskNext(Contents)]_disketteVars => DiskOK'
  BY DiskStep
<1>3. DiskOK => BlocksAreOwned
  BY DEF DiskOK
<1>4. DiskSpec(Contents) <=> (\E g \in Geometries : BlankDisk(g)) /\ [][DiskNext(Contents)]_disketteVars
  BY DEF DiskSpec, Geometries
<1> QED
  BY <1>1, <1>2, <1>3, <1>4, PTL

-----------------------------------------------------------------------------
\* THE TAPE

\* What a fold goes through: the last of the numbers up to the next one.
LEMMA GreatestNumber ==
  ASSUME NEW m \in Nat, NEW S \in SUBSET (0..m), S # {}
  PROVE  Max(S) \in S /\ \A x \in S : x <= Max(S)
<1> DEFINE T == {m - x : x \in S}
<1>1. T \in SUBSET Nat /\ T # {}
  <2>1. \A x \in S : m - x \in Nat
    OBVIOUS
  <2> QED
    BY <2>1
<1>2. PICK t \in T : \A u \in T : t <= u
  <2> HIDE DEF T
  <2> QED
    BY <1>1, LeastNumber
<1>3. PICK x \in S : t = m - x
  BY <1>2
<1>4. \A y \in S : x >= y
  BY <1>2, <1>3
<1> QED
  BY <1>3, <1>4 DEF Max

LEMMA UpToTheNext ==
  ASSUME NEW k \in Nat
  PROVE  /\ 1..(k + 1) # {} /\ Max(1..(k + 1)) = k + 1
         /\ (1..(k + 1)) \ {k + 1} = 1..k
<1>1. PICK S : S = 1..(k + 1)
  OBVIOUS
<1>2. S \in SUBSET (0..(k + 1)) /\ S # {} /\ k + 1 \in S /\ k + 1 \in Nat
  BY <1>1
<1>3. Max(S) \in S /\ \A x \in S : x <= Max(S)
  BY <1>2, GreatestNumber
<1> QED
  BY <1>1, <1>2, <1>3

\* There is a fold from the left wherever its steps stay within a set.
LeftFold(g, n, base, step) ==
  g = [s \in SUBSET (1..n) |-> IF s = {} THEN base ELSE step[<<Max(s), g[s \ {Max(s)}]>>]]

LEMMA LeftFoldExists ==
  ASSUME NEW n \in Nat, NEW A, NEW base \in A, NEW step \in [(1..n) \X A -> A]
  PROVE  \E g \in [SUBSET (1..n) -> A] : LeftFold(g, n, base, step)
<1> DEFINE pick == [s \in SUBSET (1..n) |-> Max(s)]
<1>1. IsFiniteSet(1..n)
  BY FS_Interval
<1>2. \A s \in SUBSET (1..n) : s # {} => pick[s] \in s
  <2>1. \A s \in SUBSET (1..n) : s \in SUBSET (0..n)
    OBVIOUS
  <2> QED
    BY <2>1, GreatestNumber
<1>3. PICK g \in [SUBSET (1..n) -> A] : FoldsOver(g, 1..n, base, pick, step)
  <2> HIDE DEF pick
  <2> QED
    BY <1>1, <1>2, FoldExists
<1> QED
  BY <1>3 DEF FoldsOver, LeftFold

\* Sorting: numbers in their order, each once.
LEMMA SortedExists ==
  ASSUME NEW m \in Nat, NEW S \in SUBSET (0..m)
  PROVE  /\ IsFiniteSet(S) /\ Cardinality(S) \in Nat
         /\ \E s \in [1..Cardinality(S) -> S] : \A i, j \in DOMAIN s : i < j => s[i] < s[j]
<1> DEFINE Good == {A \in SUBSET S : \E s \in [1..Cardinality(A) -> A] :
                                       \A i, j \in DOMAIN s : i < j => s[i] < s[j]}
<1>1. IsFiniteSet(S) /\ \A A \in SUBSET S : IsFiniteSet(A) /\ Cardinality(A) \in Nat
  <2>1. IsFiniteSet(0..m)
    BY FS_Interval
  <2> QED
    BY <2>1, FS_Subset, FS_CardinalityType
<1>2. ASSUME NEW A \in SUBSET S, \A x \in A : A \ {x} \in Good
      PROVE  A \in Good
  <2>1. CASE A = {}
    <3>1. Cardinality(A) = 0
      BY <2>1, FS_EmptySet
    <3>2. <<>> \in [1..0 -> A] /\ DOMAIN <<>> = {}
      OBVIOUS
    <3> QED
      BY <3>1, <3>2
  <2>2. CASE A # {}
    <3>1. PICK x \in A : \A y \in A : y <= x
      BY <2>2, GreatestNumber
    <3>2. PICK B : B = A \ {x}
      OBVIOUS
    <3>3. PICK n \in Nat : n = Cardinality(B) /\ Cardinality(A) = n + 1
      <4>1. Cardinality(B) = Cardinality(A) - 1
        BY <1>1, <3>2, FS_RemoveElement
      <4> QED
        BY <1>1, <3>2, <4>1
    <3>4. PICK s \in [1..n -> B] : \A i, j \in 1..n : i < j => s[i] < s[j]
      <4>1. B \in Good
        BY <1>2, <3>2
      <4>2. PICK s \in [1..n -> B] : \A i, j \in DOMAIN s : i < j => s[i] < s[j]
        BY <3>3, <4>1
      <4> QED
        BY <4>2
    <3>5. PICK t : t = [i \in 1..(n + 1) |-> IF i = n + 1 THEN x ELSE s[i]]
      OBVIOUS
    <3>6. t \in [1..(n + 1) -> A] /\ DOMAIN t = 1..(n + 1)
      BY <3>2, <3>5
    <3>7. \A i \in 1..n : s[i] < x
      <4>1. \A y \in B : y \in Int /\ x \in Int /\ y < x
        BY <3>1, <3>2
      <4> QED
        BY <3>4, <4>1
    <3>8. ASSUME NEW i \in 1..(n + 1), NEW j \in 1..(n + 1), i < j
          PROVE  t[i] < t[j]
      <4>1. i \in 1..n /\ t[i] = s[i]
        BY <3>5, <3>8
      <4>2. CASE j = n + 1
        BY <3>5, <3>7, <4>1, <4>2
      <4>3. CASE j # n + 1
        BY <3>4, <3>5, <3>8, <4>1, <4>3
      <4> QED
        BY <4>2, <4>3
    <3> QED
      BY <3>3, <3>6, <3>8
  <2> QED
    BY <2>1, <2>2
<1>3. S \in Good
  <2> HIDE DEF Good
  <2> QED
    BY <1>1, <1>2, FiniteInduction
<1> QED
  BY <1>1, <1>3

LEMMA SortedIs ==
  ASSUME NEW m \in Nat, NEW S \in SUBSET (0..m)
  PROVE  \E n \in Nat :
           /\ Ascending(S) \in [1..n -> S]
           /\ \A i, j \in 1..n : i < j => Ascending(S)[i] < Ascending(S)[j]
           /\ \A x \in S : \E i \in 1..n : Ascending(S)[i] = x
<1>1. PICK n \in Nat : n = Cardinality(S) /\ IsFiniteSet(S)
  BY SortedExists
<1>2. /\ Ascending(S) \in [1..n -> S]
      /\ \A i, j \in 1..n : i < j => Ascending(S)[i] < Ascending(S)[j]
  BY <1>1, SortedExists DEF Ascending
<1>3. PICK s : s = Ascending(S)
  OBVIOUS
<1>4. s \in Injection(1..n, S)
  <2>1. ASSUME NEW i \in 1..n, NEW j \in 1..n, s[i] = s[j]
        PROVE  i = j
    <3>1. s[i] \in 0..m /\ s[j] \in 0..m
      BY <1>2, <1>3
    <3> QED
      BY <1>2, <1>3, <2>1, <3>1
  <2> QED
    BY <1>2, <1>3, <2>1 DEF Injection, IsInjective
<1>5. s \in Surjection(1..n, S)
  <2>1. Cardinality(1..n) = n
    BY FS_Interval
  <2> QED
    BY <1>1, <1>4, <2>1, FS_Injection
<1> QED
  BY <1>2, <1>3, <1>5 DEF Surjection

-----------------------------------------------------------------------------
\* What is packed, whatever became of the directory: contents of some size.
PackedOK ==
  /\ {packed.database, packed.loading} \subseteq Nat \cup {Empty}
  /\ DOMAIN packed.images \subseteq Numbers
  /\ packed.images = [n \in DOMAIN packed.images |-> packed.images[n]]
  /\ \A n \in DOMAIN packed.images : packed.images[n] \in Nat \cup {Empty}

LEMMA Addresses ==
  /\ \A contents \in Nat \cup {Empty} : SizeOf(contents) \in Nat
  /\ PackedOK => /\ DatabaseEnd \in Nat /\ DatabaseOrigin <= DatabaseEnd
                 /\ PageAt \in Nat /\ DatabaseEnd <= PageAt
<1>1. \A contents \in Nat \cup {Empty} : SizeOf(contents) \in Nat
  BY DEF SizeOf
<1>2. DatabaseOrigin \in Nat /\ PictureData \in Nat
  BY PackagerAssumption
<1>3. PackedOK => SizeOf(packed.database) \in Nat
  BY <1>1 DEF PackedOK
<1>4. PackedOK => DatabaseEnd \in Nat /\ DatabaseOrigin <= DatabaseEnd
  BY <1>2, <1>3 DEF DatabaseEnd
<1> QED
  BY <1>1, <1>2, <1>4 DEF PageAt

\* Two bytes say a number, and a sequence of them is put together.
LEMMA WordSays ==
  ASSUME NEW n \in Nat
  PROVE  /\ n \div 256 \in Nat /\ n % 256 \in Nat /\ (n % 256) + 256 * (n \div 256) = n
         /\ Word(n) = <<n \div 256, n % 256>>
         /\ LowFirst(n) = <<n % 256, n \div 256>>
         /\ Word(n) \in Seq(Nat) /\ Len(Word(n)) = 2
         /\ LowFirst(n) \in Seq(Nat) /\ Len(LowFirst(n)) = 2
<1>1. n \div 256 \in Nat /\ n % 256 \in Nat /\ (n % 256) + 256 * (n \div 256) = n
  OBVIOUS
<1>2. PICK w : w = Word(n)
  OBVIOUS
<1>3. w = <<n \div 256, n % 256>> /\ Len(w) = 2
  BY <1>2 DEF Word
<1>4. LowFirst(n) = [i \in 1..2 |-> w[3 - i]]
  BY <1>2, <1>3 DEF LowFirst, Reverse
<1>5. [i \in 1..2 |-> w[3 - i]] = <<w[2], w[1]>>
  OBVIOUS
<1> QED
  BY <1>1, <1>2, <1>3, <1>4, <1>5

LEMMA BytesAre ==
  ASSUME NEW mark \in Nat, NEW size \in Nat
  PROVE  /\ Bytes(mark, size) \in Seq(Nat) /\ Len(Bytes(mark, size)) = size
         /\ \A i \in 1..size : Bytes(mark, size)[i] = mark
BY DEF Bytes

\* The sizes of the Spectrum's memory.
LEMMA SpectrumSizes ==
  /\ Top \in Nat /\ ScreenBase \in Nat
  /\ StubSize \in Nat /\ FontSize \in Nat /\ FontTrailer \in Nat
  /\ FontSize + FontTrailer <= StubSize
<1>1. {Top, ScreenBase} \subseteq Nat /\ {StubSize, FontSize, FontTrailer} \subseteq Nat
  BY PackagerAssumption
<1>2. FontSize + FontTrailer <= StubSize
  BY PackagerAssumption
<1> QED
  BY <1>1, <1>2

LEMMA Marks == 0..EndMark \subseteq Nat
BY DEF EndMark

LEMMA NumbersAreBytes ==
  ASSUME PackedOK
  PROVE  DOMAIN packed.images \subseteq 0..EndMark
<1>1. Numbers \subseteq 0..EndMark
  BY PackagerAssumption
<1> QED
  BY <1>1 DEF PackedOK

LEMMA Concatenated ==
  ASSUME NEW T, NEW s \in Seq(T), NEW t \in Seq(T)
  PROVE  /\ s \o t \in Seq(T) /\ Len(s \o t) = Len(s) + Len(t)
         /\ \A i \in 1..Len(s) : (s \o t)[i] = s[i]
         /\ \A i \in 1..Len(t) : (s \o t)[Len(s) + i] = t[i]
<1>1. PICK u : u = s \o t
  OBVIOUS
<1>2. Len(s) \in Nat /\ Len(t) \in Nat
  OBVIOUS
<1>3. /\ u \in Seq(T) /\ Len(u) = Len(s) + Len(t)
      /\ \A i \in 1..(Len(s) + Len(t)) : u[i] = IF i <= Len(s) THEN s[i] ELSE t[i - Len(s)]
  BY <1>1, ConcatProperties
<1>4. \A i \in 1..Len(s) : u[i] = s[i]
  BY <1>2, <1>3
<1>5. ASSUME NEW i \in 1..Len(t)
      PROVE  u[Len(s) + i] = t[i]
  <2>1. Len(s) + i \in 1..(Len(s) + Len(t)) /\ ~(Len(s) + i <= Len(s)) /\ (Len(s) + i) - Len(s) = i
    BY <1>2
  <2> QED
    BY <1>3, <2>1
<1> QED
  BY <1>1, <1>3, <1>4, <1>5

LEMMA JoinedAre ==
  ASSUME NEW s \in Seq(Nat), NEW t \in Seq(Nat)
  PROVE  /\ s \o t \in Seq(Nat) /\ Len(s \o t) = Len(s) + Len(t)
         /\ \A i \in 1..Len(s) : (s \o t)[i] = s[i]
         /\ \A i \in 1..Len(t) : (s \o t)[Len(s) + i] = t[i]
BY Concatenated

LEMMA PackedPictureIs ==
  ASSUME PackedOK, NEW n \in DOMAIN packed.images, packed.images[n] # Empty
  PROVE  /\ n \in 0..EndMark /\ packed.images[n] \in Nat
         /\ PackedPicture(n) \in Seq(Nat) /\ Len(PackedPicture(n)) = packed.images[n] + 6
         /\ PackedPicture(n)[1] = (ScreenBase + 1) % 256
         /\ PackedPicture(n)[2] = (ScreenBase + 1) \div 256
         /\ PackedPicture(n)[3] = packed.images[n] % 256
         /\ PackedPicture(n)[4] = packed.images[n] \div 256
         /\ \A i \in 1..packed.images[n] : PackedPicture(n)[4 + i] = n
<1>1. /\ n \in 0..EndMark /\ n \in Nat /\ packed.images[n] \in Nat
      /\ ScreenBase + 1 \in Nat
  <2>1. n \in 0..EndMark /\ packed.images[n] \in Nat /\ ScreenBase \in Nat
    BY PackagerAssumption DEF PackedOK
  <2> QED
    BY <2>1 DEF EndMark
<1>2. PICK size \in Nat : size = packed.images[n]
  BY <1>1
<1>3. PICK at : at = LowFirst(ScreenBase + 1)
  OBVIOUS
<1>4. /\ at \in Seq(Nat) /\ Len(at) = 2
      /\ at[1] = (ScreenBase + 1) % 256 /\ at[2] = (ScreenBase + 1) \div 256
  <2>1. PICK to \in Nat : to = ScreenBase + 1
    BY <1>1
  <2>2. LowFirst(to) = <<to % 256, to \div 256>> /\ LowFirst(to) \in Seq(Nat) /\ Len(LowFirst(to)) = 2
    BY WordSays
  <2> QED
    BY <1>3, <2>1, <2>2
<1>5. PICK long : long = LowFirst(size)
  OBVIOUS
<1>6. /\ long \in Seq(Nat) /\ Len(long) = 2
      /\ long[1] = size % 256 /\ long[2] = size \div 256
  <2>1. /\ LowFirst(size) = <<size % 256, size \div 256>>
        /\ LowFirst(size) \in Seq(Nat) /\ Len(LowFirst(size)) = 2
    BY WordSays
  <2> QED
    BY <1>5, <2>1
<1>7. PICK run : run = Bytes(n, size)
  OBVIOUS
<1>8. run \in Seq(Nat) /\ Len(run) = size /\ \A i \in 1..size : run[i] = n
  BY <1>1, <1>7, BytesAre
<1>9. PICK end : end = <<0, 0>>
  OBVIOUS
<1>10. end \in Seq(Nat) /\ Len(end) = 2
  BY <1>9
<1>11. PICK head : head = at \o long
  OBVIOUS
<1>12. /\ head \in Seq(Nat) /\ Len(head) = 4
       /\ head[1] = at[1] /\ head[2] = at[2] /\ head[3] = long[1] /\ head[4] = long[2]
  <2>1. /\ at \o long \in Seq(Nat) /\ Len(at \o long) = Len(at) + Len(long)
        /\ \A i \in 1..Len(at) : (at \o long)[i] = at[i]
        /\ \A i \in 1..Len(long) : (at \o long)[Len(at) + i] = long[i]
    <3>1. at \in Seq(Nat) /\ long \in Seq(Nat)
      BY <1>4, <1>6
    <3> QED
      BY <3>1, JoinedAre
  <2>2. /\ head \in Seq(Nat) /\ Len(head) = 2 + 2
        /\ \A i \in 1..2 : head[i] = at[i] /\ head[2 + i] = long[i]
    BY <1>4, <1>6, <1>11, <2>1
  <2> QED
    BY <2>2
<1>13. PICK most : most = head \o run
  OBVIOUS
<1>14. /\ most \in Seq(Nat) /\ Len(most) = 4 + size
       /\ \A i \in 1..4 : most[i] = head[i]
       /\ \A i \in 1..size : most[4 + i] = n
  <2>1. /\ head \o run \in Seq(Nat) /\ Len(head \o run) = Len(head) + Len(run)
        /\ \A i \in 1..Len(head) : (head \o run)[i] = head[i]
        /\ \A i \in 1..Len(run) : (head \o run)[Len(head) + i] = run[i]
    BY <1>8, <1>12, JoinedAre
  <2> QED
    BY <1>8, <1>12, <1>13, <2>1
<1>15. PICK whole : whole = most \o end
  OBVIOUS
<1>16. /\ whole \in Seq(Nat) /\ Len(whole) = 4 + size + 2
       /\ \A i \in 1..(4 + size) : whole[i] = most[i]
  <2>1. /\ most \o end \in Seq(Nat) /\ Len(most \o end) = Len(most) + Len(end)
        /\ \A i \in 1..Len(most) : (most \o end)[i] = most[i]
        /\ \A i \in 1..Len(end) : (most \o end)[Len(most) + i] = end[i]
    BY <1>10, <1>14, JoinedAre
  <2> QED
    BY <1>10, <1>14, <1>15, <2>1
<1>17. PackedPicture(n) = whole
  BY <1>2, <1>3, <1>5, <1>7, <1>9, <1>11, <1>13, <1>15 DEF PackedPicture
<1>18. \A i \in 1..size : whole[4 + i] = n
  <2>1. \A i \in 1..size : 4 + i \in 1..(4 + size)
    OBVIOUS
  <2> QED
    BY <1>14, <1>16, <2>1
<1>19. whole[1] = head[1] /\ whole[2] = head[2] /\ whole[3] = head[3] /\ whole[4] = head[4]
  <2>1. 1 \in 1..(4 + size) /\ 2 \in 1..(4 + size) /\ 3 \in 1..(4 + size) /\ 4 \in 1..(4 + size)
    OBVIOUS
  <2>2. \A i \in 1..4 : whole[i] = head[i]
    BY <1>14, <1>16, <2>1
  <2> QED
    BY <2>2
<1>20. /\ whole[1] = (ScreenBase + 1) % 256 /\ whole[2] = (ScreenBase + 1) \div 256
       /\ whole[3] = size % 256 /\ whole[4] = size \div 256
  BY <1>4, <1>6, <1>12, <1>19
<1>21. Len(whole) = size + 6
  BY <1>16
<1> QED
  BY <1>1, <1>2, <1>16, <1>17, <1>18, <1>20, <1>21

-----------------------------------------------------------------------------
\* The page: each picture in it whole where its row says, and the rows in order.
RowFor(n, offset) == <<n, (PageAt + offset) \div 256, (PageAt + offset) % 256>>

LiesAt(page, n, offset) ==
  /\ offset + Len(PackedPicture(n)) <= Len(page.body)
  /\ \A i \in 1..Len(PackedPicture(n)) : page.body[offset + i] = PackedPicture(n)[i]

Pages == [body : Seq(Nat), rows : Seq(Seq(Nat)), out : SUBSET Nat]

LaidOut(page, done) ==
  /\ page \in Pages
  /\ \A r \in DOMAIN page.rows : \E n \in done, offset \in Nat :
       page.rows[r] = RowFor(n, offset) /\ LiesAt(page, n, offset)
  /\ \A r, q \in DOMAIN page.rows : r < q => page.rows[r][1] < page.rows[q][1]
  /\ \A n \in done \ page.out : \E r \in DOMAIN page.rows : page.rows[r][1] = n
  /\ page.body # <<>> =>
       PageAt + Len(page.body) + IndexEntry + IndexFixed + StubSize <= Top

LEMMA ThreeInARow ==
  ASSUME NEW a \in Nat, NEW b \in Nat, NEW c \in Nat
  PROVE  <<a>> \o <<b, c>> = <<a, b, c>>
<1>1. PICK s : s = <<a>>
  OBVIOUS
<1>2. PICK u : u = <<b, c>>
  OBVIOUS
<1>3. s \in Seq(Nat) /\ u \in Seq(Nat) /\ Len(s) = 1 /\ Len(u) = 2
  BY <1>1, <1>2
<1>4. /\ s \o u \in Seq(Nat) /\ Len(s \o u) = Len(s) + Len(u)
      /\ \A i \in 1..Len(s) : (s \o u)[i] = s[i]
      /\ \A i \in 1..Len(u) : (s \o u)[Len(s) + i] = u[i]
  BY <1>3, JoinedAre
<1>5. PICK w : w = s \o u
  OBVIOUS
<1>6. w \in Seq(Nat) /\ Len(w) = 3 /\ w[1] = a /\ w[2] = b /\ w[3] = c
  BY <1>1, <1>2, <1>3, <1>4, <1>5
<1>7. w = [i \in 1..3 |-> w[i]]
  BY <1>6
<1>8. w = <<w[1], w[2], w[3]>>
  BY <1>7
<1> QED
  BY <1>1, <1>2, <1>5, <1>6, <1>8

\* A number that a byte can say is that byte.
LEMMA NumberIsByte ==
  ASSUME NEW n \in 0..EndMark
  PROVE  NumberByte(n) = n
BY DEF NumberByte, EndMark

\* One picture after those of lower numbers.
LEMMA OneMoreLaid ==
  ASSUME PackedOK, PicturesWhole,
         NEW page, NEW done \in SUBSET DOMAIN packed.images, LaidOut(page, done),
         NEW n \in DOMAIN packed.images, \A d \in done : d < n,
         NEW next,
         next = IF Len(page.body) + Len(PackedPicture(n)) + IndexEntry
                     > Top - PageAt - StubSize - IndexFixed
                THEN [page EXCEPT !.out = @ \cup {n}]
                ELSE [page EXCEPT !.rows = Append(@, <<NumberByte(n)>> \o Word(PageAt + Len(page.body))),
                                  !.body = @ \o PackedPicture(n)]
  PROVE  LaidOut(next, done \cup {n})
<1>1. /\ page \in Pages /\ page.body \in Seq(Nat) /\ page.rows \in Seq(Seq(Nat)) /\ page.out \in SUBSET Nat
      /\ PageAt \in Nat /\ StubSize \in Nat /\ Top \in Nat
      /\ n \in Nat /\ n \in 0..EndMark /\ PackedPicture(n) \in Seq(Nat)
  <2>1. n \in 0..EndMark /\ PackedPicture(n) \in Seq(Nat)
    BY PackedPictureIs DEF PicturesWhole
  <2>2. n \in Nat
    BY <2>1, Marks
  <2> QED
    BY <2>1, <2>2, Addresses, SpectrumSizes DEF LaidOut, Pages
<1>2. PICK offset \in Nat : offset = Len(page.body)
  <2>1. Len(page.body) \in Nat
    BY <1>1, LenProperties
  <2> QED
    BY <2>1
<1>3. PICK size \in Nat : size = Len(PackedPicture(n))
  <2>1. Len(PackedPicture(n)) \in Nat
    BY <1>1, LenProperties
  <2> QED
    BY <2>1
<1>4. CASE offset + size + IndexEntry > Top - PageAt - StubSize - IndexFixed
  <2>1. next = [page EXCEPT !.out = @ \cup {n}]
    BY <1>2, <1>3, <1>4
  <2>2. /\ next.body = page.body /\ next.rows = page.rows /\ next.out = page.out \cup {n}
        /\ next \in Pages
    BY <1>1, <2>1 DEF Pages
  <2>3. \A m, at : LiesAt(next, m, at) <=> LiesAt(page, m, at)
    BY <2>2 DEF LiesAt
  <2>4. \A r \in DOMAIN next.rows : \E d \in done \cup {n}, at \in Nat :
          next.rows[r] = RowFor(d, at) /\ LiesAt(next, d, at)
    <3>1. ASSUME NEW r \in DOMAIN page.rows
          PROVE  \E d \in done \cup {n}, at \in Nat : next.rows[r] = RowFor(d, at) /\ LiesAt(next, d, at)
      <4>1. PICK d \in done, at \in Nat : page.rows[r] = RowFor(d, at) /\ LiesAt(page, d, at)
        BY DEF LaidOut
      <4> QED
        BY <2>2, <2>3, <4>1
    <3> QED
      BY <2>2, <3>1
  <2>5. \A d \in (done \cup {n}) \ next.out : \E r \in DOMAIN next.rows : next.rows[r][1] = d
    BY <2>2 DEF LaidOut
  <2>6. \A r, q \in DOMAIN next.rows : r < q => next.rows[r][1] < next.rows[q][1]
    BY <2>2 DEF LaidOut
  <2>7. next.body # <<>> => PageAt + Len(next.body) + IndexEntry + IndexFixed + StubSize <= Top
    BY <2>2 DEF LaidOut
  <2> QED
    BY <2>2, <2>4, <2>5, <2>6, <2>7 DEF LaidOut
<1>5. CASE ~(offset + size + IndexEntry > Top - PageAt - StubSize - IndexFixed)
  <2>1. next = [page EXCEPT !.rows = Append(@, <<n>> \o Word(PageAt + offset)),
                            !.body = @ \o PackedPicture(n)]
    BY <1>1, <1>2, <1>3, <1>5, NumberIsByte
  <2>2. PICK row : row = RowFor(n, offset)
    OBVIOUS
  <2>3. row \in Seq(Nat) /\ row[1] = n /\ row = <<n>> \o Word(PageAt + offset)
    <3>1. PICK to \in Nat : to = PageAt + offset
      BY <1>1
    <3>2. to \div 256 \in Nat /\ to % 256 \in Nat /\ Word(to) = <<to \div 256, to % 256>>
      BY WordSays
    <3>3. row = <<n, to \div 256, to % 256>>
      BY <2>2, <3>1 DEF RowFor
    <3>4. <<n>> \o <<to \div 256, to % 256>> = <<n, to \div 256, to % 256>>
      <4>1. PICK high \in Nat, low \in Nat : high = to \div 256 /\ low = to % 256
        BY <3>2
      <4>2. <<n>> \o <<high, low>> = <<n, high, low>>
        BY <1>1, ThreeInARow, Zenon
      <4> QED
        BY <4>1, <4>2
    <3>5. <<n, to \div 256, to % 256>> \in Seq(Nat)
      BY <1>1, <3>2
    <3> QED
      BY <3>1, <3>2, <3>3, <3>4, <3>5
  <2>4. PICK body : body = page.body \o PackedPicture(n)
    OBVIOUS
  <2>5. /\ body \in Seq(Nat) /\ Len(body) = offset + size
        /\ \A i \in 1..offset : body[i] = page.body[i]
        /\ \A i \in 1..size : body[offset + i] = PackedPicture(n)[i]
    BY <1>1, <1>2, <1>3, <2>4, JoinedAre
  <2>6. PICK rows : rows = Append(page.rows, row)
    OBVIOUS
  <2>7. PICK m \in Nat : m = Len(page.rows)
    <3>1. Len(page.rows) \in Nat
      BY <1>1, LenProperties
    <3> QED
      BY <3>1
  <2>8. /\ rows \in Seq(Seq(Nat)) /\ Len(rows) = m + 1 /\ rows[m + 1] = row
        /\ \A r \in 1..m : rows[r] = page.rows[r]
    <3>1. PICK olds \in Seq(Seq(Nat)) : olds = page.rows
      BY <1>1
    <3>2. rows = Append(olds, row) /\ Len(olds) = m
      BY <2>6, <2>7, <3>1
    <3>3. /\ Append(olds, row) \in Seq(Seq(Nat)) /\ Len(Append(olds, row)) = Len(olds) + 1
          /\ \A r \in 1..Len(olds) : Append(olds, row)[r] = olds[r]
          /\ Append(olds, row)[Len(olds) + 1] = row
      BY <2>3, AppendProperties
    <3> QED
      BY <3>1, <3>2, <3>3
  <2>9. next.body = body /\ next.rows = rows /\ next.out = page.out /\ next \in Pages
    <3>1. next = [page EXCEPT !.rows = rows, !.body = body]
      BY <1>1, <2>1, <2>3, <2>4, <2>6 DEF Pages
    <3> QED
      BY <1>1, <2>5, <2>8, <3>1 DEF Pages
  <2>10. DOMAIN page.rows = 1..m /\ DOMAIN rows = 1..(m + 1)
    BY <1>1, <2>7, <2>8
  <2>11. ASSUME NEW r \in 1..m
         PROVE  \E d \in done, at \in Nat : rows[r] = RowFor(d, at) /\ LiesAt(next, d, at)
    <3>1. PICK d \in done, at \in Nat : page.rows[r] = RowFor(d, at) /\ LiesAt(page, d, at)
      BY <2>10 DEF LaidOut
    <3>2. rows[r] = RowFor(d, at)
      BY <2>8, <3>1
    <3>3. d \in DOMAIN packed.images
      OBVIOUS
    <3>4. PICK long : long = Len(PackedPicture(d))
      OBVIOUS
    <3>5. at + long <= offset /\ \A i \in 1..long : page.body[at + i] = PackedPicture(d)[i]
      BY <1>2, <3>1, <3>4 DEF LiesAt
    <3>6. LiesAt(next, d, at)
      <4>1. long \in Nat
        <5>1. PackedPicture(d) \in Seq(Nat)
          BY <3>3, PackedPictureIs DEF PicturesWhole
        <5> QED
          BY <3>4, <5>1, LenProperties
      <4>2. at + long <= offset + size
        BY <3>5, <4>1
      <4>3. \A i \in 1..long : at + i \in 1..offset
        BY <3>5, <4>1
      <4>4. \A i \in 1..long : body[at + i] = PackedPicture(d)[i]
        BY <2>5, <3>5, <4>3
      <4> QED
        BY <2>5, <2>9, <3>4, <4>2, <4>4 DEF LiesAt
    <3> QED
      BY <3>1, <3>2, <3>6
  <2>12. LiesAt(next, n, offset)
    <3>1. offset + size <= Len(body)
      BY <2>5
    <3> QED
      BY <1>3, <2>5, <2>9, <3>1 DEF LiesAt
  <2>13. \A r \in 1..m : rows[r][1] < n
    <3>1. ASSUME NEW r \in 1..m
          PROVE  rows[r][1] < n
      <4>1. PICK d \in done, at \in Nat : rows[r] = RowFor(d, at)
        BY <2>11
      <4>2. rows[r][1] = d
        BY <4>1 DEF RowFor
      <4> QED
        BY <4>2
    <3> QED
      BY <3>1
  <2>14. \A r, q \in 1..(m + 1) : r < q => rows[r][1] < rows[q][1]
    <3>1. \A r, q \in 1..m : r < q => rows[r][1] < rows[q][1]
      BY <2>8, <2>10 DEF LaidOut
    <3>2. \A r \in 1..(m + 1) : r \in 1..m \/ r = m + 1
      OBVIOUS
    <3>3. \A r \in 1..(m + 1) : ~(m + 1 < r)
      OBVIOUS
    <3> QED
      BY <2>3, <2>8, <2>13, <3>1, <3>2, <3>3
  <2>15. \A d \in (done \cup {n}) \ next.out : \E r \in 1..(m + 1) : rows[r][1] = d
    <3>1. \A d \in done \ page.out : \E r \in 1..m : rows[r][1] = d
      BY <2>8, <2>10 DEF LaidOut
    <3>2. m + 1 \in 1..(m + 1) /\ rows[m + 1][1] = n /\ \A r \in 1..m : r \in 1..(m + 1)
      BY <2>3, <2>8
    <3> QED
      BY <2>9, <3>1, <3>2
  <2>16. PageAt + Len(next.body) + IndexEntry + IndexFixed + StubSize <= Top
    <3>1. Len(next.body) = offset + size
      BY <2>5, <2>9
    <3>2. IndexEntry \in Nat /\ IndexFixed \in Nat
      BY DEF IndexEntry, IndexFixed
    <3>3. PageAt \in Nat /\ StubSize \in Nat /\ Top \in Nat
      BY <1>1
    <3> HIDE DEF IndexEntry, IndexFixed
    <3>4. PageAt + (offset + size) + IndexEntry + IndexFixed + StubSize <= Top
      BY <1>5, <3>2, <3>3
    <3> QED
      BY <3>1, <3>4
  <2>17. \A r \in 1..(m + 1) : \E d \in done \cup {n}, at \in Nat :
           rows[r] = RowFor(d, at) /\ LiesAt(next, d, at)
    <3>1. \A r \in 1..(m + 1) : r \in 1..m \/ r = m + 1
      OBVIOUS
    <3>2. rows[m + 1] = RowFor(n, offset)
      BY <2>2, <2>8
    <3> QED
      BY <2>11, <2>12, <3>1, <3>2
  <2> QED
    BY <2>9, <2>10, <2>14, <2>15, <2>16, <2>17 DEF LaidOut
<1> QED
  BY <1>4, <1>5

\* buildImagePage, picture after picture.
LEMMA PageIsLaid ==
  ASSUME PackedOK, PicturesWhole
  PROVE  LaidOut(Page(DOMAIN packed.images), DOMAIN packed.images)
<1> DEFINE room == Top - PageAt - StubSize - IndexFixed
           Lay(page, n) ==
             IF Len(page.body) + Len(PackedPicture(n)) + IndexEntry > room
             THEN [page EXCEPT !.out = @ \cup {n}]
             ELSE [page EXCEPT !.rows = Append(@, <<NumberByte(n)>> \o Word(PageAt + Len(page.body))),
                               !.body = @ \o PackedPicture(n)]
           base == [body |-> <<>>, rows |-> <<>>, out |-> {}]
<1>1. PICK D : D = DOMAIN packed.images /\ D \in SUBSET (0..EndMark)
  BY NumbersAreBytes
<1>2. PICK seq : seq = Ascending(D)
  OBVIOUS
<1>3. PICK N \in Nat : /\ seq \in [1..N -> D]
                       /\ \A i, j \in 1..N : i < j => seq[i] < seq[j]
                       /\ \A x \in D : \E i \in 1..N : seq[i] = x
  <2>1. EndMark \in Nat
    BY DEF EndMark
  <2>2. \E n \in Nat :
          /\ Ascending(D) \in [1..n -> D]
          /\ \A i, j \in 1..n : i < j => Ascending(D)[i] < Ascending(D)[j]
          /\ \A x \in D : \E i \in 1..n : Ascending(D)[i] = x
    BY <1>1, <2>1, SortedIs
  <2> QED
    BY <1>2, <2>2
<1>4. DOMAIN seq = 1..N /\ \A i \in 1..N : seq[i] \in D /\ seq[i] \in Nat
  BY <1>1, <1>3, Marks
<1>5. base \in Pages
  BY DEF Pages
<1>6. ASSUME NEW page \in Pages, NEW n \in D
      PROVE  Lay(page, n) \in Pages
  <2>1. n \in Nat /\ PackedPicture(n) \in Seq(Nat)
    BY <1>1, PackedPictureIs, Marks DEF PicturesWhole
  <2>2. page.body \in Seq(Nat) /\ page.rows \in Seq(Seq(Nat)) /\ page.out \in SUBSET Nat
    BY DEF Pages
  <2>3. <<NumberByte(n)>> \o Word(PageAt + Len(page.body)) \in Seq(Nat)
    <3>1. PageAt + Len(page.body) \in Nat
      <4>1. Len(page.body) \in Nat
        BY <2>2, LenProperties
      <4>2. PageAt \in Nat
        BY Addresses
      <4> QED
        BY <4>1, <4>2
    <3>2. Word(PageAt + Len(page.body)) \in Seq(Nat)
      BY <3>1, WordSays
    <3>3. <<NumberByte(n)>> \in Seq(Nat)
      BY <1>1, <2>1, NumberIsByte
    <3> QED
      BY <3>2, <3>3, JoinedAre
  <2>4. page.body \o PackedPicture(n) \in Seq(Nat)
    BY <2>1, <2>2, JoinedAre
  <2>5. Append(page.rows, <<NumberByte(n)>> \o Word(PageAt + Len(page.body))) \in Seq(Seq(Nat))
    BY <2>2, <2>3, AppendProperties
  <2> QED
    BY <2>1, <2>2, <2>4, <2>5 DEF Pages
<1> DEFINE step == [p \in (1..N) \X Pages |-> Lay(p[2], seq[p[1]])]
           Folds(g) == g = [s \in SUBSET (1..N) |->
                              IF s = {} THEN base ELSE Lay(g[s \ {Max(s)}], seq[Max(s)])]
<1>7. \E g : Folds(g)
  <2>1. step \in [(1..N) \X Pages -> Pages]
    <3> HIDE DEF Lay
    <3> QED
      BY <1>4, <1>6
  <2>2. PICK g \in [SUBSET (1..N) -> Pages] : LeftFold(g, N, base, step)
    <3> HIDE DEF step, base
    <3> QED
      BY <1>5, <2>1, LeftFoldExists
  <2>3. ASSUME NEW s \in SUBSET (1..N), s # {}
        PROVE  step[<<Max(s), g[s \ {Max(s)}]>>] = Lay(g[s \ {Max(s)}], seq[Max(s)])
    <3>1. Max(s) \in s
      <4>1. s \in SUBSET (0..N)
        OBVIOUS
      <4> QED
        BY <2>3, <4>1, GreatestNumber
    <3>2. <<Max(s), g[s \ {Max(s)}]>> \in (1..N) \X Pages
      BY <2>2, <3>1
    <3> HIDE DEF Lay
    <3> QED
      BY <3>2
  <2> HIDE DEF Lay, step, base
  <2>4. g = [s \in SUBSET (1..N) |-> IF s = {} THEN base ELSE Lay(g[s \ {Max(s)}], seq[Max(s)])]
    BY <2>2, <2>3 DEF LeftFold
  <2> QED
    BY <2>4
<1> DEFINE it == CHOOSE g : Folds(g)
<1>8. Folds(it)
  <2> HIDE DEF Folds
  <2> QED
    BY <1>7
<1>9. Page(D) = it[1..N]
  BY <1>2, <1>4 DEF Page, FoldLeft, MapThenFoldSet
<1>10. it[1..0] = base /\ \A k \in Nat : k + 1 <= N => it[1..(k + 1)] = Lay(it[1..k], seq[k + 1])
  <2> HIDE DEF it, Lay, base
  <2>1. 1..0 = {} /\ 1..0 \in SUBSET (1..N)
    OBVIOUS
  <2>2. ASSUME NEW k \in Nat, k + 1 <= N
        PROVE  it[1..(k + 1)] = Lay(it[1..k], seq[k + 1])
    <3>1. 1..(k + 1) \in SUBSET (1..N)
      BY <2>2
    <3>2. PICK s : s = 1..(k + 1)
      OBVIOUS
    <3>3. s # {} /\ Max(s) = k + 1 /\ s \ {k + 1} = 1..k
      BY <3>2, UpToTheNext
    <3> QED
      BY <1>8, <3>1, <3>2, <3>3
  <2> QED
    BY <1>8, <2>1, <2>2
<1> HIDE DEF it
<1> DEFINE done(k) == {seq[i] : i \in 1..k}
           Good == {k \in Nat : k <= N => LaidOut(it[1..k], done(k))}
<1>11. 0 \in Good
  <2>1. base.body = <<>> /\ base.rows = <<>> /\ base.out = {} /\ DOMAIN base.rows = {}
    OBVIOUS
  <2>2. done(0) = {}
    OBVIOUS
  <2> HIDE DEF done, base
  <2>3. LaidOut(base, {})
    BY <1>5, <2>1 DEF LaidOut
  <2> QED
    BY <1>10, <2>2, <2>3
<1>12. ASSUME NEW k \in Nat, k \in Good
       PROVE  k + 1 \in Good
  <2> SUFFICES ASSUME k + 1 <= N
               PROVE  LaidOut(it[1..(k + 1)], done(k + 1))
    OBVIOUS
  <2>1. k <= N /\ k + 1 \in 1..N /\ 1..k \subseteq 1..N
    BY <1>3
  <2>2. LaidOut(it[1..k], done(k))
    BY <1>12, <2>1
  <2>3. done(k) \in SUBSET D /\ done(k + 1) = done(k) \cup {seq[k + 1]}
    <3>1. \A i \in 1..(k + 1) : i \in 1..k \/ i = k + 1
      OBVIOUS
    <3>2. \A i \in 1..k : i \in 1..(k + 1) /\ seq[i] \in D
      BY <1>4, <2>1
    <3> QED
      BY <3>1, <3>2
  <2>4. PICK n \in D : n = seq[k + 1]
    BY <1>4, <2>1
  <2>5. \A d \in done(k) : d < n
    <3>1. \A i \in 1..k : i \in 1..N /\ i < k + 1
      BY <2>1
    <3> QED
      BY <1>3, <2>1, <2>4, <3>1
  <2>6. PICK page : page = it[1..k]
    OBVIOUS
  <2>7. PICK next : next = Lay(page, n)
    OBVIOUS
  <2>8. next = it[1..(k + 1)]
    BY <1>10, <2>4, <2>6, <2>7
  <2> HIDE DEF done
  <2>9. LaidOut(next, done(k) \cup {n})
    BY <1>1, <2>2, <2>3, <2>5, <2>6, <2>7, OneMoreLaid
  <2> QED
    BY <2>3, <2>4, <2>8, <2>9
<1>13. N \in Good
  <2> HIDE DEF Good
  <2> QED
    BY <1>3, <1>11, <1>12, NumbersInduction
<1>14. done(N) = D
  BY <1>3
<1>15. LaidOut(it[1..N], done(N))
  BY <1>3, <1>13
<1> HIDE DEF done
<1> QED
  BY <1>1, <1>9, <1>14, <1>15

-----------------------------------------------------------------------------
\* Sequences of one width put after one another, but that the last may have another.
EndToEnd(f, rows, m, width) ==
  /\ Len(f) = IF m = 0 THEN 0 ELSE (m - 1) * width + Len(rows[m])
  /\ \A r \in 1..m : \A c \in 1..Len(rows[r]) :
       (r - 1) * width + c \in 1..Len(f) /\ f[(r - 1) * width + c] = rows[r][c]

LEMMA Flattened ==
  ASSUME NEW T, NEW m \in Nat, NEW rows \in [1..m -> Seq(T)], NEW width \in Nat,
         \A r \in 1..m : r < m => Len(rows[r]) = width
  PROVE  FlattenSeq(rows) \in Seq(T) /\ EndToEnd(FlattenSeq(rows), rows, m, width)
<1> DEFINE Flattens(f) == f = [i \in 1..m |-> IF i = 1 THEN rows[i] ELSE f[i - 1] \o rows[i]]
           it == CHOOSE f : Flattens(f)
<1>1. rows \in Seq(Seq(T)) /\ Len(rows) = m
  OBVIOUS
<1>2. CASE m = 0
  <2>1. FlattenSeq(rows) = <<>>
    BY <1>1, <1>2 DEF FlattenSeq
  <2>2. <<>> \in Seq(T) /\ Len(<<>>) = 0
    OBVIOUS
  <2> QED
    BY <1>2, <2>1, <2>2 DEF EndToEnd
<1>3. CASE m # 0
  <2>1. FlattenSeq(rows) = it[m]
    BY <1>1, <1>3 DEF FlattenSeq
  <2>2. \E f : Flattens(f)
    <3> DEFINE step == [p \in (1..m) \X Seq(T) |-> IF p[1] = 1 THEN rows[p[1]] ELSE p[2] \o rows[p[1]]]
    <3>1. step \in [(1..m) \X Seq(T) -> Seq(T)]
      <4>1. \A i \in 1..m : \A s \in Seq(T) : rows[i] \in Seq(T) /\ s \o rows[i] \in Seq(T)
        BY Concatenated
      <4> QED
        BY <4>1
    <3>2. <<>> \in Seq(T)
      OBVIOUS
    <3>3. \A i \in 1..m : \A s \in Seq(T) : step[<<i, s>>] = IF i = 1 THEN rows[i] ELSE s \o rows[i]
      OBVIOUS
    <3> HIDE DEF step
    <3>4. PICK g \in [SUBSET (1..m) -> Seq(T)] : LeftFold(g, m, <<>>, step)
      BY <3>1, <3>2, LeftFoldExists
    <3>5. PICK f : f = [i \in 1..m |-> g[1..i]]
      OBVIOUS
    <3>6. ASSUME NEW i \in 1..m
          PROVE  f[i] = IF i = 1 THEN rows[i] ELSE f[i - 1] \o rows[i]
      <4>1. PICK k \in Nat : i = k + 1
        <5>1. i - 1 \in Nat /\ i = (i - 1) + 1
          OBVIOUS
        <5> QED
          BY <5>1
      <4>2. PICK s : s = 1..(k + 1)
        OBVIOUS
      <4>3. s \in SUBSET (1..m) /\ s # {} /\ Max(s) = i /\ s \ {i} = 1..k
        <5>1. s # {} /\ Max(s) = k + 1 /\ s \ {k + 1} = 1..k
          BY <4>2, UpToTheNext
        <5>2. s \in SUBSET (1..m)
          BY <4>1, <4>2
        <5> QED
          BY <4>1, <5>1, <5>2
      <4>4. g[s] = step[<<i, g[1..k]>>]
        BY <3>4, <4>3 DEF LeftFold
      <4>5. 1..k \in SUBSET (1..m) /\ g[1..k] \in Seq(T)
        BY <4>3
      <4>6. g[s] = IF i = 1 THEN rows[i] ELSE g[1..k] \o rows[i]
        BY <3>3, <4>4, <4>5
      <4>7. i # 1 => i - 1 \in 1..m /\ i - 1 = k
        BY <4>1
      <4> QED
        BY <3>5, <4>1, <4>2, <4>6, <4>7
    <3>7. f = [i \in 1..m |-> IF i = 1 THEN rows[i] ELSE f[i - 1] \o rows[i]]
      BY <3>5, <3>6
    <3> QED
      BY <3>7
  <2>3. Flattens(it)
    <3> HIDE DEF Flattens
    <3> QED
      BY <2>2
  <2> HIDE DEF it
  <2>4. \A i \in 1..m : it[i] = IF i = 1 THEN rows[i] ELSE it[i - 1] \o rows[i]
    BY <2>3
  <2> DEFINE Good == {k \in Nat : k \in 1..m => it[k] \in Seq(T) /\ EndToEnd(it[k], rows, k, width)}
  <2>5. 0 \in Good
    OBVIOUS
  <2>6. ASSUME NEW k \in Nat, k \in Good
        PROVE  k + 1 \in Good
    <3>1. PICK j \in Nat : j = k + 1
      OBVIOUS
    <3>2. ASSUME j \in 1..m
          PROVE  it[j] \in Seq(T) /\ EndToEnd(it[j], rows, j, width)
      <4>1. rows[j] \in Seq(T) /\ Len(rows[j]) \in Nat
        BY <3>2
      <4>2. CASE k = 0
        <5>1. j = 1 /\ it[j] = rows[j]
          BY <2>4, <3>1, <3>2, <4>2
        <5>2. (j - 1) * width = 0
          BY <5>1
        <5>3. \A r \in 1..j : r = 1
          BY <5>1
        <5>4. \A c \in 1..Len(rows[1]) : (1 - 1) * width + c = c
          BY <4>1, <5>1
        <5>5. j # 0 /\ Len(it[j]) = (j - 1) * width + Len(rows[j])
          <6>1. j # 0 /\ Len(it[j]) = 0 + Len(rows[j])
            BY <4>1, <5>1
          <6> QED
            BY <5>2, <6>1
        <5>6. ASSUME NEW r \in 1..j, NEW c \in 1..Len(rows[r])
              PROVE  (r - 1) * width + c \in 1..Len(it[j]) /\ it[j][(r - 1) * width + c] = rows[r][c]
          <6>1. r = 1 /\ c \in 1..Len(rows[1]) /\ (r - 1) * width + c = c
            BY <5>3, <5>4
          <6> QED
            BY <5>1, <6>1
        <5>7. EndToEnd(it[j], rows, j, width)
          BY <5>5, <5>6 DEF EndToEnd
        <5> QED
          BY <4>1, <5>1, <5>7
      <4>3. CASE k # 0
        <5>1. k \in 1..m /\ j # 1 /\ j - 1 = k /\ k < m
          BY <3>1, <3>2, <4>3
        <5>2. PICK s : s = it[k]
          OBVIOUS
        <5>3. PICK u : u = rows[j]
          OBVIOUS
        <5>4. s \in Seq(T) /\ EndToEnd(s, rows, k, width)
          BY <2>6, <5>1, <5>2
        <5>5. it[j] = s \o u
          BY <2>4, <3>2, <5>1, <5>2, <5>3
        <5>6. Len(rows[k]) = width
          BY <5>1
        <5>7. /\ Len(s) = k * width
              /\ \A r \in 1..k : \A c \in 1..Len(rows[r]) :
                   (r - 1) * width + c \in 1..Len(s) /\ s[(r - 1) * width + c] = rows[r][c]
          BY <4>3, <5>4, <5>6 DEF EndToEnd
        <5>8. u \in Seq(T) /\ Len(u) \in Nat /\ Len(s) \in Nat
          BY <4>1, <5>3, <5>4
        <5>9. PICK v : v = s \o u
          OBVIOUS
        <5>10. /\ s \o u \in Seq(T) /\ Len(s \o u) = Len(s) + Len(u)
               /\ \A i \in 1..Len(s) : (s \o u)[i] = s[i]
               /\ \A i \in 1..Len(u) : (s \o u)[Len(s) + i] = u[i]
          <6>1. s \in Seq(T) /\ u \in Seq(T)
            BY <5>4, <5>8
          <6> QED
            BY <6>1, Concatenated
        <5>11. /\ v \in Seq(T) /\ Len(v) = Len(s) + Len(u)
               /\ \A i \in 1..Len(s) : v[i] = s[i]
               /\ \A i \in 1..Len(u) : v[Len(s) + i] = u[i]
          BY <5>9, <5>10
        <5>12. ASSUME NEW r \in 1..j, NEW c \in 1..Len(rows[r])
               PROVE  (r - 1) * width + c \in 1..Len(v) /\ v[(r - 1) * width + c] = rows[r][c]
          <6>1. CASE r \in 1..k
            <7>1. PICK at : at = (r - 1) * width + c
              OBVIOUS
            <7>2. at \in 1..Len(s) /\ s[at] = rows[r][c]
              BY <5>7, <6>1, <7>1
            <7>3. at \in 1..Len(v)
              BY <5>8, <5>11, <7>2
            <7> QED
              BY <5>11, <7>1, <7>2, <7>3
          <6>2. CASE r = j
            <7>1. (r - 1) * width + c = Len(s) + c /\ c \in 1..Len(u)
              BY <5>1, <5>3, <5>7, <6>2
            <7>2. v[Len(s) + c] = u[c] /\ Len(s) + c \in 1..Len(v)
              BY <5>8, <5>11, <7>1
            <7> QED
              BY <5>3, <6>2, <7>1, <7>2
          <6> QED
            BY <3>1, <6>1, <6>2
        <5>13. Len(v) = (j - 1) * width + Len(rows[j])
          BY <5>1, <5>3, <5>7, <5>11
        <5>14. j # 0
          BY <3>2
        <5>15. EndToEnd(v, rows, j, width)
          BY <5>12, <5>13, <5>14 DEF EndToEnd
        <5> QED
          BY <5>5, <5>9, <5>11, <5>15
      <4> QED
        BY <4>2, <4>3
    <3> QED
      BY <3>1, <3>2
  <2>7. Nat \subseteq Good
    <3> HIDE DEF Good
    <3> QED
      BY <2>5, <2>6, NumbersInduction
  <2>8. m \in 1..m
    BY <1>3
  <2> QED
    BY <2>1, <2>7, <2>8
<1> QED
  BY <1>2, <1>3

\* The index: rows of three, one after another, turned round.
LEMMA RowsInARow ==
  ASSUME NEW m \in Nat, NEW rows \in [1..m -> Seq(Nat)], \A r \in 1..m : Len(rows[r]) = 3
  PROVE  /\ FlattenSeq(rows) \in Seq(Nat) /\ Len(FlattenSeq(rows)) = 3 * m
         /\ \A r \in 1..m : \A c \in 1..3 : FlattenSeq(rows)[3 * r - 3 + c] = rows[r][c]
<1>1. PICK f : f = FlattenSeq(rows)
  OBVIOUS
<1>2. f \in Seq(Nat) /\ EndToEnd(f, rows, m, 3)
  <2>1. FlattenSeq(rows) \in Seq(Nat) /\ EndToEnd(FlattenSeq(rows), rows, m, 3)
    BY Flattened
  <2> QED
    BY <1>1, <2>1
<1>3. Len(f) = 3 * m
  <2>1. m # 0 => Len(rows[m]) = 3
    OBVIOUS
  <2>2. Len(f) = IF m = 0 THEN 0 ELSE (m - 1) * 3 + Len(rows[m])
    BY <1>2 DEF EndToEnd
  <2>3. m # 0 => (m - 1) * 3 + 3 = 3 * m
    OBVIOUS
  <2>4. m = 0 => 3 * m = 0
    OBVIOUS
  <2> QED
    BY <2>1, <2>2, <2>3, <2>4
<1>4. \A r \in 1..m : \A c \in 1..3 : (r - 1) * 3 + c = 3 * r - 3 + c
  OBVIOUS
<1>5. \A r \in 1..m : \A c \in 1..3 : f[(r - 1) * 3 + c] = rows[r][c]
  BY <1>2 DEF EndToEnd
<1>6. \A r \in 1..m : \A c \in 1..3 : f[3 * r - 3 + c] = rows[r][c]
  BY <1>4, <1>5
<1> QED
  BY <1>1, <1>2, <1>3, <1>6

LEMMA RowIs ==
  ASSUME PackedOK, NEW n \in Nat, NEW offset \in Nat
  PROVE  /\ RowFor(n, offset) \in Seq(Nat) /\ Len(RowFor(n, offset)) = 3 /\ RowFor(n, offset)[1] = n
         /\ 256 * RowFor(n, offset)[2] + RowFor(n, offset)[3] = PageAt + offset
<1>1. PICK to \in Nat : to = PageAt + offset
  <2>1. PageAt \in Nat
    BY Addresses
  <2> QED
    BY <2>1
<1>2. to \div 256 \in Nat /\ to % 256 \in Nat /\ (to % 256) + 256 * (to \div 256) = to
  BY WordSays
<1>3. RowFor(n, offset) = <<n, to \div 256, to % 256>>
  BY <1>1 DEF RowFor
<1> QED
  BY <1>1, <1>2, <1>3

LEMMA TurnedRound ==
  ASSUME NEW m \in Int, NEW r \in Int, NEW c \in Int
  PROVE  ((3 * m + 6) - (3 * (m - r) + 5 - c)) + 1 = 5 + (3 * r - 3 + c)
OBVIOUS

RowsInTheIndex(page, m) ==
  \A r \in 1..m : \A c \in 1..3 : Index(page)[3 * (m - r) + 5 - c] = page.rows[r][c]

LEMMA IndexIs ==
  ASSUME PackedOK, NEW page, LaidOut(page, DOMAIN packed.images), NEW m \in Nat, m = Len(page.rows)
  PROVE  /\ Index(page) \in Seq(Nat) /\ Len(Index(page)) = 3 * m + 6
         /\ Index(page)[1] = EndMark
         /\ RowsInTheIndex(page, m)
<1>1. page.body \in Seq(Nat) /\ page.rows \in Seq(Seq(Nat)) /\ PageAt \in Nat
  BY Addresses DEF LaidOut, Pages
<1>2. PICK rows : rows = page.rows
  OBVIOUS
<1>3. rows \in [1..m -> Seq(Nat)] /\ \A r \in 1..m : Len(rows[r]) = 3
  <2>1. rows \in [1..m -> Seq(Nat)]
    BY <1>1, <1>2, LenProperties
  <2>2. ASSUME NEW r \in 1..m
        PROVE  Len(rows[r]) = 3
    <3>1. PICK n \in DOMAIN packed.images, offset \in Nat : rows[r] = RowFor(n, offset)
      BY <1>2, <2>1 DEF LaidOut
    <3>2. n \in Nat
      BY PackagerAssumption, Marks DEF PackedOK
    <3> QED
      BY <3>1, <3>2, RowIs
  <2> QED
    BY <2>1, <2>2
<1>4. PICK flat : flat = FlattenSeq(rows)
  OBVIOUS
<1>5. /\ flat \in Seq(Nat) /\ Len(flat) = 3 * m
      /\ \A r \in 1..m : \A c \in 1..3 : flat[3 * r - 3 + c] = rows[r][c]
  BY <1>3, <1>4, RowsInARow
<1>6. PICK at : at = Word(PageAt)
  OBVIOUS
<1>7. at \in Seq(Nat) /\ Len(at) = 2
  BY <1>1, <1>6, WordSays
<1>8. PICK long : long = Word(Len(page.body))
  OBVIOUS
<1>9. long \in Seq(Nat) /\ Len(long) = 2
  <2>1. Len(page.body) \in Nat
    BY <1>1, LenProperties
  <2> QED
    BY <1>8, <2>1, WordSays
<1>10. PICK end : end = <<EndMark>>
  OBVIOUS
<1>11. end \in Seq(Nat) /\ Len(end) = 1 /\ end[1] = EndMark
  BY <1>10 DEF EndMark
<1>12. PICK a : a = at \o long
  OBVIOUS
<1>13. a \in Seq(Nat) /\ Len(a) = 4
  <2>1. at \o long \in Seq(Nat) /\ Len(at \o long) = Len(at) + Len(long)
    BY <1>7, <1>9, JoinedAre
  <2> QED
    BY <1>7, <1>9, <1>12, <2>1
<1>14. PICK b : b = a \o end
  OBVIOUS
<1>15. b \in Seq(Nat) /\ Len(b) = 5
  <2>1. a \o end \in Seq(Nat) /\ Len(a \o end) = Len(a) + Len(end)
    BY <1>11, <1>13, JoinedAre
  <2> QED
    BY <1>11, <1>13, <1>14, <2>1
<1>16. PICK d : d = b \o flat
  OBVIOUS
<1>17. d \in Seq(Nat) /\ Len(d) = 5 + 3 * m /\ \A i \in 1..(3 * m) : d[5 + i] = flat[i]
  <2>1. /\ b \o flat \in Seq(Nat) /\ Len(b \o flat) = Len(b) + Len(flat)
        /\ \A i \in 1..Len(flat) : (b \o flat)[Len(b) + i] = flat[i]
    BY <1>5, <1>15, JoinedAre
  <2> QED
    BY <1>5, <1>15, <1>16, <2>1
<1>18. PICK whole : whole = d \o end
  OBVIOUS
<1>19. /\ whole \in Seq(Nat) /\ Len(whole) = 3 * m + 6 /\ whole[3 * m + 6] = EndMark
       /\ \A i \in 1..(3 * m) : whole[5 + i] = flat[i]
  <2>1. /\ d \o end \in Seq(Nat) /\ Len(d \o end) = Len(d) + Len(end)
        /\ \A i \in 1..Len(d) : (d \o end)[i] = d[i]
        /\ \A i \in 1..Len(end) : (d \o end)[Len(d) + i] = end[i]
    BY <1>11, <1>17, JoinedAre
  <2>2. \A i \in 1..(3 * m) : 5 + i \in 1..(5 + 3 * m)
    OBVIOUS
  <2>3. 1 \in 1..1 /\ (5 + 3 * m) + 1 = 3 * m + 6
    OBVIOUS
  <2> QED
    BY <1>11, <1>17, <1>18, <2>1, <2>2, <2>3
<1>20. Index(page) = Reverse(whole)
  BY <1>2, <1>4, <1>6, <1>8, <1>10, <1>12, <1>14, <1>16, <1>18 DEF Index
<1>21. PICK total \in Nat : total = 3 * m + 6
  OBVIOUS
<1>22. PICK turned : turned = [i \in 1..total |-> whole[(total - i) + 1]]
  OBVIOUS
<1>23. Index(page) = turned
  BY <1>19, <1>20, <1>21, <1>22 DEF Reverse
<1>24. turned \in Seq(Nat) /\ Len(turned) = total
  <2>1. \A i \in 1..total : (total - i) + 1 \in 1..total
    OBVIOUS
  <2>2. \A i \in 1..total : whole[i] \in Nat
    BY <1>19, <1>21
  <2>3. \A i \in 1..total : turned[i] \in Nat
    BY <1>22, <2>1, <2>2
  <2> QED
    BY <1>22, <2>3
<1>25. turned[1] = EndMark
  <2>1. 1 \in 1..total /\ (total - 1) + 1 = 3 * m + 6
    BY <1>21
  <2> QED
    BY <1>19, <1>22, <2>1
<1>26. ASSUME NEW r \in 1..m, NEW c \in 1..3
       PROVE  turned[3 * (m - r) + 5 - c] = rows[r][c]
  <2>1. 3 * (m - r) + 5 - c \in 1..total
    BY <1>21
  <2>2. (total - (3 * (m - r) + 5 - c)) + 1 = 5 + (3 * r - 3 + c)
    <3>1. m \in Int /\ r \in Int /\ c \in Int
      OBVIOUS
    <3>2. ((3 * m + 6) - (3 * (m - r) + 5 - c)) + 1 = 5 + (3 * r - 3 + c)
      BY <3>1, TurnedRound
    <3> QED
      BY <1>21, <3>2, Zenon
  <2>3. 3 * r - 3 + c \in 1..(3 * m)
    OBVIOUS
  <2>4. turned[3 * (m - r) + 5 - c] = whole[5 + (3 * r - 3 + c)]
    BY <1>22, <2>1, <2>2
  <2> QED
    BY <1>5, <1>19, <2>3, <2>4
<1> QED
  BY <1>2, <1>21, <1>23, <1>24, <1>25, <1>26 DEF RowsInTheIndex

\* The rows, turned round with the index.
RowsAtTheTop(page, m) ==
  \A r \in 1..m : \A c \in 1..3 : TopBlock(page)[3 * (m - r) + 5 - c] = page.rows[r][c]

\* charsetGlyphs and replaceCharset leave the stub as long as it was.
LEMMA TopBlockIs ==
  ASSUME PackedOK, NEW page, LaidOut(page, DOMAIN packed.images), NEW m \in Nat, m = Len(page.rows)
  PROVE  /\ TopBlock(page) \in Seq(Nat) /\ Len(TopBlock(page)) = 3 * m + 6 + StubSize
         /\ TopBlock(page)[1] = EndMark
         /\ RowsAtTheTop(page, m)
<1>1. PICK index : index = Index(page)
  OBVIOUS
<1>2. /\ index \in Seq(Nat) /\ Len(index) = 3 * m + 6
      /\ index[1] = EndMark
      /\ \A r \in 1..m : \A c \in 1..3 : index[3 * (m - r) + 5 - c] = page.rows[r][c]
  <2>1. /\ Index(page) \in Seq(Nat) /\ Len(Index(page)) = 3 * m + 6
        /\ Index(page)[1] = EndMark /\ RowsInTheIndex(page, m)
    BY IndexIs
  <2> QED
    BY <1>1, <2>1 DEF RowsInTheIndex
<1>3. /\ StubSize \in Nat /\ FontSize \in Nat /\ FontTrailer \in Nat
      /\ StubSize - FontSize - FontTrailer \in Nat /\ StubMark \in Nat /\ FontMark \in Nat
  BY SpectrumSizes DEF StubMark, FontMark
<1>4. PICK before : before = Bytes(StubMark, StubSize - FontSize - FontTrailer)
  OBVIOUS
<1>5. before \in Seq(Nat) /\ Len(before) = StubSize - FontSize - FontTrailer
  BY <1>3, <1>4, BytesAre
<1>6. PICK font : font = Bytes(FontMark, FontSize)
  OBVIOUS
<1>7. font \in Seq(Nat) /\ Len(font) = FontSize
  BY <1>3, <1>6, BytesAre
<1>8. PICK after : after = Bytes(StubMark, FontTrailer)
  OBVIOUS
<1>9. after \in Seq(Nat) /\ Len(after) = FontTrailer
  BY <1>3, <1>8, BytesAre
<1>10. PICK a : a = index \o before
  OBVIOUS
<1>11. a \in Seq(Nat) /\ Len(a) = Len(index) + Len(before) /\ \A i \in 1..Len(index) : a[i] = index[i]
  BY <1>2, <1>5, <1>10, JoinedAre
<1>12. PICK b : b = a \o font
  OBVIOUS
<1>13. b \in Seq(Nat) /\ Len(b) = Len(a) + Len(font) /\ \A i \in 1..Len(a) : b[i] = a[i]
  BY <1>7, <1>11, <1>12, JoinedAre
<1>14. PICK d : d = b \o after
  OBVIOUS
<1>15. d \in Seq(Nat) /\ Len(d) = Len(b) + Len(after) /\ \A i \in 1..Len(b) : d[i] = b[i]
  BY <1>9, <1>13, <1>14, JoinedAre
<1>16. TopBlock(page) = d
  BY <1>1, <1>4, <1>6, <1>8, <1>10, <1>12, <1>14 DEF TopBlock
<1>17. Len(d) = 3 * m + 6 + StubSize
  BY <1>2, <1>3, <1>5, <1>7, <1>9, <1>11, <1>13, <1>15
<1>18. \A i \in 1..(3 * m + 6) : d[i] = index[i]
  <2>1. ASSUME NEW i \in 1..(3 * m + 6)
        PROVE  d[i] = index[i]
    <3>1. /\ i \in 1..Len(index) /\ Len(index) \in Nat /\ Len(before) \in Nat /\ Len(font) \in Nat
          /\ Len(a) = Len(index) + Len(before) /\ Len(b) = Len(a) + Len(font)
      BY <1>2, <1>3, <1>5, <1>7, <1>11, <1>13
    <3>2. i \in 1..Len(a) /\ i \in 1..Len(b)
      BY <3>1
    <3> QED
      BY <1>11, <1>13, <1>15, <3>1, <3>2
  <2> QED
    BY <2>1
<1>19. 1 \in 1..(3 * m + 6)
       /\ \A r \in 1..m : \A c \in 1..3 : 3 * (m - r) + 5 - c \in 1..(3 * m + 6)
  OBVIOUS
<1> QED
  BY <1>2, <1>15, <1>16, <1>17, <1>18, <1>19 DEF RowsAtTheTop

-----------------------------------------------------------------------------
\* What is in the memory at the end is what was loaded there last.
TapeBlocks == [letter : {"S", "I", "D", "G", "P"}, at : Nat, body : Seq(Nat)]

Spot(b) == b.at..(b.at + Len(b.body) - 1)

LEMMA LoadedLast ==
  ASSUME tape \in Seq(TapeBlocks), NEW i \in DOMAIN tape, NEW a \in 0..(Top - 1),
         a \in Spot(tape[i]), \A j \in DOMAIN tape : i < j => a \notin Spot(tape[j])
  PROVE  Memory[a] = tape[i].body[a - tape[i].at + 1]
<1> DEFINE Rams == [0..(Top - 1) -> Nat]
           Load(ram, b) ==
             [x \in 0..(Top - 1) |->
                IF x \in b.at..(b.at + Len(b.body) - 1) THEN b.body[x - b.at + 1] ELSE ram[x]]
           base == [x \in 0..(Top - 1) |-> 0]
<1>1. PICK N \in Nat : N = Len(tape) /\ DOMAIN tape = 1..N
  BY LenProperties
<1>2. \A k \in 1..N : tape[k] \in TapeBlocks
  BY <1>1
<1>3. base \in Rams
  OBVIOUS
<1>4. ASSUME NEW ram \in Rams, NEW b \in TapeBlocks
      PROVE  Load(ram, b) \in Rams
  <2>1. b.at \in Nat /\ b.body \in Seq(Nat)
    BY DEF TapeBlocks
  <2>2. PICK n \in Nat : n = Len(b.body) /\ \A k \in 1..n : b.body[k] \in Nat
    <3>1. Len(b.body) \in Nat /\ DOMAIN b.body = 1..Len(b.body)
      BY <2>1, LenProperties
    <3>2. \A k \in 1..Len(b.body) : b.body[k] \in Nat
      BY <2>1
    <3> QED
      BY <3>1, <3>2
  <2>3. ASSUME NEW x \in b.at..(b.at + n - 1)
        PROVE  b.body[x - b.at + 1] \in Nat
    <3>1. x - b.at + 1 \in 1..n
      BY <2>1, <2>2
    <3> QED
      BY <2>2, <3>1
  <2> QED
    BY <2>2, <2>3
<1> DEFINE step == [p \in (1..N) \X Rams |-> Load(p[2], tape[p[1]])]
           Folds(g) == g = [s \in SUBSET (1..N) |->
                              IF s = {} THEN base ELSE Load(g[s \ {Max(s)}], tape[Max(s)])]
<1>5. \E g : Folds(g)
  <2>1. step \in [(1..N) \X Rams -> Rams]
    <3> HIDE DEF Load, Rams
    <3> QED
      BY <1>2, <1>4
  <2>2. PICK g \in [SUBSET (1..N) -> Rams] : LeftFold(g, N, base, step)
    <3> HIDE DEF step, base, Rams
    <3> QED
      BY <1>3, <2>1, LeftFoldExists
  <2>3. ASSUME NEW s \in SUBSET (1..N), s # {}
        PROVE  step[<<Max(s), g[s \ {Max(s)}]>>] = Load(g[s \ {Max(s)}], tape[Max(s)])
    <3>1. Max(s) \in s
      <4>1. s \in SUBSET (0..N)
        OBVIOUS
      <4> QED
        BY <2>3, <4>1, GreatestNumber
    <3> HIDE DEF Load, Rams
    <3>2. <<Max(s), g[s \ {Max(s)}]>> \in (1..N) \X Rams
      BY <2>2, <3>1
    <3> QED
      BY <3>2
  <2> HIDE DEF Load, step, base
  <2>4. g = [s \in SUBSET (1..N) |-> IF s = {} THEN base ELSE Load(g[s \ {Max(s)}], tape[Max(s)])]
    BY <2>2, <2>3 DEF LeftFold
  <2> QED
    BY <2>4
<1> DEFINE it == CHOOSE g : Folds(g)
<1>6. Folds(it)
  <2> HIDE DEF Folds
  <2> QED
    BY <1>5
<1>7. Memory = it[1..N]
  BY <1>1 DEF Memory, FoldLeft, MapThenFoldSet
<1>8. \A k \in Nat : k + 1 <= N => it[1..(k + 1)] = Load(it[1..k], tape[k + 1])
  <2> HIDE DEF it, Load, base
  <2>1. ASSUME NEW k \in Nat, k + 1 <= N
        PROVE  it[1..(k + 1)] = Load(it[1..k], tape[k + 1])
    <3>1. 1..(k + 1) \in SUBSET (1..N)
      BY <2>1
    <3>2. PICK s : s = 1..(k + 1)
      OBVIOUS
    <3>3. s # {} /\ Max(s) = k + 1 /\ s \ {k + 1} = 1..k
      BY <3>2, UpToTheNext
    <3> QED
      BY <1>6, <3>1, <3>2, <3>3
  <2> QED
    BY <2>1
<1> HIDE DEF it
<1>9. ASSUME NEW k \in Nat, k + 1 <= N
      PROVE  it[1..(k + 1)][a] = IF a \in Spot(tape[k + 1])
                                 THEN tape[k + 1].body[a - tape[k + 1].at + 1] ELSE it[1..k][a]
  <2>1. it[1..(k + 1)] = Load(it[1..k], tape[k + 1])
    BY <1>8, <1>9
  <2>2. ASSUME NEW ram, NEW b
        PROVE  Load(ram, b)[a] = IF a \in Spot(b) THEN b.body[a - b.at + 1] ELSE ram[a]
    BY DEF Spot
  <2> HIDE DEF Load
  <2> QED
    BY <2>1, <2>2
<1> DEFINE byte == tape[i].body[a - tape[i].at + 1]
           Good == {k \in Nat : i + k <= N => it[1..(i + k)][a] = byte}
<1> HIDE DEF byte
<1>10. i \in 1..N /\ i - 1 \in Nat
  BY <1>1
<1>11. 0 \in Good
  <2>1. PICK k \in Nat : i = k + 1
    <3>1. i = (i - 1) + 1
      BY <1>10
    <3> QED
      BY <1>10, <3>1
  <2>2. it[1..(k + 1)][a] = byte
    <3>1. k + 1 <= N /\ a \in Spot(tape[k + 1])
      BY <1>10, <2>1
    <3>2. it[1..(k + 1)][a] = tape[k + 1].body[a - tape[k + 1].at + 1]
      BY <1>9, <3>1
    <3> QED
      BY <2>1, <3>2 DEF byte
  <2>3. i + 0 = k + 1
    BY <2>1
  <2> QED
    BY <2>2, <2>3
<1>12. ASSUME NEW k \in Nat, k \in Good
       PROVE  k + 1 \in Good
  <2> SUFFICES ASSUME i + (k + 1) <= N
               PROVE  it[1..(i + (k + 1))][a] = byte
    OBVIOUS
  <2>1. PICK last \in Nat : last = i + k
    BY <1>10
  <2>2. last + 1 <= N /\ last + 1 = i + (k + 1) /\ last <= N
    BY <1>10, <2>1
  <2>3. it[1..last][a] = byte
    BY <1>12, <2>1, <2>2
  <2>4. last + 1 \in DOMAIN tape /\ i < last + 1
    BY <1>1, <1>10, <2>1, <2>2
  <2>5. a \notin Spot(tape[last + 1])
    BY <2>4
  <2> QED
    BY <1>9, <2>2, <2>3, <2>5
<1>13. PICK k \in Nat : i + k = N
  <2>1. N - i \in Nat /\ i + (N - i) = N
    BY <1>10
  <2> QED
    BY <2>1
<1>14. k \in Good
  <2> HIDE DEF Good
  <2> QED
    BY <1>11, <1>12, NumbersInduction
<1>15. it[1..N][a] = byte
  BY <1>10, <1>13, <1>14
<1> QED
  BY <1>7, <1>15 DEF byte

-----------------------------------------------------------------------------
\* The tape's blocks, and where they lie.
LEMMA BlocksJoined ==
  ASSUME NEW s \in Seq(TapeBlocks), NEW t \in Seq(TapeBlocks)
  PROVE  /\ s \o t \in Seq(TapeBlocks) /\ Len(s \o t) = Len(s) + Len(t)
         /\ \A i \in 1..Len(s) : (s \o t)[i] = s[i]
         /\ \A i \in 1..Len(t) : (s \o t)[Len(s) + i] = t[i]
BY Concatenated

\* What ZX48 was content with.
Fitting(page) ==
  /\ LaidOut(page, DOMAIN packed.images)
  /\ PicturesWhole
  /\ BlocksFit("48k", page)
  /\ tape = TapeOf(page)
  /\ dropped = page.out

ShownBlock == TapeBlock("S", ScreenBase, Bytes(LoadingMark, SizeOf(packed.loading)))
InterpreterBlock == TapeBlock("I", InterpreterOrigin, Bytes(InterpreterMark, InterpreterSize["48k"]))
DatabaseBlock == TapeBlock("D", DatabaseOrigin, Bytes(DatabaseMark, SizeOf(packed.database)))
TopOfMemory(page) == TapeBlock("G", TopOrigin(page), TopBlock(page))
PictureBlock(page) == TapeBlock("P", PageAt, page.body)

LEMMA BlocksOfTheTape ==
  ASSUME PackedOK, NEW page, Fitting(page)
  PROVE  /\ {ShownBlock, InterpreterBlock, DatabaseBlock, TopOfMemory(page), PictureBlock(page)}
              \subseteq TapeBlocks
         /\ Spot(InterpreterBlock) \subseteq InterpreterOrigin..(DatabaseOrigin - 1)
         /\ Spot(DatabaseBlock) \subseteq DatabaseOrigin..(DatabaseEnd - 1)
         /\ Spot(TopOfMemory(page)) = TopOrigin(page)..(Top - 1)
         /\ page.body # <<>> => Spot(PictureBlock(page)) \subseteq PageAt..(Top - StubSize - 1)
         /\ InterpreterOrigin <= DatabaseOrigin /\ DatabaseOrigin <= DatabaseEnd
         /\ DatabaseEnd <= TopOrigin(page) /\ DatabaseEnd <= PageAt /\ TopOrigin(page) <= Top
         /\ {InterpreterOrigin, DatabaseOrigin, DatabaseEnd, TopOrigin(page), PageAt, Top} \subseteq Nat
         /\ Len(TopBlock(page)) \in Nat /\ TopOrigin(page) = Top - Len(TopBlock(page))
<1>1. /\ InterpreterOrigin \in Nat /\ DatabaseOrigin \in Nat /\ ScreenBase \in Nat /\ Top \in Nat
      /\ InterpreterSize["48k"] \in Nat /\ StubSize \in Nat
      /\ LoadingMark \in Nat /\ InterpreterMark \in Nat /\ DatabaseMark \in Nat
  BY PackagerAssumption DEF LoadingMark, InterpreterMark, DatabaseMark
<1>2. /\ SizeOf(packed.database) \in Nat /\ SizeOf(packed.loading) \in Nat
      /\ DatabaseEnd \in Nat /\ DatabaseOrigin <= DatabaseEnd /\ PageAt \in Nat /\ DatabaseEnd <= PageAt
      /\ DatabaseEnd = DatabaseOrigin + SizeOf(packed.database)
  BY Addresses DEF PackedOK, DatabaseEnd
<1>3. PICK m \in Nat : m = Len(page.rows)
  <2>1. page.rows \in Seq(Seq(Nat))
    BY DEF Fitting, LaidOut, Pages
  <2> QED
    BY <2>1, LenProperties
<1>4. TopBlock(page) \in Seq(Nat) /\ Len(TopBlock(page)) = 3 * m + 6 + StubSize
  BY <1>3, TopBlockIs DEF Fitting
<1>5. /\ InterpreterOrigin + InterpreterSize["48k"] <= DatabaseOrigin
      /\ DatabaseEnd <= TopOrigin(page)
  BY DEF Fitting, BlocksFit
<1>6. PICK top : top = TopOrigin(page)
  OBVIOUS
<1>7. top \in Nat /\ top = Top - Len(TopBlock(page)) /\ Len(TopBlock(page)) \in Nat
  <2>1. Len(TopBlock(page)) \in Nat
    BY <1>4, LenProperties
  <2>2. top = Top - Len(TopBlock(page)) /\ DatabaseEnd <= top
    BY <1>5, <1>6 DEF TopOrigin
  <2> QED
    BY <1>1, <1>2, <2>1, <2>2
<1>8. /\ InterpreterBlock = [letter |-> "I", at |-> InterpreterOrigin,
                             body |-> Bytes(InterpreterMark, InterpreterSize["48k"])]
      /\ ShownBlock = [letter |-> "S", at |-> ScreenBase, body |-> Bytes(LoadingMark, SizeOf(packed.loading))]
      /\ DatabaseBlock = [letter |-> "D", at |-> DatabaseOrigin,
                          body |-> Bytes(DatabaseMark, SizeOf(packed.database))]
      /\ TopOfMemory(page) = [letter |-> "G", at |-> top, body |-> TopBlock(page)]
      /\ PictureBlock(page) = [letter |-> "P", at |-> PageAt, body |-> page.body]
  BY <1>6 DEF ShownBlock, InterpreterBlock, DatabaseBlock, TopOfMemory, PictureBlock, TapeBlock
<1>9. /\ Bytes(InterpreterMark, InterpreterSize["48k"]) \in Seq(Nat)
      /\ Len(Bytes(InterpreterMark, InterpreterSize["48k"])) = InterpreterSize["48k"]
      /\ Bytes(LoadingMark, SizeOf(packed.loading)) \in Seq(Nat)
      /\ Bytes(DatabaseMark, SizeOf(packed.database)) \in Seq(Nat)
      /\ Len(Bytes(DatabaseMark, SizeOf(packed.database))) = SizeOf(packed.database)
  BY <1>1, <1>2, BytesAre
<1>10. page.body \in Seq(Nat)
  BY DEF Fitting, LaidOut, Pages
<1>11. {ShownBlock, InterpreterBlock, DatabaseBlock, TopOfMemory(page), PictureBlock(page)} \subseteq TapeBlocks
  <2>1. ShownBlock \in TapeBlocks /\ InterpreterBlock \in TapeBlocks /\ DatabaseBlock \in TapeBlocks
    BY <1>1, <1>8, <1>9 DEF TapeBlocks
  <2>2. TopOfMemory(page) \in TapeBlocks /\ PictureBlock(page) \in TapeBlocks
    BY <1>2, <1>4, <1>7, <1>8, <1>10 DEF TapeBlocks
  <2> QED
    BY <2>1, <2>2
<1>12. Spot(InterpreterBlock) \subseteq InterpreterOrigin..(DatabaseOrigin - 1)
  <2>1. Spot(InterpreterBlock) = InterpreterOrigin..(InterpreterOrigin + InterpreterSize["48k"] - 1)
    BY <1>8, <1>9 DEF Spot
  <2> QED
    BY <1>1, <1>5, <2>1
<1>13. Spot(DatabaseBlock) \subseteq DatabaseOrigin..(DatabaseEnd - 1)
  <2>1. Spot(DatabaseBlock) = DatabaseOrigin..(DatabaseOrigin + SizeOf(packed.database) - 1)
    BY <1>8, <1>9 DEF Spot
  <2> QED
    BY <1>1, <1>2, <2>1
<1>14. Spot(TopOfMemory(page)) = top..(Top - 1)
  <2>1. Spot(TopOfMemory(page)) = top..(top + Len(TopBlock(page)) - 1)
    BY <1>8 DEF Spot
  <2> QED
    BY <1>1, <1>7, <2>1
<1>15. page.body # <<>> => Spot(PictureBlock(page)) \subseteq PageAt..(Top - StubSize - 1)
  <2> SUFFICES ASSUME page.body # <<>>
               PROVE  Spot(PictureBlock(page)) \subseteq PageAt..(Top - StubSize - 1)
    OBVIOUS
  <2>1. PageAt + Len(page.body) + IndexEntry + IndexFixed + StubSize <= Top
    BY DEF Fitting, LaidOut
  <2>2. Len(page.body) \in Nat
    BY <1>10, LenProperties
  <2>3. PageAt + Len(page.body) - 1 <= Top - StubSize - 1
    BY <1>1, <1>2, <2>1, <2>2 DEF IndexEntry, IndexFixed
  <2>4. Spot(PictureBlock(page)) = PageAt..(PageAt + Len(page.body) - 1)
    BY <1>8 DEF Spot
  <2>5. PICK most \in Int : most = PageAt + Len(page.body) - 1
    <3>1. PageAt + Len(page.body) - 1 \in Int
      BY <1>2, <2>2
    <3> QED
      BY <3>1
  <2>6. PICK last \in Int : last = Top - StubSize - 1
    BY <1>1
  <2>7. PageAt..most \subseteq PageAt..last
    BY <1>2, <2>3, <2>5, <2>6
  <2> QED
    BY <2>4, <2>5, <2>6, <2>7
<1>16. InterpreterOrigin <= DatabaseOrigin
  BY <1>1, <1>5
<1>17. top <= Top
  BY <1>1, <1>7
<1> QED
  BY <1>1, <1>2, <1>5, <1>6, <1>7, <1>11, <1>12, <1>13, <1>14, <1>15, <1>16, <1>17

\* The order they are loaded in.
LEMMA OrderOfTheTape ==
  ASSUME PackedOK, NEW page, Fitting(page)
  PROVE  /\ tape \in Seq(TapeBlocks)
         /\ \E s \in {0, 1} :
              /\ Len(tape) = IF page.body = <<>> THEN s + 3 ELSE s + 4
              /\ s = 1 => tape[1] = ShownBlock
              /\ tape[s + 1] = InterpreterBlock /\ tape[s + 2] = DatabaseBlock
              /\ tape[s + 3] = TopOfMemory(page)
              /\ page.body # <<>> => tape[s + 4] = PictureBlock(page)
<1>1. /\ ShownBlock \in TapeBlocks /\ InterpreterBlock \in TapeBlocks /\ DatabaseBlock \in TapeBlocks
      /\ TopOfMemory(page) \in TapeBlocks /\ PictureBlock(page) \in TapeBlocks
  BY BlocksOfTheTape
<1>2. PICK shown : shown = IF packed.loading = Empty THEN <<>> ELSE <<ShownBlock>>
  OBVIOUS
<1>3. PICK s \in {0, 1} : /\ shown \in Seq(TapeBlocks) /\ Len(shown) = s
                          /\ s = 1 => shown[1] = ShownBlock
  <2>1. CASE packed.loading = Empty
    BY <1>2, <2>1
  <2>2. CASE packed.loading # Empty
    BY <1>1, <1>2, <2>2
  <2> QED
    BY <2>1, <2>2
<1>4. PICK game : game = <<InterpreterBlock, DatabaseBlock, TopOfMemory(page)>>
  OBVIOUS
<1>5. /\ game \in Seq(TapeBlocks) /\ Len(game) = 3
      /\ game[1] = InterpreterBlock /\ game[2] = DatabaseBlock /\ game[3] = TopOfMemory(page)
  BY <1>1, <1>4
<1>6. PICK picts : picts = IF page.body = <<>> THEN <<>> ELSE <<PictureBlock(page)>>
  OBVIOUS
<1>7. /\ picts \in Seq(TapeBlocks)
      /\ page.body = <<>> => Len(picts) = 0
      /\ page.body # <<>> => Len(picts) = 1 /\ picts[1] = PictureBlock(page)
  BY <1>1, <1>6
<1>8. PICK first : first = shown \o game
  OBVIOUS
<1>9. /\ first \in Seq(TapeBlocks) /\ Len(first) = s + 3
      /\ s = 1 => first[1] = ShownBlock
      /\ first[s + 1] = InterpreterBlock /\ first[s + 2] = DatabaseBlock /\ first[s + 3] = TopOfMemory(page)
  <2>1. /\ shown \o game \in Seq(TapeBlocks) /\ Len(shown \o game) = Len(shown) + Len(game)
        /\ \A i \in 1..Len(shown) : (shown \o game)[i] = shown[i]
        /\ \A i \in 1..Len(game) : (shown \o game)[Len(shown) + i] = game[i]
    BY <1>3, <1>5, BlocksJoined
  <2>2. \A i \in 1..s : first[i] = shown[i]
    BY <1>3, <1>8, <2>1
  <2>3. \A i \in 1..3 : first[s + i] = game[i]
    BY <1>3, <1>5, <1>8, <2>1
  <2> QED
    BY <1>3, <1>5, <1>8, <2>1, <2>2, <2>3
<1>10. PICK all : all = first \o picts
  OBVIOUS
<1>11. /\ all \in Seq(TapeBlocks) /\ Len(all) = (s + 3) + Len(picts)
       /\ \A i \in 1..(s + 3) : all[i] = first[i]
       /\ \A i \in 1..Len(picts) : all[(s + 3) + i] = picts[i]
  <2>1. /\ first \o picts \in Seq(TapeBlocks) /\ Len(first \o picts) = Len(first) + Len(picts)
        /\ \A i \in 1..Len(first) : (first \o picts)[i] = first[i]
        /\ \A i \in 1..Len(picts) : (first \o picts)[Len(first) + i] = picts[i]
    BY <1>7, <1>9, BlocksJoined
  <2> QED
    BY <1>9, <1>10, <2>1
<1>12. tape = all
  <2>1. SizeOf(packed.loading) = packed.loading \/ packed.loading = Empty
    BY DEF SizeOf
  <2>2. packed.loading # Empty => ShownBlock = TapeBlock("S", ScreenBase, Bytes(LoadingMark, packed.loading))
    BY <2>1 DEF ShownBlock
  <2> QED
    BY <1>2, <1>4, <1>6, <1>8, <1>10, <2>2
       DEF Fitting, TapeOf, InterpreterBlock, DatabaseBlock, TopOfMemory, PictureBlock
<1>13. /\ s = 1 => all[1] = ShownBlock
       /\ all[s + 1] = InterpreterBlock /\ all[s + 2] = DatabaseBlock /\ all[s + 3] = TopOfMemory(page)
  <2>1. 1 \in 1..(s + 3) /\ s + 1 \in 1..(s + 3) /\ s + 2 \in 1..(s + 3) /\ s + 3 \in 1..(s + 3)
    OBVIOUS
  <2> QED
    BY <1>9, <1>11, <2>1
<1>14. page.body # <<>> => all[s + 4] = PictureBlock(page)
  <2> SUFFICES ASSUME page.body # <<>>
               PROVE  all[s + 4] = PictureBlock(page)
    OBVIOUS
  <2>1. 1 \in 1..Len(picts) /\ (s + 3) + 1 = s + 4
    BY <1>7
  <2> QED
    BY <1>7, <1>11, <2>1
<1>15. Len(all) = IF page.body = <<>> THEN s + 3 ELSE s + 4
  BY <1>7, <1>11
<1> QED
  BY <1>11, <1>12, <1>13, <1>14, <1>15

\* Every block is one of the five, and what loads after it lies above it; but for
\* the pictures, which load last.
LEMMA LaterLiesAbove ==
  ASSUME PackedOK, NEW page, Fitting(page), NEW k \in DOMAIN tape
  PROVE  \/ /\ tape[k] = ShownBlock
            /\ \A j \in DOMAIN tape : k < j => \A a \in Spot(tape[j]) : a \in Nat /\ InterpreterOrigin <= a
         \/ /\ tape[k] = InterpreterBlock
            /\ \A j \in DOMAIN tape : k < j => \A a \in Spot(tape[j]) : a \in Nat /\ DatabaseOrigin <= a
         \/ /\ tape[k] = DatabaseBlock
            /\ \A j \in DOMAIN tape : k < j => \A a \in Spot(tape[j]) : a \in Nat /\ DatabaseEnd <= a
         \/ /\ tape[k] = TopOfMemory(page)
            /\ \A j \in DOMAIN tape : k < j => page.body # <<>> /\ tape[j] = PictureBlock(page)
         \/ /\ tape[k] = PictureBlock(page) /\ page.body # <<>>
            /\ \A j \in DOMAIN tape : ~(k < j)
<1>1. PICK s \in {0, 1} :
        /\ Len(tape) = IF page.body = <<>> THEN s + 3 ELSE s + 4
        /\ s = 1 => tape[1] = ShownBlock
        /\ tape[s + 1] = InterpreterBlock /\ tape[s + 2] = DatabaseBlock
        /\ tape[s + 3] = TopOfMemory(page)
        /\ page.body # <<>> => tape[s + 4] = PictureBlock(page)
  BY OrderOfTheTape
<1>2. tape \in Seq(TapeBlocks) /\ DOMAIN tape = 1..Len(tape)
  BY OrderOfTheTape
<1>3. /\ \A j \in DOMAIN tape : \/ s = 1 /\ j = 1
                                \/ j = s + 1 \/ j = s + 2 \/ j = s + 3
                                \/ j = s + 4 /\ page.body # <<>>
      /\ DOMAIN tape \subseteq Nat
  BY <1>1, <1>2
<1>4. /\ InterpreterOrigin \in Nat /\ DatabaseOrigin \in Nat /\ DatabaseEnd \in Nat /\ PageAt \in Nat
      /\ InterpreterOrigin <= DatabaseOrigin /\ DatabaseOrigin <= DatabaseEnd
      /\ DatabaseEnd <= TopOrigin(page) /\ DatabaseEnd <= PageAt /\ TopOrigin(page) \in Nat
  BY BlocksOfTheTape
<1>5. \A a \in Spot(InterpreterBlock) : a \in Nat /\ InterpreterOrigin <= a
  BY <1>4, BlocksOfTheTape
<1>6. \A a \in Spot(DatabaseBlock) : a \in Nat /\ DatabaseOrigin <= a
  BY <1>4, BlocksOfTheTape
<1>7. \A a \in Spot(TopOfMemory(page)) : a \in Nat /\ DatabaseEnd <= a
  <2>1. Spot(TopOfMemory(page)) = TopOrigin(page)..(Top - 1)
    BY BlocksOfTheTape
  <2> QED
    BY <1>4, <2>1
<1>8. page.body # <<>> => \A a \in Spot(PictureBlock(page)) : a \in Nat /\ DatabaseEnd <= a
  <2>1. page.body # <<>> => Spot(PictureBlock(page)) \subseteq PageAt..(Top - StubSize - 1)
    BY BlocksOfTheTape
  <2> QED
    BY <1>4, <2>1
<1>9. \A j \in DOMAIN tape : s + 1 <= j => \A a \in Spot(tape[j]) : a \in Nat /\ InterpreterOrigin <= a
  <2>1. \A a \in Nat : DatabaseOrigin <= a \/ DatabaseEnd <= a => InterpreterOrigin <= a
    BY <1>4
  <2>2. \A j \in DOMAIN tape : s + 1 <= j =>
          \/ tape[j] = InterpreterBlock \/ tape[j] = DatabaseBlock \/ tape[j] = TopOfMemory(page)
          \/ tape[j] = PictureBlock(page) /\ page.body # <<>>
    BY <1>1, <1>3
  <2> QED
    BY <1>5, <1>6, <1>7, <1>8, <2>1, <2>2
<1>10. \A j \in DOMAIN tape : s + 2 <= j => \A a \in Spot(tape[j]) : a \in Nat /\ DatabaseOrigin <= a
  <2>1. \A a \in Nat : DatabaseEnd <= a => DatabaseOrigin <= a
    BY <1>4
  <2>2. \A j \in DOMAIN tape : s + 2 <= j =>
          \/ tape[j] = DatabaseBlock \/ tape[j] = TopOfMemory(page)
          \/ tape[j] = PictureBlock(page) /\ page.body # <<>>
    BY <1>1, <1>3
  <2> QED
    BY <1>6, <1>7, <1>8, <2>1, <2>2
<1>11. \A j \in DOMAIN tape : s + 3 <= j => \A a \in Spot(tape[j]) : a \in Nat /\ DatabaseEnd <= a
  <2>1. \A j \in DOMAIN tape : s + 3 <= j =>
          \/ tape[j] = TopOfMemory(page)
          \/ tape[j] = PictureBlock(page) /\ page.body # <<>>
    BY <1>1, <1>3
  <2> QED
    BY <1>7, <1>8, <2>1
<1>12. \A j \in DOMAIN tape : s + 4 <= j => page.body # <<>> /\ tape[j] = PictureBlock(page)
  BY <1>1, <1>3
<1>13. CASE s = 1 /\ k = 1
  <2>1. \A j \in DOMAIN tape : k < j => s + 1 <= j
    BY <1>3, <1>13
  <2> QED
    BY <1>1, <1>9, <1>13, <2>1
<1>14. CASE k = s + 1
  <2>1. \A j \in DOMAIN tape : k < j => s + 2 <= j
    BY <1>3, <1>14
  <2> QED
    BY <1>1, <1>10, <1>14, <2>1
<1>15. CASE k = s + 2
  <2>1. \A j \in DOMAIN tape : k < j => s + 3 <= j
    BY <1>3, <1>15
  <2> QED
    BY <1>1, <1>11, <1>15, <2>1
<1>16. CASE k = s + 3
  <2>1. \A j \in DOMAIN tape : k < j => s + 4 <= j
    BY <1>3, <1>16
  <2> QED
    BY <1>1, <1>12, <1>16, <2>1
<1>17. CASE k = s + 4 /\ page.body # <<>>
  <2>1. \A j \in DOMAIN tape : ~(k < j)
    BY <1>3, <1>17
  <2> QED
    BY <1>1, <1>17, <2>1
<1> QED
  BY <1>3, <1>13, <1>14, <1>15, <1>16, <1>17

\* THE BLOCKS: each keeps what it is to keep.
LEMMA BlocksAreKept ==
  ASSUME PackedOK, NEW page, Fitting(page), NEW k \in DOMAIN tape, NEW i \in KeptOf(tape[k])
  PROVE  Memory[tape[k].at + i - 1] = tape[k].body[i]
<1>1. PICK b \in TapeBlocks : b = tape[k]
  <2>1. tape \in Seq(TapeBlocks)
    BY OrderOfTheTape
  <2> QED
    BY <2>1
<1>2. PICK n \in Nat : n = Len(b.body) /\ DOMAIN b.body = 1..n
  <2>1. b.body \in Seq(Nat)
    BY DEF TapeBlocks
  <2> QED
    BY <2>1, LenProperties
<1>3. /\ i \in 1..n /\ b.at \in Nat
      /\ b.letter = "S" => b.at + i - 1 < InterpreterOrigin
      /\ b.letter = "G" => i > n - StubSize
  BY <1>1, <1>2 DEF KeptOf, TapeBlocks
<1>4. PICK a \in Nat : a = b.at + i - 1
  <2>1. b.at + i - 1 \in Nat
    BY <1>3
  <2> QED
    BY <2>1
<1>5. a \in Spot(b) /\ (a - b.at) + 1 = i
  BY <1>2, <1>3, <1>4 DEF Spot
<1>6. /\ InterpreterOrigin \in Nat /\ DatabaseOrigin \in Nat /\ DatabaseEnd \in Nat
      /\ TopOrigin(page) \in Nat /\ Top \in Nat /\ StubSize \in Nat
      /\ InterpreterOrigin <= DatabaseOrigin /\ DatabaseOrigin <= DatabaseEnd
      /\ DatabaseEnd <= TopOrigin(page) /\ TopOrigin(page) <= Top
  BY BlocksOfTheTape, SpectrumSizes
<1>7. SUFFICES a \in 0..(Top - 1) /\ \A j \in DOMAIN tape : k < j => a \notin Spot(tape[j])
  <2> SUFFICES ASSUME a \in 0..(Top - 1), \A j \in DOMAIN tape : k < j => a \notin Spot(tape[j])
               PROVE  Memory[a] = b.body[i]
    BY <1>1, <1>4
  <2>1. tape \in Seq(TapeBlocks)
    BY OrderOfTheTape
  <2>2. Memory[a] = tape[k].body[a - tape[k].at + 1]
    BY <1>1, <1>5, <2>1, LoadedLast
  <2> QED
    BY <1>1, <1>5, <2>2
<1>8. CASE /\ b = ShownBlock
           /\ \A j \in DOMAIN tape : k < j => \A x \in Spot(tape[j]) : x \in Nat /\ InterpreterOrigin <= x
  <2>1. b.letter = "S"
    BY <1>8 DEF ShownBlock, TapeBlock
  <2>2. a < InterpreterOrigin
    BY <1>3, <1>4, <2>1
  <2> QED
    BY <1>6, <1>8, <2>2
<1>9. CASE /\ b = InterpreterBlock
           /\ \A j \in DOMAIN tape : k < j => \A x \in Spot(tape[j]) : x \in Nat /\ DatabaseOrigin <= x
  <2>1. a < DatabaseOrigin
    <3>1. Spot(InterpreterBlock) \subseteq InterpreterOrigin..(DatabaseOrigin - 1)
      BY BlocksOfTheTape
    <3> QED
      BY <1>5, <1>6, <1>9, <3>1
  <2> QED
    BY <1>6, <1>9, <2>1
<1>10. CASE /\ b = DatabaseBlock
            /\ \A j \in DOMAIN tape : k < j => \A x \in Spot(tape[j]) : x \in Nat /\ DatabaseEnd <= x
  <2>1. a < DatabaseEnd
    <3>1. Spot(DatabaseBlock) \subseteq DatabaseOrigin..(DatabaseEnd - 1)
      BY BlocksOfTheTape
    <3> QED
      BY <1>5, <1>6, <1>10, <3>1
  <2> QED
    BY <1>6, <1>10, <2>1
<1>11. CASE /\ b = TopOfMemory(page)
            /\ \A j \in DOMAIN tape : k < j => page.body # <<>> /\ tape[j] = PictureBlock(page)
  <2>1. b.letter = "G" /\ b.at = TopOrigin(page) /\ b.body = TopBlock(page)
    BY <1>11 DEF TopOfMemory, TapeBlock
  <2>2. TopOrigin(page) = Top - n
    BY <1>2, <2>1, BlocksOfTheTape
  <2>3. a >= Top - StubSize /\ a < Top
    BY <1>3, <1>4, <1>6, <2>1, <2>2
  <2>4. page.body # <<>> => Spot(PictureBlock(page)) \subseteq PageAt..(Top - StubSize - 1)
    BY BlocksOfTheTape
  <2>5. \A x \in PageAt..(Top - StubSize - 1) : ~(x >= Top - StubSize)
    BY <1>6
  <2> QED
    BY <1>6, <1>11, <2>3, <2>4, <2>5
<1>12. CASE /\ b = PictureBlock(page) /\ page.body # <<>>
            /\ \A j \in DOMAIN tape : ~(k < j)
  <2>1. Spot(PictureBlock(page)) \subseteq PageAt..(Top - StubSize - 1)
    BY <1>12, BlocksOfTheTape
  <2>2. a \in PageAt..(Top - StubSize - 1) /\ PageAt \in Nat
    BY <1>5, <1>12, <2>1, BlocksOfTheTape
  <2> QED
    BY <1>6, <1>12, <2>2
<1> QED
  BY <1>1, <1>8, <1>9, <1>10, <1>11, <1>12, LaterLiesAbove

-----------------------------------------------------------------------------
\* What the interpreter finds.
RowSays(ram, n, k) ==
  LET first == Top - StubSize - 1 - 5
  IN  /\ 3 * (k + 1) <= first /\ ram[first - 3 * k] = n
      /\ \A j \in 0..(k - 1) : ram[first - 3 * j] \notin {EndMark, n}

LEMMA RowIsFound ==
  ASSUME NEW ram, NEW n, n # EndMark, NEW k \in Nat, Top - StubSize - 1 - 5 \in Nat, RowSays(ram, n, k)
  PROVE  RowAt(ram, n) = {Top - StubSize - 1 - 5 - 3 * k}
<1>1. PICK first \in Nat : first = Top - StubSize - 1 - 5
  OBVIOUS
<1>2. /\ 3 * (k + 1) <= first /\ ram[first - 3 * k] = n
      /\ \A j \in 0..(k - 1) : ram[first - 3 * j] \notin {EndMark, n}
  BY <1>1 DEF RowSays
<1> DEFINE rows == {x \in 0..(first \div 3 - 1) :
                      ram[first - 3 * x] = n /\ \A j \in 0..(x - 1) : ram[first - 3 * j] \notin {EndMark, n}}
<1>3. k \in 0..(first \div 3 - 1)
  <2>1. first \div 3 \in Nat /\ first < 3 * (first \div 3) + 3
    OBVIOUS
  <2> QED
    BY <1>2, <2>1
<1>4. k \in rows
  BY <1>2, <1>3
<1>5. ASSUME NEW x \in rows
      PROVE  x = k
  <2>1. x \in Nat /\ ram[first - 3 * x] = n /\ \A j \in 0..(x - 1) : ram[first - 3 * j] \notin {EndMark, n}
    OBVIOUS
  <2>2. CASE x < k
    <3>1. x \in 0..(k - 1)
      BY <2>1, <2>2
    <3> QED
      BY <1>2, <2>1, <3>1
  <2>3. CASE k < x
    <3>1. k \in 0..(x - 1)
      BY <2>1, <2>3
    <3> QED
      BY <1>2, <2>1, <3>1
  <2> QED
    BY <2>1, <2>2, <2>3
<1>6. rows = {k}
  <2> HIDE DEF rows
  <2> QED
    BY <1>4, <1>5
<1>7. RowAt(ram, n) = IF n = EndMark \/ rows = {} THEN {} ELSE {first - 3 * (CHOOSE x \in rows : TRUE)}
  BY <1>1 DEF RowAt
<1>8. (CHOOSE x \in rows : TRUE) = k
  BY <1>6
<1> QED
  BY <1>1, <1>6, <1>7, <1>8

LEMMA NotPast ==
  ASSUME NEW a \in Nat, NEW b \in Nat, a < b
  PROVE  a % b = a
OBVIOUS

LEMMA PictureIsDrawn ==
  ASSUME PackedOK, NEW n \in DOMAIN packed.images, packed.images[n] # Empty,
         NEW ram, NEW row, RowAt(ram, n) = {row},
         NEW start \in Nat, start = 256 * ram[row - 1] + ram[row - 2],
         start + Len(PackedPicture(n)) <= Top,
         \A i \in 1..Len(PackedPicture(n)) : ram[start + i - 1] = PackedPicture(n)[i]
  PROVE  Shows(ram, n)
<1> DEFINE At(a) == ram[a % Top]
           Word16(a) == At(a) + 256 * At(a + 1)
<1>1. PICK size \in Nat : size = packed.images[n]
  BY PackedPictureIs
<1>2. PICK p : p = PackedPicture(n)
  OBVIOUS
<1>3. /\ Len(p) = size + 6
      /\ p[1] = (ScreenBase + 1) % 256 /\ p[2] = (ScreenBase + 1) \div 256
      /\ p[3] = size % 256 /\ p[4] = size \div 256
      /\ \A i \in 1..size : p[4 + i] = n
  <2>1. /\ Len(PackedPicture(n)) = packed.images[n] + 6
        /\ PackedPicture(n)[1] = (ScreenBase + 1) % 256
        /\ PackedPicture(n)[2] = (ScreenBase + 1) \div 256
        /\ PackedPicture(n)[3] = packed.images[n] % 256
        /\ PackedPicture(n)[4] = packed.images[n] \div 256
        /\ \A i \in 1..packed.images[n] : PackedPicture(n)[4 + i] = n
    BY PackedPictureIs
  <2>2. /\ Len(p) = size + 6
        /\ p[1] = (ScreenBase + 1) % 256 /\ p[2] = (ScreenBase + 1) \div 256
        /\ p[3] = packed.images[n] % 256 /\ p[4] = packed.images[n] \div 256
    BY <1>1, <1>2, <2>1
  <2>3. \A i \in 1..size : p[4 + i] = n
    BY <1>1, <1>2, <2>1
  <2> QED
    BY <1>1, <2>2, <2>3
<1>4. Top \in Nat /\ ScreenBase + 1 \in Nat
  BY SpectrumSizes
<1>5. ASSUME NEW i \in 1..(size + 6)
      PROVE  At(start + (i - 1)) = p[i]
  <2>1. start + (i - 1) \in Nat /\ start + (i - 1) < Top
    <3>1. start + (size + 6) <= Top
      BY <1>2, <1>3
    <3> QED
      BY <1>4, <3>1
  <2>2. (start + (i - 1)) % Top = start + (i - 1)
    BY <1>4, <2>1, NotPast
  <2>3. i \in 1..Len(PackedPicture(n)) /\ start + i - 1 = start + (i - 1)
    BY <1>2, <1>3
  <2>4. ram[start + i - 1] = p[i]
    BY <1>2, <2>3
  <2> QED
    BY <2>2, <2>3, <2>4
<1> HIDE DEF At
<1>6. At(start) = p[1] /\ At(start + 1) = p[2] /\ At(start + 2) = p[3] /\ At(start + 3) = p[4]
  <2>1. 1 \in 1..(size + 6) /\ 2 \in 1..(size + 6) /\ 3 \in 1..(size + 6) /\ 4 \in 1..(size + 6)
    OBVIOUS
  <2>2. start + (1 - 1) = start /\ start + (2 - 1) = start + 1 /\ start + (3 - 1) = start + 2
        /\ start + (4 - 1) = start + 3
    OBVIOUS
  <2>3. /\ At(start + (1 - 1)) = p[1] /\ At(start + (2 - 1)) = p[2]
        /\ At(start + (3 - 1)) = p[3] /\ At(start + (4 - 1)) = p[4]
    BY <1>5, <2>1
  <2> QED
    BY <2>2, <2>3
<1>7. Word16(start) = ScreenBase + 1
  <2>1. PICK to \in Nat : to = ScreenBase + 1
    BY <1>4
  <2>2. (to % 256) + 256 * (to \div 256) = to
    BY WordSays
  <2> QED
    BY <1>3, <1>6, <2>1, <2>2
<1>8. Word16(start + 2) = size
  <2>1. (size % 256) + 256 * (size \div 256) = size
    BY WordSays
  <2>2. (start + 2) + 1 = start + 3
    OBVIOUS
  <2>3. At(start + 2) = size % 256 /\ At((start + 2) + 1) = size \div 256
    BY <1>3, <1>6, <2>2
  <2>4. At(start + 2) + 256 * At((start + 2) + 1) = (size % 256) + 256 * (size \div 256)
    BY <2>3
  <2> QED
    BY <2>1, <2>4
<1>9. \A i \in 1..size : At(start + 3 + i) = n
  <2>1. ASSUME NEW i \in 1..size
        PROVE  At(start + 3 + i) = n
    <3>1. 4 + i \in 1..(size + 6) /\ start + ((4 + i) - 1) = start + 3 + i
      OBVIOUS
    <3>2. At(start + ((4 + i) - 1)) = p[4 + i]
      BY <1>5, <3>1
    <3> QED
      BY <1>3, <3>1, <3>2
  <2> QED
    BY <2>1
<1>10. [i \in 1..Word16(start + 2) |-> At(start + 3 + i)] = Bytes(n, size)
  <2> HIDE DEF Word16
  <2> QED
    BY <1>8, <1>9 DEF Bytes
<1>11. Drawn(ram, n) =
         {[at |-> Word16(x), body |-> [i \in 1..Word16(x + 2) |-> At(x + 3 + i)]] :
            x \in {256 * ram[y - 1] + ram[y - 2] : y \in RowAt(ram, n)}}
  BY DEF Drawn, At
<1>12. {256 * ram[y - 1] + ram[y - 2] : y \in RowAt(ram, n)} = {start}
  OBVIOUS
<1>13. Drawn(ram, n) = {[at |-> Word16(start), body |-> [i \in 1..Word16(start + 2) |-> At(start + 3 + i)]]}
  <2> HIDE DEF Word16
  <2> QED
    BY <1>11, <1>12
<1> QED
  <2> HIDE DEF Word16
  <2> QED
    BY <1>1, <1>7, <1>10, <1>13 DEF Shows

\* Where the pictures stop short of the index, they and it are as they were made.
LEMMA NothingLoadsOver ==
  ASSUME PackedOK, NEW page, Fitting(page), page.body # <<>>, PageEndsBelowTheIndex
  PROVE  /\ \A i \in 1..Len(page.body) : Memory[PageAt + i - 1] = page.body[i]
         /\ \A i \in 1..Len(TopBlock(page)) : Memory[TopOrigin(page) + i - 1] = TopBlock(page)[i]
<1>1. PICK s \in {0, 1} :
        /\ Len(tape) = s + 4
        /\ tape[s + 3] = TopOfMemory(page) /\ tape[s + 4] = PictureBlock(page)
  BY OrderOfTheTape
<1>2. tape \in Seq(TapeBlocks) /\ DOMAIN tape = 1..(s + 4)
  BY <1>1, OrderOfTheTape
<1>3. s + 3 \in DOMAIN tape /\ s + 4 \in DOMAIN tape
  BY <1>2
<1>4. /\ PictureBlock(page) = [letter |-> "P", at |-> PageAt, body |-> page.body]
      /\ TopOfMemory(page) = [letter |-> "G", at |-> TopOrigin(page), body |-> TopBlock(page)]
  BY DEF PictureBlock, TopOfMemory, TapeBlock
<1>5. page.body \in Seq(Nat) /\ Len(page.body) \in Nat /\ PageAt \in Nat
  BY Addresses, LenProperties DEF Fitting, LaidOut, Pages
<1>6. ASSUME NEW i \in 1..Len(page.body)
      PROVE  Memory[PageAt + i - 1] = page.body[i]
  <2>1. i \in KeptOf(tape[s + 4])
    BY <1>1, <1>4, <1>5 DEF KeptOf
  <2>2. Memory[tape[s + 4].at + i - 1] = tape[s + 4].body[i]
    BY <1>3, <2>1, BlocksAreKept
  <2> QED
    BY <1>1, <1>4, <2>2
<1>7. PageAt + Len(page.body) <= TopOrigin(page)
  <2>1. PictureBlock(page) \in LettersBlocks("P") /\ TopOfMemory(page) \in LettersBlocks("G")
    BY <1>1, <1>3, <1>4 DEF LettersBlocks, Range
  <2>2. PictureBlock(page).at + Len(PictureBlock(page).body) <= TopOfMemory(page).at
    BY <2>1 DEF PageEndsBelowTheIndex
  <2> QED
    BY <1>4, <2>2
<1>8. ASSUME NEW i \in 1..Len(TopBlock(page))
      PROVE  Memory[TopOrigin(page) + i - 1] = TopBlock(page)[i]
  <2>1. PICK n \in Nat : n = Len(TopBlock(page)) /\ TopOrigin(page) = Top - n
    BY BlocksOfTheTape
  <2>2. TopOrigin(page) \in Nat /\ Top \in Nat
    BY BlocksOfTheTape
  <2>3. PICK top \in Nat : top = TopOrigin(page)
    BY <2>2
  <2>4. PICK a \in Nat : a = top + i - 1
    <3>1. top + i - 1 \in Nat
      BY <2>1
    <3> QED
      BY <3>1
  <2>5. a \in 0..(Top - 1) /\ a >= top /\ (a - top) + 1 = i
    <3>1. i \in 1..n /\ top = Top - n
      BY <2>1, <2>3
    <3> QED
      BY <2>2, <2>4, <3>1
  <2>6. a \in Spot(tape[s + 3])
    <3>1. Spot(tape[s + 3]) = top..(Top - 1)
      BY <1>1, <2>3, BlocksOfTheTape
    <3> QED
      BY <2>2, <2>5, <3>1
  <2>7. \A j \in DOMAIN tape : s + 3 < j => a \notin Spot(tape[j])
    <3>1. \A j \in DOMAIN tape : s + 3 < j => j = s + 4
      BY <1>2
    <3>2. Spot(tape[s + 4]) = PageAt..(PageAt + Len(page.body) - 1)
      BY <1>1, <1>4 DEF Spot
    <3>3. a \notin PageAt..(PageAt + Len(page.body) - 1)
      BY <1>5, <1>7, <2>3, <2>5
    <3> QED
      BY <3>1, <3>2, <3>3
  <2>8. Memory[a] = tape[s + 3].body[a - tape[s + 3].at + 1]
    BY <1>2, <1>3, <2>5, <2>6, <2>7, LoadedLast
  <2>9. tape[s + 3].at = top /\ tape[s + 3].body = TopBlock(page)
    BY <1>1, <1>4, <2>3
  <2> QED
    BY <2>3, <2>4, <2>5, <2>8, <2>9
<1> QED
  BY <1>6, <1>8

\* THE PICTURES: each is found and drawn.
LEMMA PicturesAreShown ==
  ASSUME PackedOK, NEW page, Fitting(page), PageEndsBelowTheIndex, NEW n \in Carried \ {EndMark}
  PROVE  Shows(Memory, n)
<1>1. LaidOut(page, DOMAIN packed.images) /\ PicturesWhole /\ n \in DOMAIN packed.images \ page.out
  BY DEF Fitting, Carried
<1>2. /\ n \in 0..EndMark /\ n # EndMark /\ n \in Nat /\ packed.images[n] # Empty
      /\ PackedPicture(n) \in Seq(Nat) /\ Len(PackedPicture(n)) = packed.images[n] + 6
      /\ packed.images[n] \in Nat
  BY <1>1, PackedPictureIs, Marks DEF PicturesWhole
<1>3. /\ page.body \in Seq(Nat) /\ page.rows \in Seq(Seq(Nat))
      /\ PageAt \in Nat /\ Top \in Nat /\ StubSize \in Nat
  BY <1>1, BlocksOfTheTape, SpectrumSizes DEF LaidOut, Pages
<1>4. PICK m \in Nat : m = Len(page.rows) /\ DOMAIN page.rows = 1..m
  BY <1>3, LenProperties
<1>5. PICK place \in 1..m : page.rows[place][1] = n
  BY <1>1, <1>4 DEF LaidOut
<1>6. \A q \in 1..m : \E d \in DOMAIN packed.images, at \in Nat :
         page.rows[q] = RowFor(d, at) /\ LiesAt(page, d, at)
  BY <1>1, <1>4 DEF LaidOut
<1>7. PICK offset \in Nat : page.rows[place] = RowFor(n, offset) /\ LiesAt(page, n, offset)
  <2>1. PICK d \in DOMAIN packed.images, at \in Nat : page.rows[place] = RowFor(d, at) /\ LiesAt(page, d, at)
    BY <1>6
  <2>2. d = n
    BY <1>5, <2>1 DEF RowFor
  <2> QED
    BY <2>1, <2>2
<1>8. PICK size \in Nat : size = Len(PackedPicture(n)) /\ size > 0
  BY <1>2
<1>9. /\ offset + size <= Len(page.body) /\ Len(page.body) \in Nat
      /\ \A i \in 1..size : page.body[offset + i] = PackedPicture(n)[i]
  BY <1>3, <1>7, <1>8, LenProperties DEF LiesAt
<1>10. page.body # <<>>
  BY <1>8, <1>9
<1>11. /\ \A i \in 1..Len(page.body) : Memory[PageAt + i - 1] = page.body[i]
       /\ \A i \in 1..Len(TopBlock(page)) : Memory[TopOrigin(page) + i - 1] = TopBlock(page)[i]
  BY <1>10, NothingLoadsOver
<1>12. PICK first : first = Top - StubSize - 1 - 5
  OBVIOUS
<1>13. /\ Len(TopBlock(page)) = 3 * m + 6 + StubSize
       /\ \A r \in 1..m : \A c \in 1..3 : TopBlock(page)[3 * (m - r) + 5 - c] = page.rows[r][c]
  <2>1. Len(TopBlock(page)) = 3 * m + 6 + StubSize /\ RowsAtTheTop(page, m)
    BY <1>1, <1>4, TopBlockIs
  <2> QED
    BY <2>1 DEF RowsAtTheTop
<1>14. PICK top \in Nat : top = TopOrigin(page) /\ top = Top - (3 * m + 6 + StubSize)
  BY <1>13, BlocksOfTheTape
<1>15. first \in Nat /\ 3 * m <= first
  BY <1>3, <1>12, <1>14
<1>16. ASSUME NEW q \in 1..m, NEW c \in 1..3
       PROVE  Memory[first - 3 * (q - 1) - (c - 1)] = page.rows[q][c]
  <2>1. PICK i \in 1..(3 * m + 6 + StubSize) : i = 3 * (m - q) + 5 - c
    <3>1. 3 * (m - q) + 5 - c \in 1..(3 * m + 6 + StubSize)
      BY <1>3
    <3> QED
      BY <3>1
  <2>2. first - 3 * (q - 1) - (c - 1) = top + i - 1
    BY <1>3, <1>12, <1>14, <2>1
  <2>3. Memory[top + i - 1] = TopBlock(page)[i]
    BY <1>11, <1>13, <1>14, <2>1
  <2> QED
    BY <1>13, <2>1, <2>2, <2>3
<1>17. PICK k \in Nat : k + 1 = place
  <2>1. place - 1 \in Nat /\ (place - 1) + 1 = place
    OBVIOUS
  <2> QED
    BY <2>1
<1>18. \A q \in 1..m : Memory[first - 3 * (q - 1)] = page.rows[q][1]
  <2>1. ASSUME NEW q \in 1..m
        PROVE  Memory[first - 3 * (q - 1)] = page.rows[q][1]
    <3>1. Memory[first - 3 * (q - 1) - (1 - 1)] = page.rows[q][1]
      BY <1>16
    <3>2. first - 3 * (q - 1) - (1 - 1) = first - 3 * (q - 1)
      BY <1>15
    <3> QED
      BY <3>1, <3>2
  <2> QED
    BY <2>1
<1>19. RowAt(Memory, n) = {first - 3 * k}
  <2>1. Memory[first - 3 * k] = n
    BY <1>5, <1>17, <1>18
  <2>2. \A j \in 0..(k - 1) : Memory[first - 3 * j] \notin {EndMark, n}
    <3>1. ASSUME NEW j \in 0..(k - 1)
          PROVE  Memory[first - 3 * j] \notin {EndMark, n}
      <4>0. EndMark \in Nat
        BY DEF EndMark
      <4>1. j + 1 \in 1..m /\ j + 1 < place /\ (j + 1) - 1 = j
        BY <1>17
      <4>2. Memory[first - 3 * j] = page.rows[j + 1][1]
        BY <1>18, <4>1
      <4>3. page.rows[j + 1][1] < n
        BY <1>1, <1>4, <1>5, <4>1 DEF LaidOut
      <4>4. page.rows[j + 1][1] \in 0..EndMark
        <5>1. PICK d \in DOMAIN packed.images, at \in Nat : page.rows[j + 1] = RowFor(d, at)
          BY <1>6, <4>1
        <5>2. d \in 0..EndMark
          BY NumbersAreBytes
        <5>3. page.rows[j + 1][1] = d
          BY <5>1 DEF RowFor
        <5> QED
          BY <5>2, <5>3
      <4>5. PICK x \in 0..EndMark : x = page.rows[j + 1][1] /\ x < n
        BY <4>3, <4>4
      <4>6. x # EndMark /\ x # n
        BY <1>2, <4>0, <4>5
      <4> QED
        BY <4>2, <4>5, <4>6
    <3> QED
      BY <3>1
  <2>3. 3 * (k + 1) <= first
    BY <1>15, <1>17
  <2> DEFINE ram == Memory
  <2>4. RowSays(ram, n, k)
    BY <1>12, <2>1, <2>2, <2>3 DEF RowSays
  <2> HIDE DEF ram
  <2>5. RowAt(ram, n) = {Top - StubSize - 1 - 5 - 3 * k}
    BY <1>2, <1>12, <1>15, <2>4, RowIsFound
  <2> QED
    BY <1>12, <2>5 DEF ram
<1>20. PICK row : row = first - 3 * k
  OBVIOUS
<1>21. PICK start \in Nat : start = PageAt + offset
  BY <1>3
<1>22. start = 256 * Memory[row - 1] + Memory[row - 2]
  <2>1. 256 * page.rows[place][2] + page.rows[place][3] = start
    BY <1>2, <1>7, <1>21, RowIs
  <2>2. Memory[first - 3 * (place - 1) - (2 - 1)] = page.rows[place][2]
        /\ Memory[first - 3 * (place - 1) - (3 - 1)] = page.rows[place][3]
    BY <1>16
  <2>3. first - 3 * (place - 1) - (2 - 1) = row - 1 /\ first - 3 * (place - 1) - (3 - 1) = row - 2
    BY <1>15, <1>17, <1>20
  <2> QED
    BY <2>1, <2>2, <2>3
<1>23. start + size <= Top
  <2>1. PageAt + Len(page.body) + IndexEntry + IndexFixed + StubSize <= Top
    BY <1>1, <1>10 DEF LaidOut
  <2> QED
    BY <1>3, <1>9, <1>21, <2>1 DEF IndexEntry, IndexFixed
<1>24. \A i \in 1..size : Memory[start + i - 1] = PackedPicture(n)[i]
  <2>1. ASSUME NEW i \in 1..size
        PROVE  Memory[start + i - 1] = PackedPicture(n)[i]
    <3>1. offset + i \in 1..Len(page.body) /\ PageAt + (offset + i) - 1 = start + i - 1
      <4>1. PICK most \in Nat : most = Len(page.body) /\ offset + size <= most
        BY <1>9
      <4>2. PICK at \in Nat : at = PageAt
        BY <1>3
      <4>3. offset + i \in 1..most /\ at + (offset + i) - 1 = (at + offset) + i - 1
        BY <4>1
      <4> QED
        BY <1>21, <4>1, <4>2, <4>3
    <3>2. Memory[PageAt + (offset + i) - 1] = page.body[offset + i]
      BY <1>11, <3>1
    <3> QED
      BY <1>9, <3>1, <3>2
  <2> QED
    BY <2>1
<1> QED
  <2> DEFINE ram == Memory
  <2>1. /\ RowAt(ram, n) = {row} /\ start = 256 * ram[row - 1] + ram[row - 2]
        /\ start + Len(PackedPicture(n)) <= Top
        /\ \A i \in 1..Len(PackedPicture(n)) : ram[start + i - 1] = PackedPicture(n)[i]
    BY <1>8, <1>19, <1>20, <1>22, <1>23, <1>24
  <2> HIDE DEF ram
  <2>2. Shows(ram, n)
    <3>1. n \in DOMAIN packed.images /\ packed.images[n] # Empty
      BY <1>1, <1>2
    <3> QED
      BY <2>1, <3>1, PictureIsDrawn
  <2> QED
    BY <2>2 DEF ram

\* What was content with is what loads whole.
LEMMA FittingLoadsWhole ==
  ASSUME PackedOK, NEW page, Fitting(page)
  PROVE  TapeLoadsWhole
<1>1. ASSUME NEW b \in Range(tape), NEW i \in KeptOf(b)
      PROVE  Memory[b.at + i - 1] = b.body[i]
  <2>1. PICK k \in DOMAIN tape : tape[k] = b
    BY DEF Range
  <2>2. i \in KeptOf(tape[k])
    BY <1>1, <2>1
  <2>3. Memory[tape[k].at + i - 1] = tape[k].body[i]
    BY <2>2, BlocksAreKept
  <2> QED
    BY <2>1, <2>3
<1>2. ASSUME PageEndsBelowTheIndex, NEW n \in Carried \ {EndMark}
      PROVE  Shows(Memory, n)
  BY <1>2, PicturesAreShown
<1> QED
  BY <1>1, <1>2 DEF TapeLoadsWhole

-----------------------------------------------------------------------------
\* What the directory holds is of some size, if it is there.
SizesStored ==
  /\ \A f \in {"database", "loading"} : files[f] \in Nat \cup {Empty, Absent}
  /\ \A n \in Numbers : pictures[n] \in Nat \cup {Empty, Absent}

LEMMA SizesOfTheBuild ==
  ASSUME FolderOK
  PROVE  /\ \A f \in {"database", "loading"} : Replaced(f) \in Nat \cup {Empty, Absent}
         /\ \A n \in DOMAIN build.images : build.images[n] \in Nat \cup {Empty}
<1>1. build \in Builds
  BY DEF FolderOK, FolderTypeOK
<1>2. /\ {build.database, build.loading} \subseteq Nat \cup {Empty}
      /\ \A n \in DOMAIN build.images : build.images[n] \in Nat \cup {Empty}
  BY <1>1, PackagerAssumption
<1> QED
  BY <1>2 DEF Replaced

LEMMA SizesStep ==
  ASSUME FolderOK, SizesStored, [FolderNext]_folderVars
  PROVE  SizesStored'
<1>1. CASE UNCHANGED <<files, pictures>>
  BY <1>1 DEF SizesStored
<1>2. CASE WriteFile
  <2>1. files = [f \in Files |-> files[f]]
    BY DEF FolderOK, Functions
  <2>2. ASSUME NEW f \in {"database", "loading"}
        PROVE  files'[f] \in Nat \cup {Empty, Absent}
    <3>1. f \in Files
      BY DEF Files
    <3>2. files'[f] = IF f = writing THEN Replaced(f) ELSE files[f]
      BY <1>2, <2>1, <3>1 DEF WriteFile
    <3> QED
      BY <3>2, SizesOfTheBuild DEF SizesStored
  <2> QED
    BY <1>2, <2>2 DEF WriteFile, SizesStored
<1>3. CASE ClearPictures
  BY <1>3 DEF ClearPictures, SizesStored
<1>4. ASSUME NEW m \in Numbers, WritePicture(m)
      PROVE  SizesStored'
  <2>1. pictures = [n \in Numbers |-> pictures[n]]
    BY DEF FolderOK, Functions
  <2>2. m \in DOMAIN build.images
    BY <1>4 DEF WritePicture, FolderOK
  <2>3. \A n \in Numbers : pictures'[n] = IF n = m THEN build.images[m] ELSE pictures[n]
    BY <1>4, <2>1 DEF WritePicture
  <2>4. build.images[m] \in Nat \cup {Empty}
    BY <2>2, SizesOfTheBuild
  <2> QED
    BY <1>4, <2>3, <2>4 DEF WritePicture, SizesStored
<1>5. CASE StopWriting
  <2>1. /\ files = [f \in Files |-> files[f]]
        /\ pictures = [n \in Numbers |-> pictures[n]]
    BY DEF FolderOK, Functions
  <2>2. \A f \in Files : files'[f] \in {files[f], Empty}
    BY <1>5, <2>1 DEF StopWriting
  <2>3. \A n \in Numbers : pictures'[n] \in {pictures[n], Empty, Absent}
    BY <1>5, <2>1 DEF StopWriting
  <2> QED
    BY <2>2, <2>3 DEF SizesStored, Files
<1> QED
  BY <1>1, <1>2, <1>3, <1>4, <1>5 DEF FolderNext, Begin, FinishWriting, folderVars

\* The invariant of a release: what was read is a build of known sizes, and a tape
\* is there only once it is done, as ZX48 made it.
ReleaseOK ==
  /\ FolderOK
  /\ SizesStored
  /\ PackedOK
  /\ tape # <<>> => packing = "done" /\ \E page : Fitting(page)

LEMMA ReleaseStarts ==
  ASSUME FolderInit, PackagerInit
  PROVE  ReleaseOK
<1>1. FolderOK
  BY FolderStart
<1>2. SizesStored
  BY DEF FolderInit, SizesStored, Files
<1>3. PackedOK
  <2>1. packed \in Builds
    BY DEF PackagerInit
  <2>2. /\ {packed.database, packed.loading} \subseteq Nat \cup {Empty}
        /\ \A n \in DOMAIN packed.images : packed.images[n] \in Nat \cup {Empty}
    BY <2>1, PackagerAssumption
  <2>3. /\ DOMAIN packed.images \subseteq Numbers
        /\ packed.images = [n \in DOMAIN packed.images |-> packed.images[n]]
    BY <2>1, BuildFolderAssumption
  <2> QED
    BY <2>2, <2>3 DEF PackedOK
<1> QED
  BY <1>1, <1>2, <1>3 DEF ReleaseOK, PackagerInit

\* What is read of the directory is a build of known sizes.
LEMMA ReadIsPacked ==
  ASSUME SizesStored, Readable, packed' = Read
  PROVE  PackedOK'
<1>1. /\ Read.database = files.database
      /\ Read.loading = OrEmpty(files.loading)
      /\ DOMAIN Read.images = {m \in Numbers : pictures[m] # Absent}
      /\ \A n \in DOMAIN Read.images : Read.images[n] = pictures[n]
  BY DEF Read
<1>2. /\ files.database \in Nat \cup {Empty, Absent} /\ files.database # Absent
      /\ files.loading \in Nat \cup {Empty, Absent}
      /\ \A n \in Numbers : pictures[n] \in Nat \cup {Empty, Absent}
  BY DEF SizesStored, Readable
<1>3. {Read.database, Read.loading} \subseteq Nat \cup {Empty}
  BY <1>1, <1>2 DEF OrEmpty
<1>4. \A n \in DOMAIN Read.images : n \in Numbers /\ Read.images[n] \in Nat \cup {Empty}
  BY <1>1, <1>2
<1>5. Read.images = [n \in DOMAIN Read.images |-> Read.images[n]]
  BY DEF Read
<1> QED
  BY <1>3, <1>4, <1>5 DEF PackedOK

\* What is made of a build depends on nothing else.
LEMMA MadeOfTheBuild ==
  ASSUME NEW page, packed' = packed
  PROVE  /\ LaidOut(page, DOMAIN packed.images) => LaidOut(page, DOMAIN packed.images)'
         /\ PicturesWhole /\ BlocksFit("48k", page) => (PicturesWhole /\ BlocksFit("48k", page))'
         /\ TapeOf(page)' = TapeOf(page)
<1>1. PageAt' = PageAt /\ DatabaseEnd' = DatabaseEnd
  BY DEF PageAt, DatabaseEnd
<1>2. ASSUME NEW n
      PROVE  PackedPicture(n)' = PackedPicture(n)
  BY DEF PackedPicture
<1>3. ASSUME NEW n, NEW offset
      PROVE  RowFor(n, offset)' = RowFor(n, offset) /\ LiesAt(page, n, offset)' = LiesAt(page, n, offset)
  BY <1>1, <1>2 DEF RowFor, LiesAt
<1>4. LaidOut(page, DOMAIN packed.images) => LaidOut(page, DOMAIN packed.images)'
  BY <1>1, <1>3 DEF LaidOut
<1>5. Index(page)' = Index(page)
  BY <1>1 DEF Index
<1>6. TopBlock(page)' = TopBlock(page)
  BY <1>5 DEF TopBlock
<1>7. TopOrigin(page)' = TopOrigin(page)
  BY <1>6 DEF TopOrigin
<1>8. TapeOf(page)' = TapeOf(page)
  BY <1>1, <1>6, <1>7 DEF TapeOf
<1>9. PicturesWhole /\ BlocksFit("48k", page) => (PicturesWhole /\ BlocksFit("48k", page))'
  BY <1>1, <1>7 DEF PicturesWhole, BlocksFit, FontFits
<1> QED
  BY <1>4, <1>8, <1>9

\* The directory is left alone, and so are what was packed and the tape.
LEMMA FolderStands ==
  ASSUME ReleaseOK, UNCHANGED folderVars
  PROVE  FolderOK' /\ SizesStored'
<1>1. FolderOK'
  BY FolderStep DEF ReleaseOK
<1>2. SizesStored'
  BY SizesStep DEF ReleaseOK
<1> QED
  BY <1>1, <1>2

LEMMA PackingStands ==
  ASSUME ReleaseOK, UNCHANGED packagerVars
  PROVE  /\ PackedOK'
         /\ (tape # <<>> => packing = "done" /\ \E page : Fitting(page))'
<1>1. packed' = packed /\ tape' = tape /\ packing' = packing
  BY DEF packagerVars
<1>2. PackedOK'
  BY <1>1 DEF ReleaseOK, PackedOK
<1>3. ASSUME tape # <<>>
      PROVE  \E page : Fitting(page)'
  <2>1. PICK page : Fitting(page)
    BY <1>3 DEF ReleaseOK
  <2>2. Fitting(page)'
    BY <1>1, <2>1, MadeOfTheBuild DEF Fitting, packagerVars
  <2> QED
    BY <2>2
<1> QED
  BY <1>1, <1>2, <1>3 DEF ReleaseOK

\* A step of the packer that makes no tape is taken while there is none.
LEMMA NoTapeYet ==
  ASSUME ReleaseOK, UNCHANGED folderVars, packing # "done", tape' = tape, PackedOK'
  PROVE  ReleaseOK'
<1>1. tape = <<>>
  BY DEF ReleaseOK
<1> QED
  BY <1>1, FolderStands DEF ReleaseOK

LEMMA AssembleTapeKeeps ==
  ASSUME ReleaseOK, UNCHANGED folderVars, AssembleTape
  PROVE  ReleaseOK'
<1>1. packed' = packed
  BY DEF AssembleTape, Fail
<1>2. PackedOK'
  BY <1>1 DEF ReleaseOK, PackedOK
<1>3. PICK page : page = Page(DOMAIN packed.images)
  OBVIOUS
<1>4. CASE PicturesWhole /\ BlocksFit("48k", page) /\ TapeHolds(page)
  <2>1. LaidOut(page, DOMAIN packed.images)
    BY <1>3, <1>4, PageIsLaid DEF ReleaseOK
  <2>2. tape' = TapeOf(page) /\ dropped' = page.out /\ packing' = "done"
    BY <1>3, <1>4 DEF AssembleTape
  <2>3. Fitting(page)'
    <3>1. LaidOut(page, DOMAIN packed.images)' /\ (PicturesWhole /\ BlocksFit("48k", page))'
          /\ TapeOf(page)' = TapeOf(page)
      BY <1>1, <1>4, <2>1, MadeOfTheBuild
    <3> QED
      BY <2>2, <3>1 DEF Fitting
  <2> QED
    BY <1>2, <2>2, <2>3, FolderStands DEF ReleaseOK
<1>5. CASE ~(PicturesWhole /\ BlocksFit("48k", page) /\ TapeHolds(page))
  <2>1. tape' = tape /\ packing # "done"
    BY <1>3, <1>5 DEF AssembleTape, Fail
  <2> QED
    BY <1>2, <2>1, NoTapeYet
<1> QED
  BY <1>4, <1>5

LEMMA ReleaseStep ==
  ASSUME ReleaseOK, [ReleaseNext]_<<folderVars, packagerVars, disketteVars>>
  PROVE  ReleaseOK'
<1>1. CASE UNCHANGED <<folderVars, packagerVars, disketteVars>>
  BY <1>1, FolderStands, PackingStands DEF ReleaseOK
<1>2. CASE FolderNext /\ UNCHANGED packagerVars
  <2>1. FolderOK' /\ SizesStored'
    BY <1>2, FolderStep, SizesStep DEF ReleaseOK
  <2> QED
    BY <1>2, <2>1, PackingStands DEF ReleaseOK
<1>3. CASE ReadBuild /\ UNCHANGED folderVars
  <2>1. packing # "done" /\ tape' = tape
    BY <1>3 DEF ReadBuild
  <2>2. CASE Readable
    <3>1. packed' = Read
      BY <1>3, <2>2 DEF ReadBuild
    <3>2. PackedOK'
      BY <2>2, <3>1, ReadIsPacked DEF ReleaseOK
    <3> QED
      BY <1>3, <2>1, <3>2, NoTapeYet
  <2>3. CASE ~Readable
    <3>1. packed' = packed
      BY <1>3, <2>3 DEF ReadBuild
    <3>2. PackedOK'
      BY <3>1 DEF ReleaseOK, PackedOK
    <3> QED
      BY <1>3, <2>1, <3>2, NoTapeYet
  <2> QED
    BY <2>2, <2>3
<1>4. CASE AssembleTape /\ UNCHANGED folderVars
  BY <1>4, AssembleTapeKeeps
<1>5. CASE (AssembleFiles \/ DropPicture \/ FinishDisk) /\ UNCHANGED folderVars
  <2>1. packing # "done" /\ tape' = tape /\ packed' = packed
    BY <1>5 DEF AssembleFiles, DropPicture, FinishDisk, Fail
  <2>2. PackedOK'
    BY <2>1 DEF ReleaseOK, PackedOK
  <2> QED
    BY <1>5, <2>1, <2>2, NoTapeYet
<1>6. CASE (PutNext \/ WearDisk) /\ UNCHANGED folderVars
  <2>1. UNCHANGED packagerVars
    BY <1>6 DEF PutNext, WearDisk
  <2> QED
    BY <1>6, <2>1, FolderStands, PackingStands DEF ReleaseOK
<1> QED
  BY <1>1, <1>2, <1>3, <1>4, <1>5, <1>6 DEF ReleaseNext, PackagerNext

\* A TAPE THAT WAS MADE LOADS WHOLE: whatever the build, and whatever became of its
\* directory, once every block has loaded each still holds what it is to keep, and
\* every picture that was not left out is found through the index and drawn, where
\* the page stops short of it (zx48.go, zximages.go).
THEOREM TapesLoadWhole == ReleaseSpec => []TapeLoadsWhole
<1>1. FolderInit /\ PackagerInit => ReleaseOK
  BY ReleaseStarts
<1>2. ReleaseOK /\ [ReleaseNext]_<<folderVars, packagerVars, disketteVars>> => ReleaseOK'
  BY ReleaseStep
<1>3. ReleaseOK => TapeLoadsWhole
  <2>1. CASE tape = <<>>
    BY <2>1 DEF TapeLoadsWhole
  <2>2. ASSUME ReleaseOK, tape # <<>>
        PROVE  TapeLoadsWhole
    BY <2>2, FittingLoadsWhole DEF ReleaseOK
  <2> QED
    BY <2>1, <2>2
<1> QED
  BY <1>1, <1>2, <1>3, PTL DEF ReleaseSpec

-----------------------------------------------------------------------------
\* WHAT IS READ OF A DISK

\* Positions in the order of their keys: what lists them so is the order.
Precedes(key, x, y) == key[x] < key[y] \/ (key[x] = key[y] /\ x < y)

ListsByKey(e, n, S, key) ==
  /\ e \in [1..n -> S]
  /\ \A x \in S : \E i \in 1..n : e[i] = x
  /\ \A i, j \in 1..n : i < j => Precedes(key, e[i], e[j])

LEMMA OrderedIs ==
  ASSUME NEW n \in Nat, NEW S \in SUBSET Int, NEW key \in [S -> Int], NEW e,
         ListsByKey(e, n, S, key)
  PROVE  Ordered(S, key) = e
<1> /\ e \in [1..n -> S]
    /\ \A x \in S : \E i \in 1..n : e[i] = x
    /\ \A i, j \in 1..n : i < j => Precedes(key, e[i], e[j])
  BY DEF ListsByKey
<1> DEFINE Before(x) == {y \in S : key[y] < key[x] \/ (key[y] = key[x] /\ y < x)}
<1>1. \A i, j \in 1..n : Precedes(key, e[i], e[j]) <=> i < j
  <2>1. \A x, y \in S : ~(Precedes(key, x, y) /\ Precedes(key, y, x)) /\ ~Precedes(key, x, x)
    <3>1. \A x \in S : x \in Int /\ key[x] \in Int
      OBVIOUS
    <3> QED
      BY <3>1 DEF Precedes
  <2>2. ASSUME NEW i \in 1..n, NEW j \in 1..n, Precedes(key, e[i], e[j])
        PROVE  i < j
    <3>1. i < j \/ i = j \/ j < i
      OBVIOUS
    <3> QED
      BY <2>1, <2>2, <3>1
  <2> QED
    BY <2>2
<1>2. ASSUME NEW i \in 1..n, NEW j \in 1..n, e[i] = e[j]
      PROVE  i = j
  <2>1. i < j \/ i = j \/ j < i
    OBVIOUS
  <2>2. \A k \in 1..n : ~(k < k)
    OBVIOUS
  <2> QED
    BY <1>1, <1>2, <2>1, <2>2
<1>3. ASSUME NEW k \in 0..n
      PROVE  Cardinality({e[j] : j \in 1..k}) = k
  <2>1. PICK f : f = [j \in 1..k |-> e[j]]
    OBVIOUS
  <2>2. PICK R : R = {e[j] : j \in 1..k}
    OBVIOUS
  <2>3. f \in Bijection(1..k, R)
    <3>1. f \in [1..k -> R] /\ \A j \in 1..k : j \in 1..n /\ f[j] = e[j]
      BY <2>1, <2>2
    <3>2. \A i, j \in 1..k : f[i] = f[j] => i = j
      BY <1>2, <3>1
    <3>3. \A x \in R : \E j \in 1..k : f[j] = x
      BY <2>2, <3>1
    <3> QED
      BY <3>1, <3>2, <3>3 DEF Bijection, Injection, IsInjective, Surjection
  <2>4. ExistsBijection(1..k, R)
    BY <2>3 DEF ExistsBijection
  <2>5. IsFiniteSet(1..k) /\ Cardinality(1..k) = k
    BY FS_Interval
  <2> QED
    BY <2>2, <2>4, <2>5, FS_Bijection
<1>4. Cardinality(S) = n
  <2>1. S = {e[j] : j \in 1..n}
    OBVIOUS
  <2>2. n \in 0..n
    OBVIOUS
  <2> QED
    BY <1>3, <2>1, <2>2
<1>5. ASSUME NEW i \in 1..n
      PROVE  Cardinality(Before(e[i])) = i - 1
  <2>1. PICK k \in 0..n : k = i - 1
    OBVIOUS
  <2>2. Before(e[i]) = {e[j] : j \in 1..k}
    <3>1. \A y \in S : y \in Before(e[i]) <=> Precedes(key, y, e[i])
      BY DEF Precedes
    <3>2. ASSUME NEW y \in Before(e[i])
          PROVE  y \in {e[j] : j \in 1..k}
      <4>1. PICK j \in 1..n : e[j] = y
        OBVIOUS
      <4>2. j < i
        BY <1>1, <3>1, <4>1
      <4> QED
        BY <2>1, <4>1, <4>2
    <3>3. ASSUME NEW j \in 1..k
          PROVE  e[j] \in Before(e[i])
      <4>1. j \in 1..n /\ j < i
        BY <2>1
      <4> QED
        BY <1>1, <3>1, <4>1
    <3> QED
      BY <3>2, <3>3
  <2> QED
    BY <1>3, <2>1, <2>2
<1>6. ASSUME NEW i \in 1..n
      PROVE  (CHOOSE x \in S : Cardinality(Before(x)) = i - 1) = e[i]
  <2>1. ASSUME NEW x \in S, Cardinality(Before(x)) = i - 1
        PROVE  x = e[i]
    <3>1. PICK j \in 1..n : e[j] = x
      OBVIOUS
    <3>2. j - 1 = i - 1
      BY <1>5, <2>1, <3>1
    <3> QED
      BY <3>1, <3>2
  <2>2. e[i] \in S /\ Cardinality(Before(e[i])) = i - 1
    BY <1>5
  <2> HIDE DEF Before
  <2> QED
    BY <2>1, <2>2
<1>7. Ordered(S, key) = [i \in 1..n |-> CHOOSE x \in S : Cardinality(Before(x)) = i - 1]
  BY <1>4 DEF Ordered
<1> HIDE DEF Before
<1> QED
  BY <1>6, <1>7

\* Positions in their own order.
LEMMA InTurnIs ==
  ASSUME NEW m \in Nat, NEW S \in SUBSET (0..m)
  PROVE  \E n \in Nat :
           /\ InTurn(S) \in [1..n -> S]
           /\ \A i, j \in 1..n : i < j => InTurn(S)[i] < InTurn(S)[j]
           /\ \A x \in S : \E i \in 1..n : InTurn(S)[i] = x
<1>1. PICK e : e = Ascending(S)
  OBVIOUS
<1>2. PICK n \in Nat : /\ e \in [1..n -> S]
                       /\ \A i, j \in 1..n : i < j => e[i] < e[j]
                       /\ \A x \in S : \E i \in 1..n : e[i] = x
  BY <1>1, SortedIs
<1>3. PICK key : key = [x \in S |-> x]
  OBVIOUS
<1>4. S \in SUBSET Int /\ key \in [S -> Int]
  BY <1>3
<1>5. \A i, j \in 1..n : i < j => Precedes(key, e[i], e[j])
  BY <1>2, <1>3 DEF Precedes
<1>6. Ordered(S, key) = e
  <2>1. ListsByKey(e, n, S, key)
    BY <1>2, <1>5 DEF ListsByKey
  <2>2. S \in SUBSET Int
    BY <1>4
  <2>3. key \in [S -> Int]
    BY <1>4
  <2>4. n \in Nat
    OBVIOUS
  <2> QED
    BY <2>1, <2>2, <2>3, <2>4, OrderedIs
<1> QED
  BY <1>2, <1>3, <1>6 DEF InTurn

-----------------------------------------------------------------------------
\* Arithmetic of rows and columns.
LEMMA NoLess ==
  ASSUME NEW a \in Nat, NEW b \in Nat, NEW c \in Nat, a <= b
  PROVE  a * c <= b * c
OBVIOUS

LEMMA Distributes ==
  ASSUME NEW a \in Int, NEW b \in Int, NEW c \in Int
  PROVE  (a + b) * c = a * c + b * c /\ (a - b) * c = a * c - b * c /\ c * a = a * c /\ a * c \in Int
OBVIOUS

LEMMA RowAndColumn ==
  ASSUME NEW n \in Nat, NEW width \in Nat \ {0}, NEW j \in Nat, j < n * width
  PROVE  /\ j \div width \in 0..(n - 1) /\ j % width \in 0..(width - 1)
         /\ j = (j \div width) * width + (j % width)
<1>1. PICK q \in Nat : q = j \div width
  OBVIOUS
<1>2. PICK c \in 0..(width - 1) : c = j % width
  OBVIOUS
<1>3. j = q * width + c
  BY <1>1, <1>2
<1>4. q < n /\ q \in 0..(n - 1)
  <2>1. q >= n => n * width <= q * width
    BY NoLess
  <2>2. n * width \in Nat /\ q * width \in Nat
    OBVIOUS
  <2> QED
    BY <1>3, <2>1, <2>2
<1> QED
  BY <1>1, <1>2, <1>3, <1>4

InRows(j, n, width) == \E q \in 0..(n - 1), c \in 0..(width - 1) : j = q * width + c

LEMMA InARow ==
  ASSUME NEW n \in Nat, NEW width \in Nat \ {0}, NEW j \in Nat, j < n * width
  PROVE  InRows(j, n, width)
<1>1. PICK q : q = j \div width
  OBVIOUS
<1>2. PICK c : c = j % width
  OBVIOUS
<1>3. q \in 0..(n - 1) /\ c \in 0..(width - 1) /\ j = q * width + c
  <2>1. /\ j \div width \in 0..(n - 1) /\ j % width \in 0..(width - 1)
        /\ j = (j \div width) * width + (j % width)
    BY RowAndColumn
  <2> QED
    BY <1>1, <1>2, <2>1
<1> QED
  BY <1>3 DEF InRows

\* The b items of s that follow its first a.
PieceOf(u, T, s, a, b) ==
  u \in Seq(T) /\ Len(u) = b /\ \A c \in 1..b : u[c] = s[a + c]

LEMMA SubSeqIs ==
  ASSUME NEW T, NEW s \in Seq(T), NEW a \in Nat, NEW b \in Nat, a + b <= Len(s)
  PROVE  PieceOf(SubSeq(s, a + 1, a + b), T, s, a, b)
<1>1. PICK from : from = a + 1
  OBVIOUS
<1>2. PICK to : to = a + b
  OBVIOUS
<1>3. Len(s) \in Nat
  OBVIOUS
<1>4. from \in 1..(Len(s) + 1) /\ to \in (from - 1)..Len(s)
  BY <1>1, <1>2, <1>3
<1>5. PICK u : u = SubSeq(s, from, to)
  OBVIOUS
<1>6. /\ u \in Seq(T) /\ Len(u) = to - from + 1
      /\ \A i \in 1..(to - from + 1) : u[i] = s[from + i - 1]
  BY <1>4, <1>5, SubSeqProperties
<1>7. to - from + 1 = b /\ \A c \in 1..b : from + c - 1 = a + c
  BY <1>1, <1>2
<1>8. PieceOf(u, T, s, a, b)
  BY <1>6, <1>7 DEF PieceOf
<1> QED
  BY <1>1, <1>2, <1>5, <1>8

\* What is cut into rows is put together again.
Cut(cells, n, width) == [i \in 1..n |-> SubSeq(cells, (i - 1) * width + 1, i * width)]

LEMMA CutAndJoined ==
  ASSUME NEW T, NEW n \in Nat \ {0}, NEW width \in Nat \ {0},
         NEW cells \in Seq(T), Len(cells) = n * width
  PROVE  FlattenSeq(Cut(cells, n, width)) = cells
<1> DEFINE rows == Cut(cells, n, width)
<1>1. ASSUME NEW i \in 1..n
      PROVE  /\ rows[i] \in Seq(T) /\ Len(rows[i]) = width
             /\ \A c \in 1..width : rows[i][c] = cells[(i - 1) * width + c]
  <2>1. PICK a \in Nat : a = (i - 1) * width
    <3>1. i - 1 \in Nat
      OBVIOUS
    <3>2. (i - 1) * width \in Nat
      BY <3>1
    <3> QED
      BY <3>2
  <2>2. a + width = i * width
    BY <2>1, Distributes
  <2>3. i * width <= n * width
    BY NoLess
  <2>4. a + width <= Len(cells)
    BY <2>2, <2>3
  <2>5. PieceOf(SubSeq(cells, a + 1, a + width), T, cells, a, width)
    BY <2>4, SubSeqIs
  <2>6. rows[i] = SubSeq(cells, a + 1, a + width)
    BY <2>1, <2>2 DEF Cut
  <2> HIDE DEF rows
  <2> QED
    BY <2>1, <2>5, <2>6 DEF PieceOf
<1>2. PICK f : f = FlattenSeq(rows)
  OBVIOUS
<1> HIDE DEF rows
<1>3. f \in Seq(T) /\ EndToEnd(f, rows, n, width)
  <2>1. rows \in [1..n -> Seq(T)] /\ \A r \in 1..n : r < n => Len(rows[r]) = width
    BY <1>1 DEF Cut, rows
  <2>2. FlattenSeq(rows) \in Seq(T) /\ EndToEnd(FlattenSeq(rows), rows, n, width)
    BY <2>1, Flattened
  <2> QED
    BY <1>2, <2>2
<1>4. Len(f) = Len(cells)
  <2>1. Len(f) = (n - 1) * width + width
    <3>1. n # 0 /\ Len(rows[n]) = width
      BY <1>1
    <3>2. Len(f) = IF n = 0 THEN 0 ELSE (n - 1) * width + Len(rows[n])
      BY <1>3 DEF EndToEnd
    <3> QED
      BY <3>1, <3>2
  <2>2. (n - 1) * width + width = n * width
    BY Distributes
  <2> QED
    BY <2>1, <2>2
<1>5. ASSUME NEW j \in 1..Len(cells)
      PROVE  f[j] = cells[j]
  <2>1. PICK i \in Nat : i = j - 1 /\ i < n * width
    OBVIOUS
  <2>2. PICK q \in 0..(n - 1) : \E c \in 0..(width - 1) : i = q * width + c
    <3>1. /\ i \div width \in 0..(n - 1) /\ i % width \in 0..(width - 1)
          /\ i = (i \div width) * width + (i % width)
      BY <2>1, RowAndColumn
    <3> QED
      BY <3>1
  <2>3. PICK c \in 0..(width - 1) : i = q * width + c
    BY <2>2
  <2>4. PICK r \in 1..n : r - 1 = q
    <3>1. q + 1 \in 1..n /\ (q + 1) - 1 = q
      OBVIOUS
    <3> QED
      BY <3>1
  <2>5. PICK d \in 1..width : d = c + 1
    OBVIOUS
  <2>6. j = (r - 1) * width + d
    BY <2>1, <2>3, <2>4, <2>5
  <2>7. f[(r - 1) * width + d] = rows[r][d]
    BY <1>1, <1>3 DEF EndToEnd
  <2>8. rows[r][d] = cells[(r - 1) * width + d]
    BY <1>1
  <2> QED
    BY <2>6, <2>7, <2>8
<1>6. f = cells
  BY <1>3, <1>4, <1>5
<1> QED
  BY <1>2, <1>6 DEF rows

-----------------------------------------------------------------------------
\* A track's sectors, from whatever sector on they were written.
Permutes(p, n) ==
  /\ p \in [1..n -> 1..n]
  /\ \A i, j \in 1..n : p[i] = p[j] => i = j
  /\ \A k \in 1..n : \E i \in 1..n : p[i] = k

LEMMA NextSector ==
  ASSUME NEW n \in Nat \ {0}, NEW s \in 1..n
  PROVE  (s % n) + 1 = IF s = n THEN 1 ELSE s + 1
<1>1. n % n = 0
  OBVIOUS
<1>2. s \in Nat /\ (s # n => s < n)
  OBVIOUS
<1>3. \A k \in Nat : k < n => k % n = k
  OBVIOUS
<1> QED
  BY <1>1, <1>2, <1>3

Turned(q, p, n) == q = [s \in 1..n |-> p[IF s = n THEN 1 ELSE s + 1]]

LEMMA TurnedPermutes ==
  ASSUME NEW n \in Nat \ {0}, NEW p, Permutes(p, n), NEW q, Turned(q, p, n)
  PROVE  Permutes(q, n)
<1> DEFINE r == [s \in 1..n |-> IF s = n THEN 1 ELSE s + 1]
<1>1. q = [s \in 1..n |-> p[r[s]]]
  BY DEF Turned
<1>2. \A s \in 1..n : r[s] \in 1..n
  OBVIOUS
<1>3. \A i, j \in 1..n : r[i] = r[j] => i = j
  OBVIOUS
<1>4. ASSUME NEW k \in 1..n
      PROVE  \E i \in 1..n : r[i] = k
  <2>1. CASE k = 1
    <3>1. n \in 1..n /\ r[n] = k
      BY <2>1
    <3> QED
      BY <3>1
  <2>2. CASE k # 1
    <3>1. k - 1 \in 1..n /\ k - 1 # n /\ (k - 1) + 1 = k
      BY <2>2
    <3>2. r[k - 1] = k
      BY <3>1
    <3> QED
      BY <3>1, <3>2
  <2> QED
    BY <2>1, <2>2
<1> HIDE DEF r
<1>5. q \in [1..n -> 1..n] /\ \A s \in 1..n : q[s] = p[r[s]]
  BY <1>1, <1>2 DEF Permutes
<1>6. ASSUME NEW i \in 1..n, NEW j \in 1..n, q[i] = q[j]
      PROVE  i = j
  <2>1. r[i] \in 1..n /\ r[j] \in 1..n /\ p[r[i]] = p[r[j]]
    BY <1>2, <1>5, <1>6
  <2>2. r[i] = r[j]
    BY <2>1 DEF Permutes
  <2> QED
    BY <1>3, <2>2
<1>7. ASSUME NEW k \in 1..n
      PROVE  \E i \in 1..n : q[i] = k
  <2>1. PICK j \in 1..n : p[j] = k
    BY DEF Permutes
  <2>2. PICK i \in 1..n : r[i] = j
    BY <1>4
  <2> QED
    BY <1>5, <2>1, <2>2
<1> QED
  BY <1>5, <1>6, <1>7 DEF Permutes

LEMMA PayloadInOrder ==
  ASSUME NEW track, NEW S, NEW rows \in [DOMAIN track -> S],
         \A i \in DOMAIN track : rows[i] = track[SectorOrder(track)[i]].cells
  PROVE  TrackPayload(track) = FlattenSeq(rows)
<1>1. [i \in DOMAIN track |-> track[SectorOrder(track)[i]].cells] = rows
  OBVIOUS
<1> QED
  BY <1>1 DEF TrackPayload

\* A track holds cells: sector s of it is the p[s]-th of them.
Holds(track, p, n, first, cells, width) ==
  /\ DOMAIN track = 1..n
  /\ \A s \in 1..n : /\ track[s].id = first + p[s] - 1
                     /\ track[s].cells = SubSeq(cells, (p[s] - 1) * width + 1, p[s] * width)

LEMMA PayloadOfTrack ==
  ASSUME NEW T, NEW n \in Nat \ {0}, NEW width \in Nat \ {0}, NEW first \in Nat,
         NEW cells \in Seq(T), Len(cells) = n * width, NEW p, Permutes(p, n),
         NEW track, Holds(track, p, n, first, cells, width)
  PROVE  TrackPayload(track) = cells /\ ~Damaged(track)
<1>1. PICK e : e = [k \in 1..n |-> CHOOSE i \in 1..n : p[i] = k]
  OBVIOUS
<1>2. \A k \in 1..n : e[k] \in 1..n /\ p[e[k]] = k
  BY <1>1 DEF Permutes
<1>3. \A i \in 1..n : e[p[i]] = i
  BY <1>2 DEF Permutes
<1>4. DOMAIN track = 1..n
  BY DEF Holds
<1>5. \A s \in 1..n : track[s].id = first + p[s] - 1
  BY DEF Holds
<1>6. PICK key : key = [s \in DOMAIN track |-> track[s].id]
  OBVIOUS
<1>7. key \in [1..n -> Int] /\ \A s \in 1..n : key[s] = first + p[s] - 1
  <2>1. \A s \in 1..n : p[s] \in 1..n
    BY DEF Permutes
  <2>2. \A s \in 1..n : first + p[s] - 1 \in Int
    BY <2>1
  <2>3. DOMAIN key = 1..n /\ \A s \in 1..n : key[s] = first + p[s] - 1
    BY <1>4, <1>5, <1>6
  <2> QED
    BY <1>4, <1>6, <2>2, <2>3
<1>8. Ordered(1..n, key) = e
  <2>1. 1..n \in SUBSET Int
    OBVIOUS
  <2>2. e \in [1..n -> 1..n] /\ \A x \in 1..n : \E i \in 1..n : e[i] = x
    <3>1. \A x \in 1..n : p[x] \in 1..n /\ e[p[x]] = x
      BY <1>3 DEF Permutes
    <3>2. \A x \in 1..n : \E i \in 1..n : e[i] = x
      BY <3>1
    <3>3. e \in [1..n -> 1..n]
      BY <1>1, <1>2
    <3> QED
      BY <3>2, <3>3
  <2>3. \A i, j \in 1..n : i < j => Precedes(key, e[i], e[j])
    <3>1. \A i \in 1..n : key[e[i]] = first + i - 1
      BY <1>2, <1>7
    <3>2. \A i, j \in 1..n : i < j => key[e[i]] < key[e[j]]
      BY <3>1
    <3> QED
      BY <3>2 DEF Precedes
  <2>4. ListsByKey(e, n, 1..n, key)
    BY <2>2, <2>3 DEF ListsByKey
  <2>5. key \in [1..n -> Int]
    BY <1>7
  <2> QED
    BY <2>1, <2>4, <2>5, OrderedIs
<1>9. \A i \in 1..n : track[e[i]].cells = SubSeq(cells, (i - 1) * width + 1, i * width)
  BY <1>2 DEF Holds
<1>10. PICK rows : rows = Cut(cells, n, width)
  OBVIOUS
<1>11. TrackPayload(track) = FlattenSeq(rows)
  <2>1. SectorOrder(track) = e
    BY <1>4, <1>6, <1>8 DEF SectorOrder
  <2>2. PICK S : rows \in [1..n -> S]
    <3>1. rows \in [1..n -> {rows[i] : i \in 1..n}]
      BY <1>10 DEF Cut
    <3> QED
      BY <3>1
  <2>3. \A i \in 1..n : rows[i] = track[e[i]].cells
    BY <1>9, <1>10 DEF Cut
  <2> QED
    <3>1. rows \in [DOMAIN track -> S] /\ \A i \in DOMAIN track : rows[i] = track[SectorOrder(track)[i]].cells
      BY <1>4, <2>1, <2>2, <2>3
    <3> QED
      BY <3>1, PayloadInOrder
<1>12. FlattenSeq(Cut(cells, n, width)) = cells
  BY CutAndJoined
<1>14. ~Damaged(track)
  <2>1. ASSUME NEW i \in 1..n, NEW j \in 1..n, track[i].id = track[j].id
        PROVE  i = j
    <3>1. p[i] \in 1..n /\ p[j] \in 1..n /\ first + p[i] - 1 = first + p[j] - 1
      BY <1>5, <2>1 DEF Permutes
    <3>2. p[i] = p[j]
      BY <3>1
    <3> QED
      BY <3>2 DEF Permutes
  <2> QED
    BY <1>4, <2>1 DEF Damaged
<1> QED
  BY <1>10, <1>11, <1>12, <1>14

\* A track that has gone bad is known by it, and keeps two sectors.
LEMMA PayloadOfSpoilt ==
  ASSUME NEW T, NEW width \in Nat \ {0}, NEW cells \in Seq(T), Len(cells) = width,
         NEW track, track = [s \in 1..2 |-> [id |-> 199, cells |-> cells]]
  PROVE  Damaged(track) /\ TrackPayload(track) \in Seq(T) /\ Len(TrackPayload(track)) = 2 * width
<1>1. DOMAIN track = 1..2 /\ track[1].id = track[2].id
  OBVIOUS
<1>2. Damaged(track)
  BY <1>1 DEF Damaged
<1>3. PICK key : key = [s \in DOMAIN track |-> track[s].id]
  OBVIOUS
<1>4. PICK e : e = [i \in 1..2 |-> i]
  OBVIOUS
<1>5. SectorOrder(track) = e
  <2>1. PICK n \in Nat : n = 2
    OBVIOUS
  <2>2. PICK S : S = 1..n
    OBVIOUS
  <2>3. S \in SUBSET Int /\ e \in [1..n -> S]
    BY <1>4, <2>1, <2>2
  <2>4. key \in [S -> Int] /\ \A s \in S : key[s] = 199
    BY <1>3, <2>1, <2>2
  <2>5. \A x \in S : \E i \in 1..n : e[i] = x
    BY <1>4, <2>1, <2>2
  <2>6. \A i, j \in 1..n : i < j => Precedes(key, e[i], e[j])
    BY <1>4, <2>1, <2>2, <2>4 DEF Precedes
  <2>7. Ordered(S, key) = e
    <3>1. ListsByKey(e, n, S, key)
      BY <2>3, <2>5, <2>6 DEF ListsByKey
    <3>2. S \in SUBSET Int
      BY <2>3
    <3>3. key \in [S -> Int]
      BY <2>4
    <3>4. n \in Nat
      OBVIOUS
    <3> QED
      BY <3>1, <3>2, <3>3, <3>4, OrderedIs
  <2> QED
    BY <1>1, <1>3, <2>1, <2>2, <2>7 DEF SectorOrder
<1>6. PICK rows : rows = [i \in 1..2 |-> cells]
  OBVIOUS
<1>7. [i \in 1..2 |-> track[e[i]].cells] = rows
  BY <1>4, <1>6
<1>8. TrackPayload(track) = FlattenSeq(rows)
  <2>1. [i \in DOMAIN track |-> track[SectorOrder(track)[i]].cells] = rows
    BY <1>1, <1>5, <1>7
  <2> QED
    BY <2>1 DEF TrackPayload
<1>9. FlattenSeq(rows) \in Seq(T) /\ EndToEnd(FlattenSeq(rows), rows, 2, width)
  <2>1. 2 \in Nat /\ rows \in [1..2 -> Seq(T)] /\ \A r \in 1..2 : r < 2 => Len(rows[r]) = width
    BY <1>6
  <2> QED
    BY <2>1, Flattened
<1>10. Len(FlattenSeq(rows)) = 2 * width
  <2>1. Len(rows[2]) = width
    BY <1>6
  <2>2. Len(FlattenSeq(rows)) = (2 - 1) * width + Len(rows[2])
    BY <1>9 DEF EndToEnd
  <2> QED
    BY <2>1, <2>2
<1> QED
  BY <1>2, <1>8, <1>9, <1>10

-----------------------------------------------------------------------------
\* Two sequences put together.
Joined(f, s, t) ==
  /\ Len(f) = Len(s) + Len(t)
  /\ \A i \in 1..Len(s) : f[i] = s[i]
  /\ \A i \in 1..Len(t) : f[Len(s) + i] = t[i]

LEMMA JoinedIs ==
  ASSUME NEW T, NEW s \in Seq(T), NEW t \in Seq(T)
  PROVE  s \o t \in Seq(T) /\ Joined(s \o t, s, t)
BY Concatenated DEF Joined

\* What is made up to a size.
Fills(f, T, cells, size) ==
  /\ f \in Seq(T) /\ Len(f) = size
  /\ \A i \in 1..Len(cells) : f[i] = cells[i]
  /\ \A i \in (Len(cells) + 1)..size : f[i] = Filler

LEMMA FilledIs ==
  ASSUME NEW T, Filler \in T, NEW cells \in Seq(T), NEW size \in Nat, Len(cells) <= size
  PROVE  Fills(Filled(cells, size), T, cells, size)
<1>1. PICK m \in Nat : m = Len(cells)
  OBVIOUS
<1>2. PICK k \in Nat : k = size - m
  BY <1>1
<1>3. PICK rest : rest = [i \in 1..k |-> Filler]
  OBVIOUS
<1>4. rest \in Seq(T) /\ Len(rest) = k /\ \A i \in 1..k : rest[i] = Filler
  BY <1>3
<1>5. PICK f : f = cells \o rest
  OBVIOUS
<1>6. f = Filled(cells, size)
  BY <1>1, <1>2, <1>3, <1>5 DEF Filled
<1>7. /\ f \in Seq(T) /\ Len(f) = Len(cells) + Len(rest)
      /\ \A i \in 1..Len(cells) : f[i] = cells[i]
      /\ \A i \in 1..Len(rest) : f[Len(cells) + i] = rest[i]
  <2>1. cells \o rest \in Seq(T) /\ Joined(cells \o rest, cells, rest)
    BY <1>4, JoinedIs
  <2> QED
    BY <1>5, <2>1 DEF Joined
<1>8. ASSUME NEW i \in (m + 1)..size
      PROVE  f[i] = Filler
  <2>1. i - m \in 1..k /\ m + (i - m) = i
    BY <1>2
  <2> QED
    BY <1>1, <1>4, <1>7, <2>1
<1>9. m + k = size
  BY <1>2
<1>10. f \in Seq(T) /\ Len(f) = size
  BY <1>1, <1>4, <1>7, <1>9
<1>11. /\ \A i \in 1..Len(cells) : f[i] = cells[i]
       /\ \A i \in (Len(cells) + 1)..size : f[i] = Filler
  BY <1>1, <1>7, <1>8
<1>12. Fills(f, T, cells, size)
  BY <1>10, <1>11 DEF Fills
<1> QED
  BY <1>6, <1>12

\* What is read of a disk's tracks, when the first is sound and the others are as
\* wide, or have gone bad.
Widths(T, n, width) ==
  /\ DOMAIN image = 1..n
  /\ \A t \in 1..n :
       /\ TrackPayload(image[t]) \in Seq(T)
       /\ IF Damaged(image[t]) THEN Len(TrackPayload(image[t])) <= width
                               ELSE Len(TrackPayload(image[t])) = width

\* So far as track k.
ReadSoFar(T, read, k, width) ==
  /\ read \in [cells : Seq(T), width : {width}] /\ Len(read.cells) = k * width
  /\ \A t \in 1..k : ~Damaged(image[t]) =>
       \A c \in 1..width : read.cells[(t - 1) * width + c] = TrackPayload(image[t])[c]

\* One track more, as wide.
MoreTracks(T, cells, k, width) ==
  /\ cells \in Seq(T) /\ Len(cells) = k * width
  /\ \A t \in 1..k : ~Damaged(image[t]) =>
       \A c \in 1..width : cells[(t - 1) * width + c] = TrackPayload(image[t])[c]

LEMMA OneMoreTrack ==
  ASSUME NEW T, NEW k \in Nat, NEW width \in Nat, NEW cells \in Seq(T), Len(cells) = k * width,
         \A t \in 1..k : ~Damaged(image[t]) =>
           \A c \in 1..width : cells[(t - 1) * width + c] = TrackPayload(image[t])[c],
         NEW sectors \in Seq(T), Len(sectors) = width,
         ~Damaged(image[k + 1]) => sectors = TrackPayload(image[k + 1])
  PROVE  MoreTracks(T, cells \o sectors, k + 1, width)
<1>1. PICK f : f = cells \o sectors
  OBVIOUS
<1>2. /\ f \in Seq(T) /\ Len(f) = Len(cells) + Len(sectors)
      /\ \A i \in 1..Len(cells) : f[i] = cells[i]
      /\ \A i \in 1..Len(sectors) : f[Len(cells) + i] = sectors[i]
  <2>1. cells \o sectors \in Seq(T) /\ Joined(cells \o sectors, cells, sectors)
    BY JoinedIs
  <2> QED
    BY <1>1, <2>1 DEF Joined
<1>3. Len(f) = (k + 1) * width
  BY <1>2, Distributes
<1>4. ASSUME NEW t \in 1..(k + 1), ~Damaged(image[t]), NEW c \in 1..width
      PROVE  f[(t - 1) * width + c] = TrackPayload(image[t])[c]
  <2>1. CASE t \in 1..k
    <3>1. PICK before \in Nat : before = (t - 1) * width
      <4>1. t - 1 \in Nat
        OBVIOUS
      <4>2. (t - 1) * width \in Nat
        BY <4>1
      <4> QED
        BY <4>2
    <3>2. before + width = t * width
      BY <3>1, Distributes
    <3>3. t * width <= k * width
      BY <2>1, NoLess
    <3>4. before + width <= Len(cells)
      BY <3>2, <3>3
    <3>5. before + c \in 1..Len(cells)
      BY <3>4
    <3>6. f[before + c] = cells[before + c]
      BY <1>2, <3>5
    <3>7. cells[(t - 1) * width + c] = TrackPayload(image[t])[c]
      BY <1>4, <2>1
    <3> QED
      BY <3>1, <3>6, <3>7
  <2>2. CASE t = k + 1
    <3>1. (t - 1) * width + c = Len(cells) + c /\ c \in 1..Len(sectors)
      BY <2>2
    <3>2. f[Len(cells) + c] = sectors[c]
      BY <1>2, <3>1
    <3> QED
      BY <1>4, <2>2, <3>1, <3>2
  <2> QED
    BY <2>1, <2>2
<1> QED
  BY <1>1, <1>2, <1>3, <1>4 DEF MoreTracks

LEMMA PayloadIs ==
  ASSUME NEW T, Filler \in T, NEW n \in Nat \ {0}, NEW width \in Nat,
         Widths(T, n, width), ~Damaged(image[1])
  PROVE  MoreTracks(T, Payload, n, width)
<1> DEFINE Reads == [cells : Seq(T), width : Nat]
           base == [cells |-> <<>>, width |-> 0]
           step == [p \in (1..n) \X Reads |-> ReadTrack(p[2], image[p[1]])]
           Folds(g) == g = [s \in SUBSET (1..n) |->
                              IF s = {} THEN base ELSE ReadTrack(g[s \ {Max(s)}], image[Max(s)])]
           it == CHOOSE g : Folds(g)
<1>1. /\ DOMAIN image = 1..n
      /\ \A t \in 1..n : /\ TrackPayload(image[t]) \in Seq(T) /\ Len(TrackPayload(image[t])) \in Nat
                         /\ Len(TrackPayload(image[t])) <= width
                         /\ ~Damaged(image[t]) => Len(TrackPayload(image[t])) = width
  <2>1. \A t \in 1..n : Len(TrackPayload(image[t])) \in Nat
    BY LenProperties DEF Widths
  <2> QED
    BY <2>1 DEF Widths
<1>2. ASSUME NEW read \in Reads, NEW t \in 1..n
      PROVE  ReadTrack(read, image[t]) \in Reads
  <2>1. PICK sectors : sectors = TrackPayload(image[t])
    OBVIOUS
  <2>2. sectors \in Seq(T) /\ Len(sectors) \in Nat /\ read.cells \in Seq(T) /\ read.width \in Nat
    BY <1>1, <2>1
  <2>3. CASE Damaged(image[t])
    <3>1. PICK size : size = Most(read.width, Len(sectors))
      OBVIOUS
    <3>2. size \in Nat /\ Len(sectors) <= size
      BY <2>2, <3>1 DEF Most
    <3>3. Filled(sectors, size) \in Seq(T)
      BY <2>2, <3>2, FilledIs DEF Fills
    <3>4. read.cells \o Filled(sectors, size) \in Seq(T)
      BY <2>2, <3>3, JoinedIs
    <3> QED
      BY <2>1, <2>3, <3>1, <3>4 DEF ReadTrack
  <2>4. CASE ~Damaged(image[t])
    <3>1. read.cells \o sectors \in Seq(T)
      BY <2>2, JoinedIs
    <3> QED
      BY <2>1, <2>2, <2>4, <3>1 DEF ReadTrack
  <2> QED
    BY <2>3, <2>4
<1>3. \E g : Folds(g)
  <2>1. step \in [(1..n) \X Reads -> Reads]
    <3> HIDE DEF Reads
    <3> QED
      BY <1>2
  <2>2. base \in Reads
    OBVIOUS
  <2>3. PICK g \in [SUBSET (1..n) -> Reads] : LeftFold(g, n, base, step)
    <3> HIDE DEF step, base, Reads
    <3> QED
      BY <2>1, <2>2, LeftFoldExists
  <2>4. ASSUME NEW s \in SUBSET (1..n), s # {}
        PROVE  step[<<Max(s), g[s \ {Max(s)}]>>] = ReadTrack(g[s \ {Max(s)}], image[Max(s)])
    <3>1. Max(s) \in s
      <4>1. s \in SUBSET (0..n)
        OBVIOUS
      <4> QED
        BY <2>4, <4>1, GreatestNumber
    <3>2. <<Max(s), g[s \ {Max(s)}]>> \in (1..n) \X Reads
      BY <2>3, <3>1
    <3> HIDE DEF Reads
    <3> QED
      BY <3>2
  <2> HIDE DEF step, base, Reads
  <2>5. g = [s \in SUBSET (1..n) |->
               IF s = {} THEN base ELSE ReadTrack(g[s \ {Max(s)}], image[Max(s)])]
    BY <2>3, <2>4 DEF LeftFold
  <2> QED
    BY <2>5
<1>4. Folds(it)
  <2> HIDE DEF Folds
  <2> QED
    BY <1>3
<1>5. Payload = it[1..n].cells
  BY <1>1 DEF Payload, FoldLeft, MapThenFoldSet
<1>6. it[1..0] = base /\ \A k \in Nat : k + 1 <= n => it[1..(k + 1)] = ReadTrack(it[1..k], image[k + 1])
  <2> HIDE DEF it, base
  <2>1. 1..0 = {} /\ 1..0 \in SUBSET (1..n)
    OBVIOUS
  <2>2. ASSUME NEW k \in Nat, k + 1 <= n
        PROVE  it[1..(k + 1)] = ReadTrack(it[1..k], image[k + 1])
    <3>1. 1..(k + 1) \in SUBSET (1..n)
      BY <2>2
    <3>2. PICK s : s = 1..(k + 1)
      OBVIOUS
    <3>3. s # {} /\ Max(s) = k + 1 /\ s \ {k + 1} = 1..k
      BY <3>2, UpToTheNext
    <3> QED
      BY <1>4, <3>1, <3>2, <3>3
  <2> QED
    BY <1>4, <2>1, <2>2
<1> HIDE DEF it
<1> DEFINE Good == {k \in Nat : k \in 1..n => ReadSoFar(T, it[1..k], k, width)}
<1>7. 0 \in Good
  OBVIOUS
<1>8. ASSUME NEW k \in Nat, k \in Good
      PROVE  k + 1 \in Good
  <2> SUFFICES ASSUME k + 1 \in 1..n
               PROVE  ReadSoFar(T, it[1..(k + 1)], k + 1, width)
    OBVIOUS
  <2>1. PICK read : read = it[1..k]
    OBVIOUS
  <2>2. PICK track : track = image[k + 1]
    OBVIOUS
  <2>3. PICK sectors : sectors = TrackPayload(track)
    OBVIOUS
  <2>4. it[1..(k + 1)] = ReadTrack(read, track)
    BY <1>6, <2>1, <2>2
  <2>5. /\ sectors \in Seq(T) /\ Len(sectors) \in Nat /\ Len(sectors) <= width
        /\ ~Damaged(track) => Len(sectors) = width
    BY <1>1, <2>2, <2>3
  <2>6. /\ read \in Reads /\ Len(read.cells) = k * width
        /\ \A t \in 1..k : ~Damaged(image[t]) =>
             \A c \in 1..width : read.cells[(t - 1) * width + c] = TrackPayload(image[t])[c]
        /\ Damaged(track) => read.width = width
    <3>1. CASE k = 0
      <4>1. read = base
        BY <1>6, <2>1, <3>1
      <4>2. base \in Reads /\ Len(base.cells) = 0
        OBVIOUS
      <4>3. 0 * width = 0 /\ 1..0 = {}
        OBVIOUS
      <4>4. track = image[1]
        BY <2>2, <3>1
      <4> HIDE DEF base
      <4> QED
        BY <3>1, <4>1, <4>2, <4>3, <4>4
    <3>2. CASE k # 0
      <4>1. k \in 1..n
        BY <3>2
      <4>2. ReadSoFar(T, read, k, width)
        BY <1>8, <2>1, <4>1
      <4>3. read \in [cells : Seq(T), width : {width}]
        BY <4>2 DEF ReadSoFar
      <4>4. read \in Reads /\ read.width = width
        BY <4>3
      <4> HIDE DEF Reads
      <4> QED
        BY <4>2, <4>4 DEF ReadSoFar
    <3> QED
      BY <3>1, <3>2
  <2>7. PICK more \in Seq(T) : /\ Len(more) = width
                               /\ ReadTrack(read, track) = [cells |-> read.cells \o more, width |-> width]
                               /\ ~Damaged(track) => more = sectors
    <3>1. CASE Damaged(track)
      <4>1. Most(read.width, Len(sectors)) = width
        BY <2>5, <2>6, <3>1 DEF Most
      <4>2. Filled(sectors, width) \in Seq(T) /\ Len(Filled(sectors, width)) = width
        BY <2>5, FilledIs DEF Fills
      <4>3. ReadTrack(read, track) = [read EXCEPT !.cells = @ \o Filled(sectors, width)]
        BY <2>3, <3>1, <4>1 DEF ReadTrack
      <4>4. ReadTrack(read, track) = [cells |-> read.cells \o Filled(sectors, width), width |-> width]
        BY <2>6, <3>1, <4>3
      <4> QED
        BY <3>1, <4>2, <4>4
    <3>2. CASE ~Damaged(track)
      <4>1. ReadTrack(read, track) = [cells |-> read.cells \o sectors, width |-> Len(sectors)]
        BY <2>3, <3>2 DEF ReadTrack
      <4> QED
        BY <2>5, <3>2, <4>1
    <3> QED
      BY <3>1, <3>2
  <2>8. PICK cells \in Seq(T) : cells = read.cells
    BY <2>6
  <2>9. PICK next : next = it[1..(k + 1)]
    OBVIOUS
  <2>10. next = [cells |-> cells \o more, width |-> width]
    BY <2>4, <2>7, <2>8, <2>9
  <2>11. PICK so : so = cells \o more
    OBVIOUS
  <2>12. /\ so \in Seq(T) /\ Len(so) = (k + 1) * width
         /\ \A t \in 1..(k + 1) : ~Damaged(image[t]) =>
              \A c \in 1..width : so[(t - 1) * width + c] = TrackPayload(image[t])[c]
    <3>1. /\ Len(cells) = k * width
          /\ \A t \in 1..k : ~Damaged(image[t]) =>
               \A c \in 1..width : cells[(t - 1) * width + c] = TrackPayload(image[t])[c]
      BY <2>6, <2>8
    <3>2. ~Damaged(image[k + 1]) => more = TrackPayload(image[k + 1])
      BY <2>2, <2>3, <2>7
    <3>3. MoreTracks(T, cells \o more, k + 1, width)
      BY <2>7, <3>1, <3>2, OneMoreTrack
    <3> QED
      BY <2>11, <3>3 DEF MoreTracks
  <2>13. next \in [cells : Seq(T), width : {width}] /\ next.cells = so
    BY <2>10, <2>11, <2>12
  <2> QED
    BY <2>9, <2>12, <2>13 DEF ReadSoFar
<1>9. Nat \subseteq Good
  <2> HIDE DEF Good
  <2> QED
    BY <1>7, <1>8, NumbersInduction
<1> QED
  <2>1. n \in 1..n
    OBVIOUS
  <2>2. ReadSoFar(T, it[1..n], n, width)
    BY <1>9, <2>1
  <2>3. it[1..n] \in [cells : Seq(T), width : {width}]
    BY <2>2 DEF ReadSoFar
  <2>4. it[1..n].cells \in Seq(T)
    BY <2>3
  <2> QED
    BY <1>5, <2>2, <2>4 DEF ReadSoFar, MoreTracks

-----------------------------------------------------------------------------
\* What lies where on a disk.
Entries == [entry : FileNames, number : Nat, records : Nat, blocks : Seq(Nat)]
DiskCells == FileCells \cup {Filler} \cup Entries \cup [tracks : Nat, reserved : Nat, dirBlocks : Nat]

TrackWidth == SectorsPerTrack * SectorSize
DirectorySize == geometry.dirBlocks * BlockSize

\* What has been filed is no more than there is room for.
WithinTheDisk ==
  /\ geometry \in Geometries
  /\ directory \in Seq(Entries) /\ Len(directory) <= EntriesOf(geometry)
  /\ data \in Seq(FileCells \cup {Filler})
  /\ DirectorySize + Len(data) <= AreaOf(geometry)

LEMMA DiskSizes ==
  ASSUME geometry \in Geometries
  PROVE  /\ RecordSize \in Nat \ {0} /\ SectorSize \in Nat \ {0} /\ BlockSize \in Nat \ {0}
         /\ EntrySize \in Nat \ {0} /\ BlocksPerExtent \in Nat \ {0}
         /\ Tracks \in Nat \ {0} /\ SectorsPerTrack \in Nat \ {0, 1}
         /\ TrackWidth \in Nat \ {0} /\ DirectorySize \in Nat
         /\ geometry.reserved \in Nat /\ geometry.dirBlocks \in Nat \ {0} /\ geometry.firstID \in Nat
         /\ AreaOf(geometry) = (Tracks - geometry.reserved) * TrackWidth
         /\ EntriesOf(geometry) \in Nat /\ EntriesOf(geometry) * EntrySize <= DirectorySize
<1>1. /\ RecordSize \in Nat \ {0} /\ SectorSize \in Nat \ {0} /\ BlockSize \in Nat \ {0}
      /\ EntrySize \in Nat \ {0} /\ BlocksPerExtent \in Nat \ {0}
      /\ Tracks \in Nat \ {0} /\ SectorsPerTrack \in Nat \ {0, 1}
  BY DisketteAssumption
<1>2. geometry.reserved \in Nat /\ geometry.dirBlocks \in Nat \ {0} /\ geometry.firstID \in Nat
  BY DEF Geometries, Plus3Geometry, DataGeometry
<1>3. TrackWidth \in Nat \ {0} /\ DirectorySize \in Nat
  <2>1. \A a, b \in Nat \ {0} : a * b \in Nat \ {0}
    OBVIOUS
  <2> QED
    BY <1>1, <1>2, <2>1 DEF TrackWidth, DirectorySize
<1>4. AreaOf(geometry) = (Tracks - geometry.reserved) * TrackWidth
  <2>1. \A a, b, c \in Int : (a * b) * c = a * (b * c)
    OBVIOUS
  <2>2. Tracks - geometry.reserved \in Int
    BY <1>1, <1>2
  <2> QED
    BY <1>1, <2>1, <2>2 DEF AreaOf, TrackWidth
<1>5. EntriesOf(geometry) \in Nat /\ EntriesOf(geometry) * EntrySize <= DirectorySize
  BY <1>1, <1>3, Division DEF EntriesOf, DirectorySize
<1> QED
  BY <1>1, <1>2, <1>3, <1>4, <1>5

\* The cell an entry begins with.
EntryAt(i) == (i - 1) * EntrySize + 1

LEMMA EntriesLie ==
  ASSUME geometry \in Geometries, NEW i \in 1..EntriesOf(geometry)
  PROVE  EntryAt(i) \in 1..DirectorySize
<1>1. /\ EntrySize \in Nat \ {0} /\ DirectorySize \in Nat
      /\ EntriesOf(geometry) \in Nat /\ EntriesOf(geometry) * EntrySize <= DirectorySize
  BY DiskSizes
<1>2. PICK before \in Nat : before = (i - 1) * EntrySize
  <2>1. i - 1 \in Nat
    BY <1>1
  <2>2. (i - 1) * EntrySize \in Nat
    BY <1>1, <2>1
  <2> QED
    BY <2>2
<1>3. before + EntrySize = i * EntrySize
  BY <1>1, <1>2, Distributes
<1>4. i * EntrySize <= EntriesOf(geometry) * EntrySize
  BY <1>1, NoLess
<1>5. before + EntrySize <= DirectorySize
  BY <1>1, <1>3, <1>4
<1>6. before + 1 \in 1..DirectorySize
  BY <1>1, <1>5
<1> QED
  BY <1>2, <1>6 DEF EntryAt

\* The directory's names, each at the beginning of its entry.
DirectoryRows == [i \in DOMAIN directory |-> Filled(<<directory[i]>>, EntrySize)]

LEMMA NamesLie ==
  ASSUME WithinTheDisk
  PROVE  /\ FlattenSeq(DirectoryRows) \in Seq(DiskCells)
         /\ Len(FlattenSeq(DirectoryRows)) = Len(directory) * EntrySize
         /\ \A i \in 1..Len(directory) :
              /\ EntryAt(i) \in 1..Len(FlattenSeq(DirectoryRows))
              /\ FlattenSeq(DirectoryRows)[EntryAt(i)] = directory[i]
<1>1. PICK n \in Nat : n = Len(directory)
  BY DEF WithinTheDisk
<1>2. PICK rows : rows = DirectoryRows
  OBVIOUS
<1>3. EntrySize \in Nat \ {0}
  BY DiskSizes DEF WithinTheDisk
<1>4. directory \in Seq(Entries) /\ DOMAIN directory = 1..n
  BY <1>1 DEF WithinTheDisk
<1>5. Filler \in DiskCells /\ Entries \subseteq DiskCells
  BY DEF DiskCells
<1>6. ASSUME NEW i \in 1..n
      PROVE  rows[i] \in Seq(DiskCells) /\ Len(rows[i]) = EntrySize /\ rows[i][1] = directory[i]
  <2>1. rows[i] = Filled(<<directory[i]>>, EntrySize)
    BY <1>2, <1>4 DEF DirectoryRows
  <2>2. PICK one : one = <<directory[i]>>
    OBVIOUS
  <2>3. directory[i] \in DiskCells
    BY <1>4, <1>5
  <2>4. one \in Seq(DiskCells) /\ Len(one) = 1 /\ one[1] = directory[i] /\ Len(one) <= EntrySize
    BY <1>3, <2>2, <2>3
  <2>5. Fills(Filled(one, EntrySize), DiskCells, one, EntrySize)
    BY <1>3, <1>5, <2>4, FilledIs
  <2> QED
    BY <2>1, <2>2, <2>4, <2>5 DEF Fills
<1>7. rows \in [1..n -> Seq(DiskCells)]
  BY <1>2, <1>4, <1>6 DEF DirectoryRows
<1>8. FlattenSeq(rows) \in Seq(DiskCells) /\ EndToEnd(FlattenSeq(rows), rows, n, EntrySize)
  BY <1>3, <1>6, <1>7, Flattened
<1>9. Len(FlattenSeq(rows)) = n * EntrySize
  <2>1. Len(FlattenSeq(rows)) = IF n = 0 THEN 0 ELSE (n - 1) * EntrySize + Len(rows[n])
    BY <1>8 DEF EndToEnd
  <2>2. n # 0 => Len(rows[n]) = EntrySize
    BY <1>6
  <2>3. n = 0 => n * EntrySize = 0
    BY <1>3
  <2>4. (n - 1) * EntrySize + EntrySize = n * EntrySize
    BY <1>3, Distributes
  <2> QED
    BY <2>1, <2>2, <2>3, <2>4
<1>10. ASSUME NEW i \in 1..n
       PROVE  EntryAt(i) \in 1..Len(FlattenSeq(rows)) /\ FlattenSeq(rows)[EntryAt(i)] = directory[i]
  <2>1. 1 \in 1..Len(rows[i])
    BY <1>3, <1>6
  <2>2. /\ (i - 1) * EntrySize + 1 \in 1..Len(FlattenSeq(rows))
        /\ FlattenSeq(rows)[(i - 1) * EntrySize + 1] = rows[i][1]
    BY <1>8, <2>1 DEF EndToEnd
  <2> QED
    BY <1>6, <2>2 DEF EntryAt
<1> QED
  BY <1>1, <1>2, <1>8, <1>9, <1>10

LEMMA AreaIs ==
  ASSUME WithinTheDisk
  PROVE  /\ Area \in Seq(DiskCells) /\ Len(Area) = AreaOf(geometry) /\ AreaOf(geometry) \in Nat
         /\ \A i \in 1..EntriesOf(geometry) :
              Area[EntryAt(i)] = IF i \in 1..Len(directory) THEN directory[i] ELSE Filler
         /\ \A j \in 1..Len(data) : Area[DirectorySize + j] = data[j]
<1>1. PICK names : names = FlattenSeq(DirectoryRows)
  OBVIOUS
<1>2. PICK n \in Nat : n = Len(directory)
  BY DEF WithinTheDisk
<1>3. /\ names \in Seq(DiskCells) /\ Len(names) = n * EntrySize
      /\ \A i \in 1..n : EntryAt(i) \in 1..Len(names) /\ names[EntryAt(i)] = directory[i]
  BY <1>1, <1>2, NamesLie
<1>4. /\ EntrySize \in Nat \ {0} /\ DirectorySize \in Nat
      /\ EntriesOf(geometry) \in Nat /\ EntriesOf(geometry) * EntrySize <= DirectorySize
      /\ n <= EntriesOf(geometry)
  BY <1>2, DiskSizes DEF WithinTheDisk
<1>5. Len(names) \in Nat /\ Len(names) <= DirectorySize
  <2>1. n * EntrySize <= EntriesOf(geometry) * EntrySize
    BY <1>4, NoLess
  <2>2. n * EntrySize \in Nat /\ EntriesOf(geometry) * EntrySize \in Nat
    BY <1>4
  <2> QED
    BY <1>3, <1>4, <2>1, <2>2
<1>6. Filler \in DiskCells
  BY DEF DiskCells
<1>7. PICK head : head = Filled(names, DirectorySize)
  OBVIOUS
<1>8. /\ head \in Seq(DiskCells) /\ Len(head) = DirectorySize
      /\ \A k \in 1..Len(names) : head[k] = names[k]
      /\ \A k \in (Len(names) + 1)..DirectorySize : head[k] = Filler
  <2>1. Fills(Filled(names, DirectorySize), DiskCells, names, DirectorySize)
    BY <1>3, <1>4, <1>5, <1>6, FilledIs
  <2> QED
    BY <1>7, <2>1 DEF Fills
<1>9. data \in Seq(DiskCells) /\ Len(data) \in Nat
  <2>1. data \in Seq(FileCells \cup {Filler})
    BY DEF WithinTheDisk
  <2>2. FileCells \cup {Filler} \subseteq DiskCells
    BY DEF DiskCells
  <2> QED
    BY <2>1, <2>2
<1>10. PICK both : both = head \o data
  OBVIOUS
<1>11. /\ both \in Seq(DiskCells) /\ Len(both) = DirectorySize + Len(data)
       /\ \A k \in 1..DirectorySize : both[k] = head[k]
       /\ \A j \in 1..Len(data) : both[DirectorySize + j] = data[j]
  <2>1. head \o data \in Seq(DiskCells) /\ Joined(head \o data, head, data)
    BY <1>8, <1>9, JoinedIs
  <2>2. /\ Len(both) = Len(head) + Len(data)
        /\ \A i \in 1..Len(head) : both[i] = head[i]
        /\ \A i \in 1..Len(data) : both[Len(head) + i] = data[i]
    BY <1>10, <2>1 DEF Joined
  <2>3. both \in Seq(DiskCells)
    BY <1>10, <2>1
  <2>4. Len(head) = DirectorySize
    BY <1>8
  <2> QED
    BY <2>2, <2>3, <2>4, Zenon
<1>12. PICK size \in Nat : size = AreaOf(geometry)
  <2>1. AreaOf(geometry) \in Int /\ DirectorySize + Len(data) <= AreaOf(geometry)
    BY DiskSizes DEF WithinTheDisk
  <2>2. AreaOf(geometry) \in Nat
    BY <1>4, <1>9, <2>1
  <2> QED
    BY <2>2
<1>13. DirectorySize + Len(data) <= size
  BY <1>12 DEF WithinTheDisk
<1>14. PICK area : area = Filled(both, size)
  OBVIOUS
<1>15. /\ area \in Seq(DiskCells) /\ Len(area) = size
       /\ \A k \in 1..(DirectorySize + Len(data)) : area[k] = both[k]
  <2>1. Fills(Filled(both, size), DiskCells, both, size)
    BY <1>6, <1>11, <1>13, FilledIs
  <2> QED
    BY <1>11, <1>14, <2>1 DEF Fills
<1>16. Area = area
  BY <1>1, <1>7, <1>10, <1>12, <1>14 DEF Area, DirectoryRows, DirectorySize
<1>17. ASSUME NEW i \in 1..EntriesOf(geometry)
       PROVE  area[EntryAt(i)] = IF i \in 1..Len(directory) THEN directory[i] ELSE Filler
  <2>1. PICK k \in 1..DirectorySize : k = EntryAt(i)
    BY EntriesLie DEF WithinTheDisk
  <2>2. area[k] = head[k]
    BY <1>4, <1>9, <1>11, <1>15
  <2>3. CASE i \in 1..n
    BY <1>2, <1>3, <1>8, <2>1, <2>2, <2>3
  <2>4. CASE i \notin 1..n
    <3>1. n <= i - 1 /\ i - 1 \in Nat
      BY <1>4, <2>4
    <3>2. n * EntrySize <= (i - 1) * EntrySize
      BY <1>4, <3>1, NoLess
    <3>3. k \in (Len(names) + 1)..DirectorySize
      <4>1. (i - 1) * EntrySize \in Nat /\ n * EntrySize \in Nat
        BY <1>4, <3>1
      <4> QED
        BY <1>3, <1>5, <2>1, <3>2, <4>1 DEF EntryAt
    <3> QED
      BY <1>2, <1>8, <2>1, <2>2, <2>4, <3>3
  <2> QED
    BY <2>3, <2>4
<1>18. ASSUME NEW j \in 1..Len(data)
       PROVE  area[DirectorySize + j] = data[j]
  <2>1. DirectorySize + j \in 1..(DirectorySize + Len(data))
    BY <1>4, <1>9
  <2> QED
    BY <1>11, <1>15, <2>1
<1> QED
  BY <1>12, <1>15, <1>16, <1>17, <1>18

-----------------------------------------------------------------------------
\* The tracks.
LEMMA TrackIs ==
  ASSUME WithinTheDisk, NEW t \in 1..Tracks
  PROVE  /\ TrackCells(t) \in Seq(DiskCells) /\ Len(TrackCells(t)) = TrackWidth
         /\ t > geometry.reserved =>
              \A c \in 1..TrackWidth : TrackCells(t)[c] = Area[(t - 1 - geometry.reserved) * TrackWidth + c]
         /\ geometry = Plus3Geometry /\ t = 1 => TrackCells(t)[1] = Specification
<1>1. /\ TrackWidth \in Nat \ {0} /\ geometry.reserved \in Nat /\ Tracks \in Nat \ {0}
      /\ AreaOf(geometry) = (Tracks - geometry.reserved) * TrackWidth
      /\ geometry \in Geometries
  BY DiskSizes DEF WithinTheDisk
<1>2. CASE t > geometry.reserved
  <2>1. PICK r \in Nat : r = t - 1 - geometry.reserved
    BY <1>1, <1>2
  <2>2. PICK from \in Nat : from = r * TrackWidth
    <3>1. r * TrackWidth \in Nat
      BY <1>1
    <3> QED
      BY <3>1
  <2>3. from + TrackWidth <= AreaOf(geometry)
    <3>1. from + TrackWidth = (r + 1) * TrackWidth
      BY <1>1, <2>2, Distributes
    <3>2. r + 1 \in Nat /\ Tracks - geometry.reserved \in Nat /\ r + 1 <= Tracks - geometry.reserved
      BY <1>1, <2>1
    <3>3. (r + 1) * TrackWidth <= (Tracks - geometry.reserved) * TrackWidth
      BY <1>1, <3>2, NoLess
    <3> QED
      BY <1>1, <3>1, <3>3
  <2>4. PICK area \in Seq(DiskCells) : area = Area /\ Len(area) = AreaOf(geometry)
    BY AreaIs
  <2>5. PieceOf(SubSeq(area, from + 1, from + TrackWidth), DiskCells, area, from, TrackWidth)
    BY <1>1, <2>3, <2>4, SubSeqIs
  <2>6. TrackCells(t) = SubSeq(area, from + 1, from + TrackWidth)
    BY <1>2, <2>1, <2>2, <2>4 DEF TrackCells, TrackWidth
  <2>7. ~(geometry = Plus3Geometry /\ t = 1)
    BY <1>2 DEF Plus3Geometry
  <2> QED
    BY <2>1, <2>2, <2>4, <2>5, <2>6, <2>7 DEF PieceOf
<1>3. CASE ~(t > geometry.reserved)
  <2>1. geometry = Plus3Geometry /\ t = 1
    BY <1>1, <1>3 DEF Geometries, Plus3Geometry, DataGeometry
  <2>2. geometry.format = "plus3"
    BY <2>1 DEF Plus3Geometry
  <2>3. PICK one : one = <<Specification>>
    OBVIOUS
  <2>4. TrackCells(t) = Filled(one, TrackWidth)
    BY <1>3, <2>1, <2>2, <2>3 DEF TrackCells, TrackWidth
  <2>5. Specification \in DiskCells /\ Filler \in DiskCells
    BY <1>1, DiskSizes DEF Specification, DiskCells
  <2>6. one \in Seq(DiskCells) /\ Len(one) = 1 /\ one[1] = Specification /\ Len(one) <= TrackWidth
    BY <1>1, <2>3, <2>5
  <2>7. Fills(Filled(one, TrackWidth), DiskCells, one, TrackWidth)
    BY <1>1, <2>5, <2>6, FilledIs
  <2> QED
    BY <1>3, <2>4, <2>6, <2>7 DEF Fills
<1> QED
  BY <1>2, <1>3

\* A track of the image: as it was made, from whatever sector on, or gone bad.
Sectors == [id : Int, cells : Seq(DiskCells)]

SoundTrack(t) ==
  /\ image[t] \in [1..SectorsPerTrack -> Sectors]
  /\ \E p : /\ Permutes(p, SectorsPerTrack)
            /\ Holds(image[t], p, SectorsPerTrack, geometry.firstID, TrackCells(t), SectorSize)

SpoiltTrack(t) ==
  \E cells \in Seq(DiskCells) :
     Len(cells) = SectorSize /\ image[t] = [s \in 1..2 |-> [id |-> 199, cells |-> cells]]

ImageOK ==
  /\ DOMAIN image = 1..Tracks
  /\ \A t \in 1..Tracks : IF t \in spoilt THEN SpoiltTrack(t) ELSE SoundTrack(t)

LEMMA ImageReads ==
  ASSUME WithinTheDisk, ImageOK, 1 \notin spoilt
  PROVE  /\ MoreTracks(DiskCells, Payload, Tracks, TrackWidth)
         /\ \A t \in 1..Tracks : t \notin spoilt =>
              ~Damaged(image[t]) /\ TrackPayload(image[t]) = TrackCells(t)
<1>1. /\ TrackWidth \in Nat \ {0} /\ Tracks \in Nat \ {0} /\ SectorSize \in Nat \ {0}
      /\ SectorsPerTrack \in Nat \ {0, 1} /\ geometry.firstID \in Nat
  BY DiskSizes DEF WithinTheDisk
<1>2. ASSUME NEW t \in 1..Tracks, t \notin spoilt
      PROVE  ~Damaged(image[t]) /\ TrackPayload(image[t]) = TrackCells(t)
  <2>1. PICK p : /\ Permutes(p, SectorsPerTrack)
                 /\ Holds(image[t], p, SectorsPerTrack, geometry.firstID, TrackCells(t), SectorSize)
    BY <1>2 DEF ImageOK, SoundTrack
  <2>2. PICK cells \in Seq(DiskCells) : cells = TrackCells(t) /\ Len(cells) = SectorsPerTrack * SectorSize
    BY TrackIs DEF TrackWidth
  <2>3. PICK track : track = image[t]
    OBVIOUS
  <2>4. Holds(track, p, SectorsPerTrack, geometry.firstID, cells, SectorSize)
    BY <2>1, <2>2, <2>3
  <2>5. SectorsPerTrack \in Nat \ {0}
    BY <1>1
  <2>6. TrackPayload(track) = cells /\ ~Damaged(track)
    BY <1>1, <2>1, <2>2, <2>4, <2>5, PayloadOfTrack
  <2> QED
    BY <2>2, <2>3, <2>6
<1>3. ASSUME NEW t \in 1..Tracks, t \in spoilt
      PROVE  /\ Damaged(image[t]) /\ TrackPayload(image[t]) \in Seq(DiskCells)
             /\ Len(TrackPayload(image[t])) <= TrackWidth
  <2>1. PICK cells \in Seq(DiskCells) :
          Len(cells) = SectorSize /\ image[t] = [s \in 1..2 |-> [id |-> 199, cells |-> cells]]
    BY <1>3 DEF ImageOK, SpoiltTrack
  <2>2. PICK track : track = image[t]
    OBVIOUS
  <2>3. /\ Damaged(track) /\ TrackPayload(track) \in Seq(DiskCells)
        /\ Len(TrackPayload(track)) = 2 * SectorSize
    BY <1>1, <2>1, <2>2, PayloadOfSpoilt
  <2>4. 2 * SectorSize <= TrackWidth
    <3>1. 2 \in Nat /\ SectorsPerTrack \in Nat /\ SectorSize \in Nat /\ 2 <= SectorsPerTrack
      BY <1>1
    <3> QED
      BY <3>1, NoLess DEF TrackWidth
  <2> QED
    BY <2>2, <2>3, <2>4
<1>4. \A t \in 1..Tracks : TrackCells(t) \in Seq(DiskCells) /\ Len(TrackCells(t)) = TrackWidth
  BY TrackIs
<1>5. Widths(DiskCells, Tracks, TrackWidth)
  BY <1>2, <1>3, <1>4 DEF Widths, ImageOK
<1>6. 1 \in 1..Tracks
  BY <1>1
<1>7. ~Damaged(image[1])
  BY <1>2, <1>6
<1>8. Filler \in DiskCells
  BY DEF DiskCells
<1>9. MoreTracks(DiskCells, Payload, Tracks, TrackWidth)
  BY <1>1, <1>5, <1>7, <1>8, PayloadIs
<1> QED
  BY <1>2, <1>9

\* What is read where the directory begins is what was written there, but for what
\* lies on a track that has gone bad.
ReadArea == SubSeq(Payload, geometry.reserved * TrackWidth + 1, Len(Payload))
LiesOn(x) == geometry.reserved + 1 + ((x - 1) \div TrackWidth)

LEMMA AreaReads ==
  ASSUME WithinTheDisk, ImageOK, 1 \notin spoilt
  PROVE  /\ ReadArea \in Seq(DiskCells) /\ Len(ReadArea) = AreaOf(geometry)
         /\ Len(Payload) = geometry.reserved * TrackWidth + AreaOf(geometry)
         /\ \A x \in 1..AreaOf(geometry) :
              LiesOn(x) \in 1..Tracks /\ (LiesOn(x) \notin spoilt => ReadArea[x] = Area[x])
<1>1. /\ TrackWidth \in Nat \ {0} /\ Tracks \in Nat \ {0} /\ geometry.reserved \in Nat
      /\ AreaOf(geometry) = (Tracks - geometry.reserved) * TrackWidth
  BY DiskSizes DEF WithinTheDisk
<1>2. AreaOf(geometry) \in Nat
  BY AreaIs
<1>3. PICK g \in Nat : g = geometry.reserved
  BY <1>1
<1>4. PICK w \in Nat \ {0} : w = TrackWidth
  BY <1>1
<1>5. PICK m \in Nat : m = Tracks - g
  <2>1. Tracks - g < 0 => (Tracks - g) * w < 0
    BY <1>1, <1>3, <1>4
  <2>2. Tracks - g \in Nat
    BY <1>1, <1>2, <1>3, <1>4, <2>1
  <2> QED
    BY <2>2
<1>6. PICK start \in Nat : start = g * w
  <2>1. g * w \in Nat
    BY <1>3, <1>4
  <2> QED
    BY <2>1
<1>7. PICK payload : payload = Payload
  OBVIOUS
<1>8. /\ payload \in Seq(DiskCells) /\ Len(payload) = Tracks * w
      /\ \A t \in 1..Tracks : ~Damaged(image[t]) =>
           \A c \in 1..w : payload[(t - 1) * w + c] = TrackPayload(image[t])[c]
  BY <1>4, <1>7, ImageReads DEF MoreTracks
<1>9. PICK size \in Nat : size = AreaOf(geometry) /\ size = m * w /\ start + size = Len(payload)
  <2>1. AreaOf(geometry) = m * w
    BY <1>1, <1>3, <1>4, <1>5
  <2>2. g * w + m * w = Tracks * w
    <3>1. g + m = Tracks
      BY <1>1, <1>3, <1>5
    <3>2. g * w + m * w = (g + m) * w
      BY <1>3, <1>4, <1>5, Distributes
    <3> QED
      BY <3>1, <3>2
  <2> QED
    BY <1>2, <1>6, <1>8, <2>1, <2>2
<1>10. PICK area : area = SubSeq(payload, start + 1, start + size)
  OBVIOUS
<1>11. area \in Seq(DiskCells) /\ Len(area) = size /\ \A x \in 1..size : area[x] = payload[start + x]
  <2>1. start + size <= Len(payload)
    BY <1>9
  <2>2. PieceOf(SubSeq(payload, start + 1, start + size), DiskCells, payload, start, size)
    BY <1>8, <2>1, SubSeqIs
  <2> QED
    BY <1>10, <2>2 DEF PieceOf
<1>12. ReadArea = area
  BY <1>3, <1>4, <1>6, <1>7, <1>9, <1>10 DEF ReadArea
<1>13. ASSUME NEW x \in 1..size
       PROVE  LiesOn(x) \in 1..Tracks /\ (LiesOn(x) \notin spoilt => area[x] = Area[x])
  <2>1. PICK i \in Nat : i = x - 1 /\ i < m * w
    BY <1>9
  <2>2. /\ i \div w \in 0..(m - 1) /\ i % w \in 0..(w - 1)
        /\ i = (i \div w) * w + (i % w)
    BY <2>1, RowAndColumn
  <2>3. PICK q \in 0..(m - 1) : q = i \div w
    BY <2>2
  <2>4. PICK c \in 1..w : i = q * w + (c - 1)
    <3>1. PICK d \in 0..(w - 1) : d = i % w
      BY <2>2
    <3>2. d + 1 \in 1..w /\ (d + 1) - 1 = d
      BY <1>4
    <3> QED
      BY <2>2, <2>3, <3>1, <3>2
  <2>5. PICK t \in 1..Tracks : t = g + 1 + q
    BY <1>1, <1>3, <1>5, <2>3
  <2>6. LiesOn(x) = t
    BY <1>3, <1>4, <2>1, <2>3, <2>5 DEF LiesOn
  <2>7. ASSUME t \notin spoilt
        PROVE  area[x] = Area[x]
    <3>1. start + x = (t - 1) * w + c
      <4>1. (t - 1) * w = g * w + q * w
        <5>1. t - 1 = g + q
          BY <1>3, <2>5
        <5>2. (g + q) * w = g * w + q * w
          <6>1. g \in Int /\ q \in Int /\ w \in Int
            OBVIOUS
          <6> QED
            BY <6>1, Distributes
        <5> QED
          BY <5>1, <5>2
      <4>2. x = q * w + c
        <5>1. q * w \in Nat
          BY <1>4
        <5> QED
          BY <2>1, <2>4, <5>1
      <4>3. q * w \in Nat /\ g * w \in Nat
        BY <1>3, <1>4
      <4> QED
        BY <1>6, <4>1, <4>2, <4>3
    <3>2. payload[(t - 1) * w + c] = TrackCells(t)[c]
      BY <1>8, <2>7, ImageReads
    <3>3. TrackCells(t)[c] = Area[(t - 1 - g) * w + c]
      <4>1. t > geometry.reserved
        BY <1>3, <2>5
      <4> QED
        BY <1>3, <1>4, <4>1, TrackIs
    <3>4. (t - 1 - g) * w + c = x
      <4>1. t - 1 - g = q
        BY <1>3, <2>5
      <4>2. q * w \in Nat
        BY <1>4
      <4> QED
        BY <2>1, <2>4, <4>1, <4>2
    <3> QED
      BY <1>11, <3>1, <3>2, <3>3, <3>4
  <2> QED
    BY <2>6, <2>7
<1> QED
  BY <1>3, <1>4, <1>6, <1>7, <1>9, <1>11, <1>12, <1>13

-----------------------------------------------------------------------------
\* What a file takes: its blocks, its extents, its records.
LEMMA CeilingIs ==
  ASSUME NEW a \in Nat, NEW b \in Nat \ {0}
  PROVE  /\ Ceiling(a, b) \in Nat /\ a <= Ceiling(a, b) * b
         /\ a > 0 => Ceiling(a, b) > 0 /\ (Ceiling(a, b) - 1) * b < a
         /\ \A q \in Nat : a <= q * b => Ceiling(a, b) <= q
         /\ \A q \in Nat : a > q * b => Ceiling(a, b) > q
<1>1. PICK q \in Nat : q = Ceiling(a, b) /\ a <= q * b
  BY CeilingCovers
<1>2. q * b < a + b
  <2>1. a + b - 1 \in Nat
    OBVIOUS
  <2>2. ((a + b - 1) \div b) * b <= a + b - 1
    BY <2>1, Division
  <2>3. q * b <= a + b - 1
    BY <1>1, <2>2 DEF Ceiling
  <2>4. q * b \in Nat
    OBVIOUS
  <2> QED
    BY <2>3, <2>4
<1>3. ASSUME a > 0
      PROVE  q > 0 /\ (q - 1) * b < a
  <2>1. q # 0
    BY <1>1, <1>3
  <2>2. (q - 1) * b = q * b - b
    BY Distributes
  <2>3. q * b \in Nat
    OBVIOUS
  <2> QED
    BY <1>2, <2>1, <2>2, <2>3
<1>4. ASSUME NEW r \in Nat, a <= r * b
      PROVE  q <= r
  <2>1. q > r => (r + 1) * b <= q * b
    BY NoLess
  <2>2. (r + 1) * b = r * b + b
    BY Distributes
  <2>3. r * b \in Nat /\ q * b \in Nat
    OBVIOUS
  <2> QED
    BY <1>2, <1>4, <2>1, <2>2, <2>3
<1>5. ASSUME NEW r \in Nat, a > r * b
      PROVE  q > r
  <2>1. q <= r => q * b <= r * b
    BY NoLess
  <2>2. r * b \in Nat /\ q * b \in Nat
    OBVIOUS
  <2> QED
    BY <1>1, <1>5, <2>1, <2>2
<1> QED
  BY <1>1, <1>3, <1>4, <1>5

LEMMA CeilingMoved ==
  ASSUME NEW a \in Nat, NEW n \in Nat, NEW b \in Nat \ {0}
  PROVE  Ceiling(a + n * b, b) = Ceiling(a, b) + n
<1>1. PICK q \in Nat : q = Ceiling(a, b)
  BY CeilingIs
<1>2. PICK m \in Nat : m = n * b
  <2>1. n * b \in Nat
    OBVIOUS
  <2> QED
    BY <2>1
<1>3. PICK c \in Nat, r \in Nat : /\ c = a + m /\ r = Ceiling(c, b) /\ c <= r * b
                                /\ \A p \in Nat : c <= p * b => r <= p
  <2>1. PICK c \in Nat : c = a + m
    OBVIOUS
  <2>2. /\ Ceiling(c, b) \in Nat /\ c <= Ceiling(c, b) * b
        /\ \A p \in Nat : c <= p * b => Ceiling(c, b) <= p
    BY CeilingIs
  <2> QED
    BY <2>1, <2>2
<1>4. (q + n) * b = q * b + m
  BY <1>2, Distributes
<1>5. r <= q + n
  <2>1. a <= q * b
    BY <1>1, CeilingIs
  <2>2. a + m <= (q + n) * b
    BY <1>4, <2>1
  <2>3. q + n \in Nat
    OBVIOUS
  <2> QED
    BY <1>3, <2>2, <2>3
<1>6. q + n <= r
  <2>1. a + m <= r * b
    BY <1>3
  <2>2. r >= n
    <3>1. r < n => (r + 1) * b <= m
      BY <1>2, NoLess
    <3>2. (r + 1) * b = r * b + b
      BY Distributes
    <3>3. r * b \in Nat
      OBVIOUS
    <3> QED
      BY <2>1, <3>1, <3>2, <3>3
  <2>3. PICK p \in Nat : p = r - n
    BY <2>2
  <2>4. r * b = p * b + m
    <3>1. r = p + n
      BY <2>3
    <3> QED
      BY <1>2, <3>1, Distributes
  <2>5. p * b \in Nat
    OBVIOUS
  <2>6. a <= p * b
    BY <2>1, <2>4, <2>5
  <2>7. q <= p
    BY <1>1, <2>6, CeilingIs
  <2> QED
    BY <2>3, <2>7
<1> QED
  BY <1>1, <1>2, <1>3, <1>5, <1>6

\* The extents of a file are numbered from nought.
ExtentWidth == BlocksPerExtent * BlockSize
BlocksIn(file, e) == Least(Wanted(file) - e * BlocksPerExtent, BlocksPerExtent)
RecordsIn(file, e) ==
  Least(Ceiling(Most(Len(file.data) - (e * BlocksPerExtent) * BlockSize, 0), RecordSize),
        (BlocksPerExtent * BlockSize) \div RecordSize)
Recorded(file) == Ceiling(Len(file.data), RecordSize) * RecordSize

LEMMA FileTakes ==
  ASSUME NEW file \in Contents
  PROVE  /\ Len(file.data) \in Nat /\ Wanted(file) \in Nat /\ Extents(file) \in Nat \ {0}
         /\ Len(file.data) <= Wanted(file) * BlockSize
         /\ Wanted(file) <= Extents(file) * BlocksPerExtent
         /\ \A e \in 0..(Extents(file) - 1) :
              e * BlocksPerExtent \in Nat /\ e * BlocksPerExtent <= Wanted(file)
         /\ Len(file.data) > 0 =>
              /\ Wanted(file) > 0 /\ (Wanted(file) - 1) * BlockSize < Len(file.data)
              /\ \A e \in 0..(Extents(file) - 1) : e * BlocksPerExtent < Wanted(file)
<1>1. Len(file.data) \in Nat
  BY DEF Contents
<1>2. BlockSize \in Nat \ {0} /\ BlocksPerExtent \in Nat \ {0}
  BY DisketteAssumption
<1>3. PICK w \in Nat : w = Wanted(file)
  BY <1>1, <1>2, CeilingIs DEF Wanted
<1>4. /\ Len(file.data) <= w * BlockSize
      /\ Len(file.data) > 0 => w > 0 /\ (w - 1) * BlockSize < Len(file.data)
  BY <1>1, <1>2, <1>3, CeilingIs DEF Wanted
<1>5. /\ Ceiling(w, BlocksPerExtent) \in Nat /\ w <= Ceiling(w, BlocksPerExtent) * BlocksPerExtent
      /\ w > 0 => /\ Ceiling(w, BlocksPerExtent) > 0
                  /\ (Ceiling(w, BlocksPerExtent) - 1) * BlocksPerExtent < w
  BY <1>2, CeilingIs
<1>6. PICK x \in Nat \ {0} : /\ x = Extents(file) /\ w <= x * BlocksPerExtent
                             /\ w > 0 => (x - 1) * BlocksPerExtent < w
                             /\ w = 0 => x = 1
  <2>1. CASE w = 0
    <3>1. Extents(file) = 1 /\ 0 <= 1 * BlocksPerExtent
      BY <1>2, <1>3, <2>1 DEF Extents
    <3> QED
      BY <2>1, <3>1
  <2>2. CASE w # 0
    <3>1. Extents(file) = Ceiling(w, BlocksPerExtent) /\ w > 0
      BY <1>3, <2>2 DEF Extents
    <3> QED
      BY <1>5, <2>2, <3>1
  <2> QED
    BY <2>1, <2>2
<1>7. ASSUME NEW e \in 0..(x - 1)
      PROVE  /\ e * BlocksPerExtent \in Nat /\ e * BlocksPerExtent <= w
             /\ w > 0 => e * BlocksPerExtent < w
  <2>1. e \in Nat /\ x - 1 \in Nat /\ e <= x - 1
    OBVIOUS
  <2>2. e * BlocksPerExtent \in Nat /\ (x - 1) * BlocksPerExtent \in Nat
    BY <1>2, <2>1
  <2>3. e * BlocksPerExtent <= (x - 1) * BlocksPerExtent
    BY <1>2, <2>1, NoLess
  <2>4. w = 0 => e * BlocksPerExtent = 0
    <3>1. w = 0 => e = 0
      BY <1>6, <2>1
    <3> QED
      BY <1>2, <3>1
  <2> QED
    BY <1>6, <2>2, <2>3, <2>4
<1> QED
  BY <1>1, <1>3, <1>4, <1>6, <1>7

\* What an extent says of itself.
LEMMA ExtentTakes ==
  ASSUME NEW file \in Contents, NEW e \in 0..(Extents(file) - 1)
  PROVE  BlocksIn(file, e) \in Nat /\ RecordsIn(file, e) \in Nat /\ BlocksIn(file, e) <= BlocksPerExtent
<1>1. /\ BlockSize \in Nat \ {0} /\ BlocksPerExtent \in Nat \ {0} /\ RecordSize \in Nat \ {0}
      /\ BlocksPerExtent * BlockSize \in Nat
  BY DisketteAssumption
<1>2. /\ Wanted(file) \in Nat /\ Len(file.data) \in Nat
      /\ e * BlocksPerExtent \in Nat /\ e * BlocksPerExtent <= Wanted(file)
  BY FileTakes
<1>3. BlocksIn(file, e) \in Nat /\ BlocksIn(file, e) <= BlocksPerExtent
  BY <1>1, <1>2 DEF BlocksIn, Least
<1>4. PICK rest \in Nat : rest = Most(Len(file.data) - (e * BlocksPerExtent) * BlockSize, 0)
  <2>1. (e * BlocksPerExtent) * BlockSize \in Nat
    BY <1>1, <1>2
  <2> QED
    BY <1>2, <2>1 DEF Most
<1>5. Ceiling(rest, RecordSize) \in Nat /\ (BlocksPerExtent * BlockSize) \div RecordSize \in Nat
  BY <1>1, CeilingIs, Division
<1> QED
  BY <1>3, <1>4, <1>5 DEF RecordsIn, Least

\* How much of it is a file's: all but the last are full.
CellsIn(file, e) ==
  IF e + 1 < Extents(file) THEN ExtentWidth ELSE Recorded(file) - (Extents(file) - 1) * ExtentWidth

LEMMA ExtentHolds ==
  ASSUME NEW file \in Contents, Len(file.data) > 0, NEW e \in 0..(Extents(file) - 1)
  PROVE  /\ RecordsIn(file, e) > 0 /\ BlocksIn(file, e) > 0
         /\ CellsIn(file, e) \in Nat /\ CellsIn(file, e) <= BlocksIn(file, e) * BlockSize
         /\ Least(RecordsIn(file, e) * RecordSize, BlocksIn(file, e) * BlockSize) = CellsIn(file, e)
<1>1. PICK bs \in Nat \ {0} : bs = BlockSize
  BY DisketteAssumption
<1>2. PICK rs \in Nat \ {0} : rs = RecordSize /\ bs % rs = 0
  BY <1>1, DisketteAssumption
<1>3. PICK z \in Nat \ {0} : bs = z * rs
  <2>1. PICK q \in Nat : q = bs \div rs
    BY <1>1, <1>2
  <2>2. bs = q * rs
    BY <1>1, <1>2, <2>1
  <2>3. q # 0
    BY <1>1, <1>2, <2>2
  <2>4. q \in Nat \ {0}
    BY <2>3
  <2> QED
    BY <2>2, <2>4
<1>4. PICK bpe \in Nat \ {0} : bpe = BlocksPerExtent
  BY DisketteAssumption
<1>5. PICK per \in Nat \ {0} : per = bpe * z
  <2>1. bpe * z \in Nat \ {0}
    BY <1>3, <1>4
  <2> QED
    BY <2>1
<1>6. PICK p \in Nat \ {0} : p = ExtentWidth /\ p = bpe * bs /\ p = per * rs
  <2>1. bpe * (z * rs) = (bpe * z) * rs /\ bpe * bs \in Nat \ {0}
    BY <1>1, <1>2, <1>3, <1>4
  <2> QED
    BY <1>1, <1>3, <1>4, <1>5, <2>1 DEF ExtentWidth
<1>7. p \div rs = per
  BY <1>2, <1>5, <1>6, WholeBlocks
<1>8. PICK size \in Nat : size = Len(file.data) /\ size > 0
  BY FileTakes
<1>9. PICK w \in Nat : w = Wanted(file) /\ w > 0 /\ size <= w * bs /\ (w - 1) * bs < size
  BY <1>1, <1>8, FileTakes
<1>10. PICK x \in Nat \ {0} : x = Extents(file) /\ w <= x * bpe
  BY <1>4, <1>9, FileTakes
<1>11. PICK first \in Nat : first = e * bpe /\ first < w
  BY <1>4, <1>8, <1>9, FileTakes
<1>12. e \in Nat /\ e <= x - 1
  BY <1>10
<1>13. PICK from \in Nat : from = first * bs /\ from = e * p /\ from = (e * per) * rs
  <2>1. (e * bpe) * bs = e * (bpe * bs) /\ e * (per * rs) = (e * per) * rs
    BY <1>1, <1>2, <1>4, <1>5, <1>12
  <2>2. first * bs \in Nat
    BY <1>1, <1>11
  <2> QED
    BY <1>6, <1>11, <2>1, <2>2
<1>14. from < size
  <2>1. first <= w - 1 /\ w - 1 \in Nat
    BY <1>9, <1>11
  <2>2. first * bs <= (w - 1) * bs
    BY <1>1, <1>11, <2>1, NoLess
  <2>3. (w - 1) * bs \in Nat
    BY <1>1, <2>1
  <2> QED
    BY <1>9, <1>13, <2>2, <2>3
<1>15. PICK rest \in Nat : rest = size - from /\ rest > 0
  <2>1. size - from \in Nat /\ size - from > 0
    BY <1>14
  <2> QED
    BY <2>1
<1>16. PICK c \in Nat : /\ c = Ceiling(rest, rs) /\ rest <= c * rs /\ c > 0
                        /\ \A q \in Nat : rest <= q * rs => c <= q
                        /\ \A q \in Nat : rest > q * rs => c > q
  BY <1>2, <1>15, CeilingIs
<1>17. RecordsIn(file, e) = Least(c, per)
  <2>1. Most(size - from, 0) = rest
    BY <1>15 DEF Most
  <2>2. (e * BlocksPerExtent) * BlockSize = from
    BY <1>1, <1>4, <1>11, <1>13
  <2>3. (BlocksPerExtent * BlockSize) \div RecordSize = per
    BY <1>1, <1>2, <1>4, <1>6, <1>7
  <2> QED
    BY <1>2, <1>8, <1>16, <2>1, <2>2, <2>3 DEF RecordsIn
<1>18. BlocksIn(file, e) = Least(w - first, bpe)
  BY <1>4, <1>9, <1>11 DEF BlocksIn
<1>19. PICK m \in Nat \ {0} : m = BlocksIn(file, e)
  BY <1>4, <1>9, <1>11, <1>18 DEF Least
<1>20. RecordsIn(file, e) > 0
  BY <1>5, <1>16, <1>17 DEF Least
<1>21. CASE e + 1 < x
  <2>1. first + bpe < w
    <3>1. e + 1 \in 0..(x - 1)
      BY <1>12, <1>21
    <3>2. (e + 1) * bpe < w
      BY <1>4, <1>8, <1>9, <1>10, <3>1, FileTakes
    <3>3. (e + 1) * bpe = e * bpe + bpe
      BY <1>4, <1>12, Distributes
    <3> QED
      BY <1>11, <3>2, <3>3
  <2>2. m = bpe
    BY <1>4, <1>11, <1>18, <1>19, <2>1 DEF Least
  <2>3. rest > p
    <3>1. first + bpe <= w - 1 /\ first + bpe \in Nat /\ w - 1 \in Nat
      BY <1>4, <1>9, <1>11, <2>1
    <3>2. (first + bpe) * bs <= (w - 1) * bs
      BY <1>1, <3>1, NoLess
    <3>3. (first + bpe) * bs = from + p
      BY <1>1, <1>4, <1>6, <1>11, <1>13, Distributes
    <3>4. (w - 1) * bs \in Nat
      BY <1>1, <3>1
    <3> QED
      BY <1>6, <1>9, <1>13, <1>15, <3>2, <3>3, <3>4
  <2>4. c > per
    BY <1>5, <1>6, <1>16, <2>3
  <2>5. RecordsIn(file, e) = per
    BY <1>5, <1>16, <1>17, <2>4 DEF Least
  <2>6. CellsIn(file, e) = p
    BY <1>6, <1>10, <1>21 DEF CellsIn
  <2>7. Least(p, p) = p
    BY DEF Least
  <2> QED
    BY <1>1, <1>2, <1>4, <1>6, <1>19, <1>20, <2>2, <2>5, <2>6, <2>7
<1>22. CASE ~(e + 1 < x)
  <2>1. e = x - 1
    BY <1>10, <1>12, <1>22
  <2>2. m = w - first /\ w <= first + bpe
    <3>1. x * bpe = first + bpe
      <4>1. x = e + 1
        BY <1>10, <2>1
      <4>2. (e + 1) * bpe = e * bpe + bpe
        BY <1>4, <1>12, Distributes
      <4> QED
        BY <1>11, <4>1, <4>2
    <3>2. w <= first + bpe
      BY <1>10, <3>1
    <3>3. ~(bpe < w - first)
      BY <3>2
    <3>4. Least(w - first, bpe) = w - first
      BY <3>2 DEF Least
    <3> QED
      BY <1>18, <1>19, <3>2, <3>4
  <2>3. m * bs = w * bs - from
    BY <1>1, <1>9, <1>11, <1>13, <2>2, Distributes
  <2>4. rest <= (m * z) * rs
    <3>1. (m * z) * rs = m * bs
      BY <1>2, <1>3, <1>19
    <3>2. PICK most \in Nat : most = w * bs
      <4>1. w * bs \in Nat
        OBVIOUS
      <4> QED
        BY <4>1
    <3>3. rest <= most - from
      BY <1>9, <1>15, <3>2
    <3> QED
      BY <2>3, <3>1, <3>2, <3>3
  <2>5. c <= m * z
    <3>1. m * z \in Nat
      BY <1>3, <1>19
    <3> QED
      BY <1>16, <2>4, <3>1
  <2>6. m * z <= per
    <3>1. m <= bpe
      BY <1>4, <1>9, <1>11, <2>2
    <3> QED
      BY <1>3, <1>4, <1>5, <1>19, <3>1, NoLess
  <2>7. RecordsIn(file, e) = c
    <3>1. m * z \in Nat
      BY <1>3, <1>19
    <3>2. c <= per
      BY <1>5, <2>5, <2>6, <3>1
    <3> QED
      BY <1>5, <1>17, <3>2 DEF Least
  <2>8. c * rs <= m * bs
    <3>1. m * z \in Nat
      BY <1>3, <1>19
    <3>2. c * rs <= (m * z) * rs
      BY <1>2, <2>5, <3>1, NoLess
    <3>3. (m * z) * rs = m * bs
      BY <1>2, <1>3, <1>19
    <3> QED
      BY <3>2, <3>3
  <2>9. CellsIn(file, e) = c * rs
    <3>1. PICK k \in Nat : k = e * per
      <4>1. e * per \in Nat
        BY <1>5, <1>12
      <4> QED
        BY <4>1
    <3>2. Ceiling(rest + k * rs, rs) = c + k
      BY <1>2, <1>16, CeilingMoved
    <3>3. rest + k * rs = size
      BY <1>13, <1>15, <3>1
    <3>4. Recorded(file) = (c + k) * rs
      BY <1>2, <1>8, <3>2, <3>3 DEF Recorded
    <3>5. (c + k) * rs = c * rs + k * rs
      BY <1>2, Distributes
    <3>6. k * rs = (x - 1) * p
      BY <1>13, <2>1, <3>1
    <3>7. c * rs \in Nat /\ k * rs \in Nat
      BY <1>2
    <3>8. CellsIn(file, e) = Recorded(file) - (x - 1) * p
      BY <1>6, <1>10, <1>22 DEF CellsIn
    <3> QED
      BY <3>4, <3>5, <3>6, <3>7, <3>8
  <2>10. c * rs \in Nat /\ m * bs \in Nat
    BY <1>1, <1>2, <1>19
  <2>11. Least(c * rs, m * bs) = c * rs
    BY <2>8, <2>10 DEF Least
  <2> QED
    BY <1>1, <1>2, <1>19, <1>20, <2>7, <2>8, <2>9, <2>10, <2>11
<1> QED
  BY <1>10, <1>12, <1>21, <1>22

-----------------------------------------------------------------------------
\* Where a file lies: its entries from the one after k on, its cells after d blocks.
EntryOf(file, d, e) ==
  [entry |-> file.name, number |-> e - 1, records |-> RecordsIn(file, e - 1),
   blocks |-> [i \in 1..BlocksIn(file, e - 1) |->
                 geometry.dirBlocks + d + (e - 1) * BlocksPerExtent + i - 1]]

FileLies(file, k, d) ==
  /\ k + Extents(file) <= Len(directory)
  /\ \A e \in 1..Extents(file) : directory[k + e] = EntryOf(file, d, e)
  /\ (d + Wanted(file)) * BlockSize <= Len(data)
  /\ \A j \in 1..(Wanted(file) * BlockSize) :
       data[d * BlockSize + j] = Filled(file.data, Wanted(file) * BlockSize)[j]

\* Every file lies somewhere, and every entry is some file's.
FilesLieAt(starts, bases) ==
  /\ starts \in [1..Len(filed) -> Nat] /\ bases \in [1..Len(filed) -> Nat]
  /\ \A i \in 1..Len(filed) : FileLies(filed[i], starts[i], bases[i])
  /\ \A x \in 1..Len(directory) :
       \E i \in 1..Len(filed) : \E e \in 1..Extents(filed[i]) : x = starts[i] + e

DiskHolds ==
  /\ DiskOK
  /\ filed \in Seq(Contents)
  /\ directory \in Seq(Entries) /\ Len(directory) <= EntriesOf(geometry)
  /\ filed # <<>> => DirectorySize + Len(data) <= AreaOf(geometry)
  /\ \E starts, bases : FilesLieAt(starts, bases)
  /\ image = <<>> => spoilt = {}
  /\ image # <<>> => DOMAIN image = 1..Tracks
  /\ filed # <<>> /\ image # <<>> => ImageOK

LEMMA HoldsWithin ==
  ASSUME DiskHolds, filed # <<>>
  PROVE  WithinTheDisk
BY DEF DiskHolds, DiskOK, WithinTheDisk

LEMMA BlankHolds ==
  ASSUME NEW g \in Geometries, BlankDisk(g)
  PROVE  DiskHolds
<1>1. geometry = g /\ directory = <<>> /\ filed = <<>> /\ image = <<>> /\ spoilt = {}
  BY DEF BlankDisk
<1>2. DiskOK
  BY BlankIsOwned
<1>3. directory \in Seq(Entries) /\ Len(directory) = 0 /\ filed \in Seq(Contents) /\ Len(filed) = 0
  BY <1>1
<1>4. EntriesOf(geometry) \in Nat
  BY <1>1, DiskSizes
<1>5. FilesLieAt(<<>>, <<>>)
  <2>1. <<>> \in [1..0 -> Nat] /\ 1..0 = {}
    OBVIOUS
  <2> QED
    BY <1>3, <2>1 DEF FilesLieAt
<1> QED
  BY <1>1, <1>2, <1>3, <1>4, <1>5 DEF DiskHolds

\* What lies stays where it is when more is put after it.
LEMMA FileStays ==
  ASSUME NEW file \in Contents, NEW k \in Nat, NEW d \in Nat, FileLies(file, k, d),
         directory \in Seq(Entries), data \in Seq(FileCells \cup {Filler}), geometry' = geometry,
         NEW more \in Seq(Entries), directory' = directory \o more,
         NEW cells \in Seq(FileCells \cup {Filler}), data' = data \o cells
  PROVE  FileLies(file, k, d)'
<1>1. PICK x \in Nat : x = Extents(file)
  BY FileTakes
<1>2. PICK w \in Nat : w = Wanted(file) /\ w * BlockSize \in Nat
  <2>1. Wanted(file) \in Nat /\ BlockSize \in Nat
    BY FileTakes, DisketteAssumption
  <2> QED
    BY <2>1
<1>3. /\ Len(directory) \in Nat /\ Len(directory') = Len(directory) + Len(more) /\ Len(more) \in Nat
      /\ \A i \in 1..Len(directory) : directory'[i] = directory[i]
  <2>1. Joined(directory \o more, directory, more)
    BY JoinedIs
  <2> QED
    BY <2>1 DEF Joined
<1>4. /\ Len(data) \in Nat /\ Len(data') = Len(data) + Len(cells) /\ Len(cells) \in Nat
      /\ \A i \in 1..Len(data) : data'[i] = data[i]
  <2>1. Joined(data \o cells, data, cells)
    BY JoinedIs
  <2> QED
    BY <2>1 DEF Joined
<1>5. \A e \in 1..x : EntryOf(file, d, e)' = EntryOf(file, d, e)
  BY DEF EntryOf
<1>6. k + x <= Len(directory) /\ \A e \in 1..x : directory[k + e] = EntryOf(file, d, e)
  BY <1>1 DEF FileLies
<1>7. k + x <= Len(directory') /\ \A e \in 1..x : directory'[k + e] = EntryOf(file, d, e)'
  <2>1. \A e \in 1..x : k + e \in 1..Len(directory)
    BY <1>3, <1>6
  <2> QED
    BY <1>3, <1>5, <1>6, <2>1
<1>8. PICK from \in Nat, size \in Nat : from = d * BlockSize /\ size = w * BlockSize
  <2>1. d * BlockSize \in Nat
    BY DisketteAssumption
  <2> QED
    BY <1>2, <2>1
<1>9. (d + w) * BlockSize = from + size
  <2>1. BlockSize \in Nat
    BY DisketteAssumption
  <2> QED
    BY <1>8, <2>1, Distributes
<1>10. /\ from + size <= Len(data)
       /\ \A j \in 1..size : data[from + j] = Filled(file.data, Wanted(file) * BlockSize)[j]
  BY <1>2, <1>8, <1>9 DEF FileLies
<1>11. /\ from + size <= Len(data')
       /\ \A j \in 1..size : data'[from + j] = Filled(file.data, Wanted(file) * BlockSize)[j]
  <2>1. \A j \in 1..size : from + j \in 1..Len(data)
    BY <1>4, <1>10
  <2> QED
    BY <1>4, <1>10, <2>1
<1> QED
  BY <1>1, <1>2, <1>7, <1>8, <1>9, <1>11 DEF FileLies

\* The entries a file is given, and where the next file will lie.
LEMMA ExtentIsEntry ==
  ASSUME DiskOK, NEW file \in Contents, NEW e \in 1..Extents(file),
         NEW n \in Nat, Len(data) = n * BlockSize
  PROVE  Extent(file, e - 1) = EntryOf(file, n, e) /\ EntryOf(file, n, e) \in Entries
<1>1. e - 1 \in 0..(Extents(file) - 1) /\ e - 1 \in Nat
  BY FileTakes
<1>2. BlocksIn(file, e - 1) \in Nat /\ RecordsIn(file, e - 1) \in Nat
  BY <1>1, ExtentTakes
<1>3. PICK first \in Nat : first = (e - 1) * BlocksPerExtent
  BY <1>1, FileTakes
<1>4. geometry.dirBlocks \in Nat /\ NextBlock = geometry.dirBlocks + n
  BY NextBlockIs, Sizes DEF DiskOK
<1>5. PICK m \in Nat : m = BlocksIn(file, e - 1)
  BY <1>2
<1>6. PICK next \in Nat : next = geometry.dirBlocks + n /\ next = NextBlock
  BY <1>4
<1>7. PICK blocks : blocks = [i \in 1..m |-> next + first + i - 1]
  OBVIOUS
<1>8. blocks \in Seq(Nat)
  BY <1>7
<1>9. EntryOf(file, n, e) =
        [entry |-> file.name, number |-> e - 1, records |-> RecordsIn(file, e - 1), blocks |-> blocks]
  BY <1>3, <1>5, <1>6, <1>7 DEF EntryOf
<1>10. Extent(file, e - 1) =
         [entry |-> file.name, number |-> e - 1, records |-> RecordsIn(file, e - 1), blocks |-> blocks]
  <2>1. m = Least(Wanted(file) - first, BlocksPerExtent)
    BY <1>3, <1>5 DEF BlocksIn
  <2> QED
    BY <1>3, <1>6, <1>7, <2>1 DEF Extent, RecordsIn
<1>11. file.name \in FileNames
  BY DEF Contents
<1> QED
  BY <1>1, <1>2, <1>8, <1>9, <1>10, <1>11 DEF Entries

\* A file that is put on a disk lies after the others.
LEMMA FileIsPut ==
  ASSUME DiskHolds, NEW file \in Contents, PutFile(file), refusal' = "no",
         NEW n \in Nat, Len(data) = n * BlockSize, NEW after \in Nat, after = Len(directory)
  PROVE  /\ directory' \in Seq(Entries) /\ Len(directory') = after + Extents(file)
         /\ FileLies(file, after, n)'
         /\ \A k, d \in Nat : \A other \in Contents : FileLies(other, k, d) => FileLies(other, k, d)'
<1>1. PICK x \in Nat : x = Extents(file)
  BY FileTakes
<1>2. PICK more : more = [e \in 1..x |-> Extent(file, e - 1)]
  OBVIOUS
<1>3. more \in Seq(Entries) /\ Len(more) = x /\ \A e \in 1..x : more[e] = EntryOf(file, n, e)
  <2>1. \A e \in 1..x : Extent(file, e - 1) = EntryOf(file, n, e) /\ EntryOf(file, n, e) \in Entries
    BY <1>1, ExtentIsEntry DEF DiskHolds
  <2>2. \A e \in 1..x : more[e] = EntryOf(file, n, e) /\ more[e] \in Entries
    BY <1>2, <2>1
  <2>3. more \in [1..x -> Entries]
    BY <1>2, <2>2
  <2>4. more \in Seq(Entries) /\ Len(more) = x
    BY <2>3
  <2> QED
    BY <2>2, <2>4
<1>4. PICK size \in Nat : size = Wanted(file) * BlockSize
  <2>1. Wanted(file) \in Nat /\ BlockSize \in Nat
    BY FileTakes, DisketteAssumption
  <2>2. Wanted(file) * BlockSize \in Nat
    BY <2>1
  <2> QED
    BY <2>2
<1>5. PICK cells : cells = Filled(file.data, size)
  OBVIOUS
<1>6. cells \in Seq(FileCells \cup {Filler}) /\ Len(cells) = size
  BY <1>4, <1>5, FilledCells
<1>7. geometry' = geometry /\ directory' = directory \o more /\ data' = data \o cells
  BY <1>1, <1>2, <1>4, <1>5 DEF PutFile
<1>8. directory \in Seq(Entries) /\ data \in Seq(FileCells \cup {Filler})
  BY DEF DiskHolds, DiskOK
<1>9. /\ directory' \in Seq(Entries) /\ Len(directory') = Len(directory) + x /\ Len(directory) \in Nat
      /\ \A e \in 1..x : directory'[Len(directory) + e] = more[e]
  <2>1. directory \o more \in Seq(Entries) /\ Joined(directory \o more, directory, more)
    BY <1>3, <1>8, JoinedIs
  <2> QED
    BY <1>3, <1>7, <1>8, <2>1 DEF Joined
<1>10. /\ Len(data') = Len(data) + size
       /\ \A j \in 1..size : data'[Len(data) + j] = cells[j]
  <2>1. Joined(data \o cells, data, cells)
    BY <1>6, <1>8, JoinedIs
  <2> QED
    BY <1>6, <1>7, <2>1 DEF Joined
<1>11. FileLies(file, after, n)'
  <2>1. \A e \in 1..x : EntryOf(file, n, e)' = EntryOf(file, n, e)
    BY <1>7 DEF EntryOf
  <2>2. (n + Wanted(file)) * BlockSize = Len(data) + size
    <3>1. Wanted(file) \in Nat /\ BlockSize \in Nat
      BY FileTakes, DisketteAssumption
    <3> QED
      BY <1>4, <3>1, Distributes
  <2>3. after + x <= Len(directory')
    BY <1>9
  <2>4. \A e \in 1..x : directory'[after + e] = EntryOf(file, n, e)'
    BY <1>3, <1>9, <2>1
  <2>5. \A j \in 1..size : data'[n * BlockSize + j] = Filled(file.data, Wanted(file) * BlockSize)[j]
    BY <1>4, <1>5, <1>10
  <2> QED
    BY <1>1, <1>4, <1>10, <2>2, <2>3, <2>4, <2>5 DEF FileLies
<1>12. ASSUME NEW k \in Nat, NEW d \in Nat, NEW other \in Contents, FileLies(other, k, d)
       PROVE  FileLies(other, k, d)'
  BY <1>3, <1>6, <1>7, <1>8, <1>12, FileStays
<1> QED
  BY <1>1, <1>9, <1>11, <1>12

\* There is room for what is put.
LEMMA RoomForIt ==
  ASSUME DiskHolds, NEW file \in Contents, PutFile(file), refusal' = "no"
  PROVE  Len(directory') <= EntriesOf(geometry) /\ DirectorySize + Len(data') <= AreaOf(geometry)
<1>1. PICK n \in Nat : Len(data) = n * BlockSize
  BY DEF DiskHolds, DiskOK
<1>2. PICK b \in Nat \ {0} : b = BlockSize
  BY DisketteAssumption
<1>3. PICK w \in Nat : w = Wanted(file)
  BY FileTakes
<1>4. PICK g \in Nat : g = geometry.dirBlocks
  BY Sizes DEF DiskHolds, DiskOK
<1>5. /\ Len(directory) + Extents(file) <= EntriesOf(geometry)
      /\ NextBlock + w <= Blocks
  <2>1. NextBlock + w \in Nat
    BY <1>1, <1>3, <1>4, NextBlockIs DEF DiskHolds, DiskOK
  <2>2. PICK area \in Nat : area = AreaOf(geometry)
    <3>1. /\ TrackWidth \in Nat /\ Tracks \in Nat \ {0}
          /\ AreaOf(geometry) = (Tracks - geometry.reserved) * TrackWidth
      BY DiskSizes DEF DiskHolds, DiskOK
    <3>2. geometry.reserved \in {0, 1}
      BY DEF DiskHolds, DiskOK, Geometries, Plus3Geometry, DataGeometry
    <3>3. Tracks - geometry.reserved \in Nat
      BY <3>1, <3>2
    <3>4. (Tracks - geometry.reserved) * TrackWidth \in Nat
      BY <3>1, <3>3
    <3> QED
      BY <3>1, <3>4
  <2>3. Blocks \in Nat
    BY <1>2, <2>2, Division DEF Blocks
  <2>4. Len(directory) + Extents(file) \in Nat /\ EntriesOf(geometry) \in Nat
    <3>1. Extents(file) \in Nat
      BY FileTakes
    <3>2. directory \in Seq(Entries) /\ geometry \in Geometries
      BY DEF DiskHolds, DiskOK
    <3>3. EntriesOf(geometry) \in Nat
      BY <3>2, DiskSizes
    <3> QED
      BY <3>1, <3>2, <3>3
  <2>5. RefusalOf(file) = "no"
    BY DEF PutFile
  <2>6. ~(NextBlock + w > Blocks) /\ ~(Len(directory) + Extents(file) > EntriesOf(geometry))
    BY <1>3, <2>5 DEF RefusalOf
  <2> QED
    BY <2>1, <2>3, <2>4, <2>6
<1>6. NextBlock = g + n
  BY <1>1, <1>4, NextBlockIs DEF DiskHolds, DiskOK
<1>7. PICK area \in Int : area = AreaOf(geometry) /\ Blocks = area \div b
  <2>1. geometry \in Geometries
    BY DEF DiskHolds, DiskOK
  <2>2. AreaOf(geometry) \in Int
    BY <2>1, DiskSizes
  <2> QED
    BY <1>2, <2>2 DEF Blocks
<1>8. (g + n + w) * b <= area
  <2>1. PICK q \in Int : q = area \div b
    BY <1>2
  <2>2. q * b <= area
    BY <1>2, <1>7, <2>1
  <2>3. g + n + w <= q
    BY <1>5, <1>6, <1>7, <2>1
  <2>4. q \in Nat
    BY <2>3
  <2>5. (g + n + w) * b <= q * b
    <3>1. g + n + w \in Nat
      OBVIOUS
    <3> QED
      BY <1>2, <2>3, <2>4, <3>1, NoLess
  <2>6. (g + n + w) * b \in Nat /\ q * b \in Nat
    BY <1>2, <2>4
  <2> QED
    BY <2>2, <2>5, <2>6
<1>9. Len(directory') = Len(directory) + Extents(file)
  <2>1. PICK after \in Nat : after = Len(directory)
    BY DEF DiskHolds
  <2>2. Len(directory') = after + Extents(file)
    BY <1>1, <2>1, FileIsPut
  <2> QED
    BY <2>1, <2>2
<1>10. Len(data') = n * b + w * b
  <2>1. PICK cells : /\ cells = Filled(file.data, Wanted(file) * BlockSize)
                     /\ cells \in Seq(FileCells \cup {Filler}) /\ Len(cells) = w * b
    BY <1>2, <1>3, FilledCells
  <2>2. data' = data \o cells /\ data \in Seq(FileCells \cup {Filler})
    BY <2>1 DEF PutFile, DiskHolds, DiskOK
  <2>3. Joined(data \o cells, data, cells)
    BY <2>1, <2>2, JoinedIs
  <2> QED
    BY <1>1, <1>2, <2>1, <2>2, <2>3 DEF Joined
<1>11. (g + n + w) * b = g * b + (n * b + w * b)
  <2>1. (g + n) * b = g * b + n * b
    BY <1>2, Distributes
  <2>2. g + n \in Int
    OBVIOUS
  <2>3. ((g + n) + w) * b = (g + n) * b + w * b
    BY <1>2, <2>2, Distributes
  <2>4. g * b \in Int /\ n * b \in Int /\ w * b \in Int
    BY <1>2
  <2> QED
    BY <2>1, <2>3, <2>4
<1>12. DirectorySize = g * b
  BY <1>2, <1>4 DEF DirectorySize
<1> QED
  BY <1>5, <1>7, <1>8, <1>9, <1>10, <1>11, <1>12

\* Putting a file on a disk, or its refusal.
LEMMA PutFileHolds ==
  ASSUME DiskHolds, NEW file \in Contents, PutFile(file)
  PROVE  DiskHolds'
<1>1. image = <<>> /\ image' = <<>> /\ spoilt' = spoilt /\ spoilt = {} /\ geometry' = geometry
  BY DEF PutFile, DiskHolds
<1>2. CASE refusal' # "no"
  <2>1. UNCHANGED <<geometry, directory, data, filed>>
    BY <1>2 DEF PutFile
  <2>2. DiskOK'
    BY <2>1 DEF DiskHolds, DiskOK, BlocksAreOwned, NextBlock
  <2>3. \A starts, bases : FilesLieAt(starts, bases) => FilesLieAt(starts, bases)'
    BY <2>1 DEF FilesLieAt, FileLies, EntryOf
  <2> QED
    BY <1>1, <2>1, <2>2, <2>3 DEF DiskHolds, DirectorySize
<1>3. CASE refusal' = "no"
  <2>1. PICK n \in Nat : Len(data) = n * BlockSize
    BY DEF DiskHolds, DiskOK
  <2>2. PICK after \in Nat : after = Len(directory)
    BY DEF DiskHolds
  <2>3. /\ directory' \in Seq(Entries) /\ Len(directory') = after + Extents(file)
        /\ FileLies(file, after, n)'
        /\ \A k, d \in Nat : \A other \in Contents : FileLies(other, k, d) => FileLies(other, k, d)'
    BY <1>3, <2>1, <2>2, FileIsPut
  <2>4. PICK m \in Nat : m = Len(filed)
    BY DEF DiskHolds
  <2>5. filed' = Append(filed, file) /\ filed \in Seq(Contents)
    BY <1>3 DEF PutFile, DiskHolds
  <2>6. /\ filed' \in Seq(Contents) /\ Len(filed') = m + 1
        /\ \A i \in 1..m : filed'[i] = filed[i]
        /\ filed'[m + 1] = file
    BY <2>4, <2>5
  <2>7. PICK starts, bases : FilesLieAt(starts, bases)
    BY DEF DiskHolds
  <2>8. PICK s, b : /\ s = [i \in 1..(m + 1) |-> IF i = m + 1 THEN after ELSE starts[i]]
                    /\ b = [i \in 1..(m + 1) |-> IF i = m + 1 THEN n ELSE bases[i]]
    OBVIOUS
  <2>9. /\ s \in [1..(m + 1) -> Nat] /\ b \in [1..(m + 1) -> Nat]
        /\ \A i \in 1..m : s[i] = starts[i] /\ b[i] = bases[i] /\ starts[i] \in Nat /\ bases[i] \in Nat
        /\ s[m + 1] = after /\ b[m + 1] = n
    <3>1. starts \in [1..m -> Nat] /\ bases \in [1..m -> Nat]
      BY <2>4, <2>7 DEF FilesLieAt
    <3>2. \A i \in 1..m : i \in 1..(m + 1) /\ i # m + 1 /\ starts[i] \in Nat /\ bases[i] \in Nat
      BY <3>1
    <3>3. m + 1 \in 1..(m + 1)
      OBVIOUS
    <3>4. \A i \in 1..(m + 1) : s[i] \in Nat /\ b[i] \in Nat
      BY <2>8, <3>1
    <3> QED
      BY <2>8, <3>2, <3>3, <3>4
  <2>10. ASSUME NEW i \in 1..(m + 1)
         PROVE  \E other \in Contents : other = filed'[i] /\ FileLies(other, s[i], b[i])'
    <3>1. CASE i = m + 1
      <4>1. FileLies(file, s[i], b[i])'
        BY <2>3, <2>9, <3>1
      <4> QED
        BY <2>6, <3>1, <4>1
    <3>2. CASE i # m + 1
      <4>1. i \in 1..m
        BY <3>2
      <4>2. PICK other \in Contents : other = filed[i]
        BY <2>4, <2>5, <4>1
      <4>3. FileLies(other, starts[i], bases[i])
        BY <2>4, <2>7, <4>1, <4>2 DEF FilesLieAt
      <4>4. FileLies(other, starts[i], bases[i])'
        BY <2>3, <2>9, <4>1, <4>3
      <4>5. filed'[i] = other /\ s[i] = starts[i] /\ b[i] = bases[i]
        BY <2>6, <2>9, <4>1, <4>2
      <4>6. FileLies(other, s[i], b[i])'
        BY <4>4, <4>5
      <4> QED
        BY <4>5, <4>6
    <3> QED
      BY <3>1, <3>2
  <2>11. ASSUME NEW x \in 1..Len(directory')
         PROVE  \E i \in 1..(m + 1) : \E e \in 1..Extents(filed'[i]) : x = s[i] + e
    <3>1. Extents(file) \in Nat /\ x \in Nat /\ x > 0 /\ x <= after + Extents(file)
      <4>1. Extents(file) \in Nat
        BY FileTakes
      <4> QED
        BY <2>2, <2>3, <4>1
    <3>2. CASE x <= after
      <4>1. x \in 1..Len(directory)
        BY <2>2, <2>3, <3>1, <3>2
      <4>2. PICK i \in 1..m : \E e \in 1..Extents(filed[i]) : x = starts[i] + e
        BY <2>4, <2>7, <4>1 DEF FilesLieAt
      <4>3. i \in 1..(m + 1) /\ filed'[i] = filed[i] /\ s[i] = starts[i]
        BY <2>6, <2>9
      <4> QED
        BY <4>2, <4>3
    <3>3. CASE x > after
      <4>1. PICK e \in 1..Extents(file) : x = after + e
        <5>1. PICK e \in Nat : e = x - after /\ e > 0
          BY <2>2, <3>1, <3>3
        <5>2. e \in 1..Extents(file) /\ x = after + e
          BY <2>2, <3>1, <5>1
        <5> QED
          BY <5>2
      <4>2. PICK i \in 1..(m + 1) : i = m + 1
        OBVIOUS
      <4>3. filed'[i] = file /\ s[i] = after
        BY <2>6, <2>9, <4>2
      <4> QED
        BY <4>1, <4>3
    <3>4. x <= after \/ x > after
      BY <2>2, <3>1
    <3> QED
      BY <3>2, <3>3, <3>4
  <2>12. FilesLieAt(s, b)'
    BY <2>6, <2>9, <2>10, <2>11 DEF FilesLieAt
  <2>13. DiskOK'
    BY <1>3, PutFileKeeps DEF DiskHolds
  <2>14. Len(directory') <= EntriesOf(geometry) /\ DirectorySize + Len(data') <= AreaOf(geometry)
    BY <1>3, RoomForIt
  <2>15. Len(directory') <= EntriesOf(geometry') /\ DirectorySize' + Len(data') <= AreaOf(geometry')
    BY <1>1, <2>14 DEF DirectorySize
  <2> QED
    BY <1>1, <2>3, <2>6, <2>12, <2>13, <2>15 DEF DiskHolds
<1> QED
  BY <1>2, <1>3

-----------------------------------------------------------------------------
\* The image, as it is made and as it wears: what was put on the disk stands.
LEMMA StandsBehind ==
  ASSUME DiskHolds, UNCHANGED <<geometry, directory, data, filed>>, DOMAIN image' = 1..Tracks,
         filed # <<>> => ImageOK'
  PROVE  DiskHolds'
<1>1. DiskOK'
  BY DEF DiskHolds, DiskOK, BlocksAreOwned, NextBlock
<1>2. \A starts, bases : FilesLieAt(starts, bases) => FilesLieAt(starts, bases)'
  BY DEF FilesLieAt, FileLies, EntryOf
<1>3. image' # <<>>
  <2>1. 1 \in DOMAIN image'
    BY DisketteAssumption
  <2>2. DOMAIN <<>> = {}
    OBVIOUS
  <2> QED
    BY <2>1, <2>2
<1> QED
  BY <1>1, <1>2, <1>3 DEF DiskHolds, DirectorySize

LEMMA TracksStand ==
  ASSUME UNCHANGED <<geometry, directory, data>>
  PROVE  \A t \in 1..Tracks : TrackCells(t)' = TrackCells(t)
BY DEF TrackCells, Area, Specification

\* A sector's cells.
LEMMA SectorIs ==
  ASSUME WithinTheDisk, NEW t \in 1..Tracks, NEW s \in 1..SectorsPerTrack
  PROVE  /\ SubSeq(TrackCells(t), (s - 1) * SectorSize + 1, s * SectorSize) \in Seq(DiskCells)
         /\ Len(SubSeq(TrackCells(t), (s - 1) * SectorSize + 1, s * SectorSize)) = SectorSize
<1>1. SectorSize \in Nat \ {0} /\ SectorsPerTrack \in Nat \ {0}
  BY DisketteAssumption
<1>2. PICK cells \in Seq(DiskCells) : cells = TrackCells(t) /\ Len(cells) = SectorsPerTrack * SectorSize
  BY TrackIs DEF TrackWidth
<1>3. PICK a \in Nat : a = (s - 1) * SectorSize
  <2>1. s - 1 \in Nat
    OBVIOUS
  <2>2. (s - 1) * SectorSize \in Nat
    BY <1>1, <2>1
  <2> QED
    BY <2>2
<1>4. a + SectorSize = s * SectorSize
  BY <1>1, <1>3, Distributes
<1>5. s * SectorSize <= SectorsPerTrack * SectorSize
  BY <1>1, NoLess
<1>6. a + SectorSize <= Len(cells)
  BY <1>2, <1>4, <1>5
<1>7. PieceOf(SubSeq(cells, a + 1, a + SectorSize), DiskCells, cells, a, SectorSize)
  BY <1>1, <1>6, SubSeqIs
<1> QED
  BY <1>2, <1>3, <1>4, <1>7 DEF PieceOf

LEMMA CloseDiskHolds ==
  ASSUME DiskHolds, CloseDisk
  PROVE  DiskHolds'
<1>1. /\ UNCHANGED <<geometry, directory, data, filed>>
      /\ image' = DataImage /\ spoilt' = {}
  BY DEF CloseDisk, DiskHolds
<1>2. SectorsPerTrack \in Nat \ {0} /\ Tracks \in Nat \ {0}
  BY DisketteAssumption
<1>3. PICK p : p = [s \in 1..SectorsPerTrack |-> s]
  OBVIOUS
<1>4. Permutes(p, SectorsPerTrack)
  BY <1>3 DEF Permutes
<1>5. ASSUME filed # <<>>, NEW t \in 1..Tracks
      PROVE  SoundTrack(t)'
  <2>1. PICK track : track = image'[t]
    OBVIOUS
  <2>2. track = [s \in 1..SectorsPerTrack |->
                   [id |-> geometry.firstID + s - 1,
                    cells |-> SubSeq(TrackCells(t), (s - 1) * SectorSize + 1, s * SectorSize)]]
    BY <1>1, <2>1 DEF DataImage
  <2>3. geometry.firstID \in Nat
    BY <1>5, HoldsWithin, DiskSizes DEF WithinTheDisk
  <2>4. \A s \in 1..SectorsPerTrack : track[s] \in Sectors
    <3>1. \A s \in 1..SectorsPerTrack :
            SubSeq(TrackCells(t), (s - 1) * SectorSize + 1, s * SectorSize) \in Seq(DiskCells)
      BY <1>5, HoldsWithin, SectorIs
    <3>2. \A s \in 1..SectorsPerTrack : geometry.firstID + s - 1 \in Int
      BY <2>3
    <3> QED
      BY <2>2, <3>1, <3>2 DEF Sectors
  <2>5. track \in [1..SectorsPerTrack -> Sectors]
    BY <2>2, <2>4
  <2>6. Holds(track, p, SectorsPerTrack, geometry.firstID, TrackCells(t), SectorSize)
    BY <1>3, <2>2 DEF Holds
  <2>7. geometry'.firstID = geometry.firstID /\ TrackCells(t)' = TrackCells(t)
    BY <1>1, TracksStand
  <2> QED
    BY <1>4, <2>1, <2>5, <2>6, <2>7 DEF SoundTrack
<1>6. DOMAIN image' = 1..Tracks
  BY <1>1 DEF DataImage
<1>7. filed # <<>> => ImageOK'
  BY <1>1, <1>5, <1>6 DEF ImageOK
<1> QED
  BY <1>1, <1>6, <1>7, StandsBehind

\* The other tracks are what they were.
LEMMA OtherTracks ==
  ASSUME DiskHolds, filed # <<>>, image # <<>>, UNCHANGED <<geometry, directory, data>>,
         NEW t \in 1..Tracks, NEW u \in 1..Tracks, u # t, image'[u] = image[u],
         spoilt' \in {spoilt, spoilt \cup {t}}
  PROVE  IF u \in spoilt' THEN SpoiltTrack(u)' ELSE SoundTrack(u)'
<1>1. IF u \in spoilt THEN SpoiltTrack(u) ELSE SoundTrack(u)
  BY DEF DiskHolds, ImageOK
<1>2. u \in spoilt' <=> u \in spoilt
  OBVIOUS
<1>3. TrackCells(u)' = TrackCells(u)
  BY TracksStand
<1> QED
  BY <1>1, <1>2, <1>3 DEF SoundTrack, SpoiltTrack

LEMMA TurnHolds ==
  ASSUME DiskHolds, NEW t \in 1..Tracks, Turn(t)
  PROVE  DiskHolds'
<1>1. UNCHANGED <<geometry, directory, data, filed, spoilt>> /\ image # <<>> /\ t \notin spoilt
  BY DEF Turn
<1>2. PICK n \in Nat \ {0} : n = SectorsPerTrack
  BY DisketteAssumption
<1>3. DOMAIN image' = DOMAIN image /\ \A u \in DOMAIN image : u # t => image'[u] = image[u]
  BY DEF Turn
<1>4. ASSUME filed # <<>>
      PROVE  ImageOK'
  <2>1. DOMAIN image = 1..Tracks
    BY <1>1, <1>4 DEF DiskHolds, ImageOK
  <2>2. PICK track \in [1..n -> Sectors] : track = image[t]
    BY <1>1, <1>2, <1>4 DEF DiskHolds, ImageOK, SoundTrack
  <2>3. PICK p : Permutes(p, n) /\ Holds(track, p, n, geometry.firstID, TrackCells(t), SectorSize)
    BY <1>1, <1>2, <1>4, <2>2 DEF DiskHolds, ImageOK, SoundTrack
  <2>4. PICK r : r = [s \in 1..n |-> IF s = n THEN 1 ELSE s + 1]
    OBVIOUS
  <2>5. \A s \in 1..n : (s % n) + 1 = r[s] /\ r[s] \in 1..n
    <3>1. ASSUME NEW s \in 1..n
          PROVE  (s % n) + 1 = r[s] /\ r[s] \in 1..n
      <4>1. (s % n) + 1 = IF s = n THEN 1 ELSE s + 1
        BY <1>2, NextSector
      <4>2. r[s] = IF s = n THEN 1 ELSE s + 1
        BY <2>4
      <4>3. r[s] \in 1..n
        BY <1>2, <4>2
      <4> QED
        BY <4>1, <4>2, <4>3
    <3> QED
      BY <3>1
  <2>6. PICK q : q = [s \in 1..n |-> p[r[s]]]
    OBVIOUS
  <2>7. Permutes(q, n)
    <3>1. Turned(q, p, n)
      BY <2>4, <2>6 DEF Turned
    <3> QED
      BY <1>2, <2>3, <3>1, TurnedPermutes
  <2>8. PICK turned : turned = image'[t]
    OBVIOUS
  <2>9. turned = [s \in 1..n |-> track[(s % n) + 1]]
    BY <1>2, <2>1, <2>2, <2>8 DEF Turn
  <2>10. turned \in [1..n -> Sectors] /\ \A s \in 1..n : turned[s] = track[r[s]]
    BY <2>5, <2>9
  <2>11. Holds(turned, q, n, geometry.firstID, TrackCells(t), SectorSize)
    <3>1. \A s \in 1..n : /\ track[s].id = geometry.firstID + p[s] - 1
                          /\ track[s].cells = SubSeq(TrackCells(t), (p[s] - 1) * SectorSize + 1,
                                                     p[s] * SectorSize)
      BY <2>3 DEF Holds
    <3>2. \A s \in 1..n : q[s] = p[r[s]]
      BY <2>6
    <3>3. ASSUME NEW s \in 1..n
          PROVE  /\ turned[s].id = geometry.firstID + q[s] - 1
                 /\ turned[s].cells = SubSeq(TrackCells(t), (q[s] - 1) * SectorSize + 1, q[s] * SectorSize)
      <4>1. PICK from \in 1..n : from = r[s] /\ q[s] = p[from] /\ turned[s] = track[from]
        BY <2>5, <2>10, <3>2
      <4> QED
        BY <3>1, <4>1
    <3> QED
      BY <2>10, <3>3 DEF Holds
  <2>12. geometry'.firstID = geometry.firstID /\ TrackCells(t)' = TrackCells(t)
    BY <1>1, TracksStand
  <2>13. SoundTrack(t)'
    BY <1>2, <2>7, <2>8, <2>10, <2>11, <2>12 DEF SoundTrack
  <2>14. \A u \in 1..Tracks : u # t => IF u \in spoilt' THEN SpoiltTrack(u)' ELSE SoundTrack(u)'
    BY <1>1, <1>3, <1>4, <2>1, OtherTracks
  <2> QED
    BY <1>1, <1>3, <2>1, <2>13, <2>14 DEF ImageOK
<1>5. DOMAIN image' = 1..Tracks
  BY <1>1, <1>3 DEF DiskHolds
<1> QED
  BY <1>1, <1>4, <1>5, StandsBehind

LEMMA SpoilHolds ==
  ASSUME DiskHolds, NEW t \in 1..Tracks, Spoil(t)
  PROVE  DiskHolds'
<1>1. /\ UNCHANGED <<geometry, directory, data, filed>> /\ image # <<>> /\ t \notin spoilt
      /\ spoilt' = spoilt \cup {t}
  BY DEF Spoil
<1>2. PICK n \in Nat \ {0} : n = SectorsPerTrack
  BY DisketteAssumption
<1>3. DOMAIN image' = DOMAIN image /\ \A u \in DOMAIN image : u # t => image'[u] = image[u]
  BY DEF Spoil
<1>4. DOMAIN image = 1..Tracks
  BY <1>1 DEF DiskHolds
<1>5. ASSUME filed # <<>>
      PROVE  ImageOK'
  <2>1. PICK track \in [1..n -> Sectors] : track = image[t]
    BY <1>1, <1>2, <1>5 DEF DiskHolds, ImageOK, SoundTrack
  <2>2. PICK p : Permutes(p, n) /\ Holds(track, p, n, geometry.firstID, TrackCells(t), SectorSize)
    BY <1>1, <1>2, <1>5, <2>1 DEF DiskHolds, ImageOK, SoundTrack
  <2>3. 1 \in 1..n
    BY <1>2
  <2>4. PICK s \in 1..n : s = p[1]
    BY <2>2, <2>3 DEF Permutes
  <2>5. PICK cells \in Seq(DiskCells) : cells = track[1].cells /\ Len(cells) = SectorSize
    <3>1. track[1].cells = SubSeq(TrackCells(t), (s - 1) * SectorSize + 1, s * SectorSize)
      BY <2>2, <2>3, <2>4 DEF Holds
    <3>2. /\ SubSeq(TrackCells(t), (s - 1) * SectorSize + 1, s * SectorSize) \in Seq(DiskCells)
          /\ Len(SubSeq(TrackCells(t), (s - 1) * SectorSize + 1, s * SectorSize)) = SectorSize
      BY <1>2, <1>5, HoldsWithin, SectorIs
    <3> QED
      BY <3>1, <3>2
  <2>6. [track[1] EXCEPT !.id = 199] = [id |-> 199, cells |-> cells]
    <3>1. track[1] \in Sectors
      BY <2>1, <2>3
    <3> QED
      BY <2>5, <3>1 DEF Sectors
  <2>7. image'[t] = [i \in 1..2 |-> [id |-> 199, cells |-> cells]]
    BY <1>4, <2>1, <2>6 DEF Spoil
  <2>8. SpoiltTrack(t)'
    BY <2>5, <2>7 DEF SpoiltTrack
  <2>9. \A u \in 1..Tracks : u # t => IF u \in spoilt' THEN SpoiltTrack(u)' ELSE SoundTrack(u)'
    BY <1>1, <1>3, <1>4, <1>5, OtherTracks
  <2> QED
    BY <1>1, <1>3, <1>4, <2>8, <2>9 DEF ImageOK
<1>6. DOMAIN image' = 1..Tracks
  BY <1>3, <1>4
<1> QED
  BY <1>1, <1>5, <1>6, StandsBehind

LEMMA DiskHoldsStep ==
  ASSUME DiskHolds, [DiskNext(Contents)]_disketteVars
  PROVE  DiskHolds'
<1>1. CASE UNCHANGED disketteVars
  <2>1. UNCHANGED <<geometry, directory, data, filed, image, spoilt>>
    BY <1>1 DEF disketteVars
  <2>2. DiskOK'
    BY <1>1, DiskStep DEF DiskHolds
  <2>3. \A starts, bases : FilesLieAt(starts, bases) => FilesLieAt(starts, bases)'
    BY <2>1 DEF FilesLieAt, FileLies, EntryOf
  <2>4. ImageOK => ImageOK'
    <3>1. \A t \in 1..Tracks : TrackCells(t)' = TrackCells(t)
      BY <2>1, TracksStand
    <3> QED
      BY <2>1, <3>1 DEF ImageOK, SoundTrack, SpoiltTrack
  <2> QED
    BY <2>1, <2>2, <2>3, <2>4 DEF DiskHolds, DirectorySize
<1>2. ASSUME NEW file \in Contents, PutFile(file)
      PROVE  DiskHolds'
  BY <1>2, PutFileHolds
<1>3. CASE CloseDisk
  BY <1>3, CloseDiskHolds
<1>4. ASSUME NEW t \in 1..Tracks, Turn(t) \/ Spoil(t)
      PROVE  DiskHolds'
  BY <1>4, TurnHolds, SpoilHolds
<1>5. ASSUME NEW g \in Geometries, BlankDisk(g)'
      PROVE  DiskHolds'
  <2>1. geometry' = g /\ directory' = <<>> /\ filed' = <<>> /\ image' = <<>> /\ spoilt' = {} /\ data' = <<>>
    BY <1>5 DEF BlankDisk
  <2>3. DiskOK'
    <3>1. DiskNext(Contents)
      BY <1>5 DEF DiskNext, Geometries
    <3> QED
      BY <3>1, DiskStep DEF DiskHolds
  <2>4. directory' \in Seq(Entries) /\ Len(directory') = 0 /\ filed' \in Seq(Contents) /\ Len(filed') = 0
    BY <2>1
  <2>5. EntriesOf(geometry') \in Nat
    <3>1. geometry' \in Geometries
      BY <2>1
    <3> QED
      BY <3>1, DisketteAssumption DEF EntriesOf, Geometries, Plus3Geometry, DataGeometry
  <2>6. FilesLieAt(<<>>, <<>>)'
    <3>1. <<>> \in [1..0 -> Nat] /\ 1..0 = {}
      OBVIOUS
    <3> QED
      BY <2>4, <3>1 DEF FilesLieAt
  <2> QED
    BY <2>1, <2>3, <2>4, <2>5, <2>6 DEF DiskHolds
<1> QED
  BY <1>1, <1>2, <1>3, <1>4, <1>5 DEF DiskNext, Geometries

-----------------------------------------------------------------------------
\* The reading of a disk whose first track, and its directory's, are sound.
DirectorySound ==
  image # <<>> /\ spoilt \cap ({1} \cup TracksOf(0..(geometry.dirBlocks - 1))) = {}

LEMMA TracksAre ==
  ASSUME geometry \in Geometries, NEW B, NEW b \in B, NEW c \in 0..(BlockSize - 1),
         NEW x \in Nat, x - 1 = b * BlockSize + c
  PROVE  LiesOn(x) \in TracksOf(B)
BY DEF LiesOn, TracksOf, TrackWidth

LEMMA ReadsWithin ==
  ASSUME DiskHolds, filed # <<>>, DirectorySound
  PROVE  /\ geometry \in Geometries /\ WithinTheDisk /\ ImageOK /\ 1 \notin spoilt
         /\ DirectorySize + Len(data) <= AreaOf(geometry) /\ Len(data) \in Nat
<1>1. WithinTheDisk
  BY HoldsWithin
<1>2. Len(data) \in Nat
  BY <1>1 DEF WithinTheDisk
<1> QED
  BY <1>1, <1>2 DEF DirectorySound, DiskHolds, WithinTheDisk

LEMMA DirectoryReads ==
  ASSUME DiskHolds, filed # <<>>, DirectorySound, NEW i \in 1..EntriesOf(geometry)
  PROVE  ReadArea[EntryAt(i)] = IF i \in 1..Len(directory) THEN directory[i] ELSE Filler
<1>1. /\ geometry \in Geometries /\ WithinTheDisk /\ ImageOK /\ 1 \notin spoilt
      /\ DirectorySize + Len(data) <= AreaOf(geometry) /\ Len(data) \in Nat
  BY ReadsWithin
<1>2. PICK n \in Nat \ {0} : n = geometry.dirBlocks
  BY <1>1, DiskSizes
<1>3. PICK b \in Nat \ {0} : b = BlockSize
  BY DisketteAssumption
<1>4. PICK size \in Nat : size = DirectorySize /\ size = n * b
  BY <1>1, <1>2, <1>3, DiskSizes DEF DirectorySize
<1>5. PICK x \in 1..size : x = EntryAt(i)
  BY <1>1, <1>4, EntriesLie
<1>6. PICK y \in Nat : y = x - 1 /\ y < n * b
  <2>1. x - 1 \in Nat /\ x - 1 < size
    BY <1>5
  <2> QED
    BY <1>4, <2>1
<1>7. PICK q \in 0..(n - 1), c \in 0..(b - 1) : y = q * b + c
  <2>1. n \in Nat
    BY <1>2
  <2>2. InRows(y, n, b)
    BY <1>3, <1>6, <2>1, InARow
  <2> QED
    BY <2>2 DEF InRows
<1>8. LiesOn(x) \in TracksOf(0..(geometry.dirBlocks - 1))
  <2>1. q \in 0..(geometry.dirBlocks - 1)
    BY <1>2
  <2>2. c \in 0..(BlockSize - 1) /\ x \in Nat /\ x - 1 = q * BlockSize + c
    BY <1>3, <1>4, <1>5, <1>6, <1>7
  <2> QED
    BY <1>1, <2>1, <2>2, TracksAre
<1>9. LiesOn(x) \notin spoilt
  BY <1>8 DEF DirectorySound
<1>10. x \in 1..AreaOf(geometry)
  BY <1>1, <1>4, <1>5, AreaIs
<1>11. ReadArea[x] = Area[x]
  BY <1>1, <1>9, <1>10, AreaReads
<1> QED
  BY <1>1, <1>5, <1>11, AreaIs

\* A block on sound tracks reads as it was written.
LEMMA BlockReads ==
  ASSUME DiskHolds, filed # <<>>, DirectorySound,
         NEW B, NEW b \in B, spoilt \cap TracksOf(B) = {},
         NEW q \in Nat, b = geometry.dirBlocks + q, (q + 1) * BlockSize <= Len(data)
  PROVE  /\ SubSeq(ReadArea, b * BlockSize + 1, (b + 1) * BlockSize) \in Seq(DiskCells)
         /\ Len(SubSeq(ReadArea, b * BlockSize + 1, (b + 1) * BlockSize)) = BlockSize
         /\ \A c \in 1..BlockSize : SubSeq(ReadArea, b * BlockSize + 1, (b + 1) * BlockSize)[c] =
                                      data[q * BlockSize + c]
<1>1. /\ geometry \in Geometries /\ WithinTheDisk /\ ImageOK /\ 1 \notin spoilt
      /\ DirectorySize + Len(data) <= AreaOf(geometry) /\ Len(data) \in Nat
  BY ReadsWithin
<1>2. PICK s \in Nat \ {0} : s = BlockSize
  BY DisketteAssumption
<1>3. PICK g \in Nat : g = geometry.dirBlocks
  BY <1>1, DiskSizes
<1>4. PICK before \in Nat, from \in Nat : before = DirectorySize /\ before = g * s /\ from = q * s
  <2>1. g * s \in Nat /\ q * s \in Nat
    BY <1>2, <1>3
  <2> QED
    BY <1>2, <1>3, <2>1 DEF DirectorySize
<1>5. b = g + q /\ b \in Nat
  BY <1>3
<1>6. b * s = before + from /\ (b + 1) * s = (before + from) + s
  <2>1. b * s = g * s + q * s
    BY <1>2, <1>3, <1>5, Distributes
  <2>2. (b + 1) * s = b * s + s
    BY <1>2, <1>5, Distributes
  <2> QED
    BY <1>4, <2>1, <2>2
<1>7. from + s <= Len(data)
  <2>1. (q + 1) * s = q * s + s
    BY <1>2, Distributes
  <2> QED
    BY <1>2, <1>4, <2>1
<1>8. PICK area \in Seq(DiskCells) :
        /\ area = ReadArea /\ Len(area) = AreaOf(geometry)
        /\ \A x \in 1..AreaOf(geometry) : LiesOn(x) \notin spoilt => area[x] = Area[x]
  BY <1>1, AreaReads
<1>9. PICK a \in Nat : a = before + from
  OBVIOUS
<1>10. a + s <= Len(area)
  BY <1>1, <1>2, <1>4, <1>7, <1>8, <1>9
<1>11. PICK cells : cells = SubSeq(area, a + 1, a + s)
  OBVIOUS
<1>12. cells \in Seq(DiskCells) /\ Len(cells) = s /\ \A c \in 1..s : cells[c] = area[a + c]
  <2>1. PieceOf(SubSeq(area, a + 1, a + s), DiskCells, area, a, s)
    BY <1>2, <1>10, SubSeqIs
  <2> QED
    BY <1>11, <2>1 DEF PieceOf
<1>13. cells = SubSeq(ReadArea, b * BlockSize + 1, (b + 1) * BlockSize)
  BY <1>2, <1>6, <1>8, <1>9, <1>11
<1>14. ASSUME NEW c \in 1..s
       PROVE  cells[c] = data[from + c]
  <2>1. PICK x \in Nat : x = a + c
    OBVIOUS
  <2>2. LiesOn(x) \in TracksOf(B)
    <3>1. c - 1 \in 0..(BlockSize - 1) /\ x - 1 = b * BlockSize + (c - 1)
      <4>1. b * s \in Nat
        BY <1>2, <1>5
      <4> QED
        BY <1>2, <1>6, <1>9, <2>1, <4>1
    <3>2. PICK d \in 0..(BlockSize - 1) : x - 1 = b * BlockSize + d
      BY <3>1
    <3> QED
      BY <1>1, <3>2, TracksAre
  <2>3. x \in 1..AreaOf(geometry)
    BY <1>1, <1>8, <1>10, <2>1
  <2>4. area[x] = Area[x]
    BY <1>8, <2>2, <2>3
  <2>5. PICK j \in 1..Len(data) : j = from + c /\ x = DirectorySize + j
    <3>1. from + c \in 1..Len(data) /\ x = before + (from + c)
      BY <1>1, <1>7, <1>9, <2>1
    <3> QED
      BY <1>4, <3>1
  <2>6. Area[DirectorySize + j] = data[j]
    BY <1>1, AreaIs
  <2> QED
    BY <1>12, <2>1, <2>4, <2>5, <2>6
<1> QED
  BY <1>2, <1>4, <1>12, <1>13, <1>14

\* Every block an entry names lies in the disk.
LEMMA EntriesInDisk ==
  ASSUME DiskHolds, filed # <<>>, DirectorySound,
         NEW extents, \A e \in Range(extents) : \E i \in DOMAIN directory : e = directory[i]
  PROVE  InDisk(extents, ReadArea)
<1>1. /\ geometry \in Geometries /\ WithinTheDisk /\ ImageOK /\ 1 \notin spoilt
      /\ DirectorySize + Len(data) <= AreaOf(geometry) /\ Len(data) \in Nat
  BY ReadsWithin
<1>2. PICK s \in Nat \ {0} : s = BlockSize
  BY DisketteAssumption
<1>3. PICK g \in Nat : g = geometry.dirBlocks
  BY <1>1, DiskSizes
<1>4. PICK n \in Nat : Len(data) = n * s
  BY <1>2 DEF DiskHolds, DiskOK
<1>5. NextBlock = g + n
  BY <1>1, <1>2, <1>3, <1>4, NextBlockIs
<1>6. PICK size \in Nat : size = AreaOf(geometry) /\ size = Len(ReadArea)
  BY <1>1, AreaIs, AreaReads
<1>7. (g + n) * s <= size
  <2>1. (g + n) * s = g * s + n * s
    BY <1>2, Distributes
  <2>2. DirectorySize = g * s
    BY <1>2, <1>3 DEF DirectorySize
  <2> QED
    BY <1>1, <1>4, <1>6, <2>1, <2>2
<1>8. ASSUME NEW i \in DOMAIN directory, NEW b \in Range(directory[i].blocks)
      PROVE  (b + 1) * s <= size
  <2>1. PICK k \in DOMAIN directory[i].blocks : b = directory[i].blocks[k]
    BY DEF Range
  <2>2. b \in g..(g + n - 1)
    BY <1>3, <1>5, <2>1 DEF DiskHolds, DiskOK, BlocksAreOwned
  <2>3. b + 1 \in Nat /\ g + n \in Nat /\ b + 1 <= g + n
    BY <2>2
  <2>4. (b + 1) * s <= (g + n) * s
    BY <1>2, <2>3, NoLess
  <2>5. (b + 1) * s \in Nat /\ (g + n) * s \in Nat
    BY <1>2, <2>3
  <2> QED
    BY <1>6, <1>7, <2>4, <2>5
<1> QED
  BY <1>2, <1>6, <1>8 DEF InDisk

\* An extent of a file whose tracks are sound reads as its part of the file.
IsExtent(cells, file, e) ==
  /\ cells \in Seq(DiskCells) /\ Len(cells) = CellsIn(file, e - 1)
  /\ \A x \in 1..CellsIn(file, e - 1) :
       /\ (e - 1) * ExtentWidth + x \in 1..(Wanted(file) * BlockSize)
       /\ cells[x] = Filled(file.data, Wanted(file) * BlockSize)[(e - 1) * ExtentWidth + x]

LEMMA ExtentReads ==
  ASSUME DiskHolds, filed # <<>>, DirectorySound, NEW file \in Contents, Len(file.data) > 0,
         NEW k \in Nat, NEW d \in Nat, FileLies(file, k, d),
         spoilt \cap TracksOf(BlocksOf(file)) = {}, NEW e \in 1..Extents(file)
  PROVE  IsExtent(ExtentCells(directory[k + e], ReadArea), file, e)
<1>1. PICK s \in Nat \ {0} : s = BlockSize
  BY DisketteAssumption
<1>2. PICK p \in Nat \ {0} : p = BlocksPerExtent
  BY DisketteAssumption
<1>3. PICK n \in Nat : n = e - 1 /\ n \in 0..(Extents(file) - 1)
  <2>1. Extents(file) \in Nat
    BY FileTakes
  <2> QED
    BY <2>1
<1>4. PICK w \in Nat, first \in Nat : w = Wanted(file) /\ first = n * p /\ first <= w
  BY <1>2, <1>3, FileTakes
<1>5. PICK m \in Nat \ {0}, cut \in Nat :
        /\ m = BlocksIn(file, n) /\ cut = CellsIn(file, n) /\ cut <= m * s
        /\ Least(RecordsIn(file, n) * RecordSize, m * s) = cut
  <2>1. /\ BlocksIn(file, n) > 0
        /\ CellsIn(file, n) \in Nat /\ CellsIn(file, n) <= BlocksIn(file, n) * BlockSize
        /\ Least(RecordsIn(file, n) * RecordSize, BlocksIn(file, n) * BlockSize) = CellsIn(file, n)
    BY <1>3, ExtentHolds
  <2>2. BlocksIn(file, n) \in Nat
    BY <1>3, ExtentTakes
  <2> QED
    BY <1>1, <2>1, <2>2
<1>6. first + m <= w
  BY <1>2, <1>4, <1>5 DEF BlocksIn, Least
<1>7. PICK entry : entry = directory[k + e]
  OBVIOUS
<1>8. PICK blocks : blocks = entry.blocks
  OBVIOUS
<1>9. PICK g \in Nat : g = geometry.dirBlocks
  BY ReadsWithin, DiskSizes
<1>10. /\ entry.entry = file.name /\ entry.records = RecordsIn(file, n)
       /\ DOMAIN blocks = 1..m /\ \A i \in 1..m : blocks[i] = g + (d + first + i - 1)
  <2>1. entry = EntryOf(file, d, e)
    BY <1>7 DEF FileLies
  <2>2. EntryOf(file, d, e) =
          [entry |-> file.name, number |-> n, records |-> RecordsIn(file, n),
           blocks |-> [i \in 1..m |-> g + d + first + i - 1]]
    BY <1>2, <1>3, <1>4, <1>5, <1>9 DEF EntryOf
  <2>3. /\ entry.entry = file.name /\ entry.records = RecordsIn(file, n)
        /\ blocks = [i \in 1..m |-> g + d + first + i - 1]
    BY <1>8, <2>1, <2>2
  <2> QED
    BY <2>3
<1>11. PICK B : B = BlocksOf(file) /\ spoilt \cap TracksOf(B) = {}
  OBVIOUS
<1>12. \A i \in 1..m : blocks[i] \in B
  <2>1. k + e \in DOMAIN directory
    <3>1. directory \in Seq(Entries) /\ k + Extents(file) <= Len(directory) /\ Extents(file) \in Nat
      BY FileTakes DEF DiskHolds, FileLies
    <3> QED
      BY <3>1
  <2>2. \A i \in 1..m : blocks[i] \in Range(directory[k + e].blocks)
    BY <1>7, <1>8, <1>10 DEF Range
  <2> QED
    BY <1>7, <1>10, <1>11, <2>1, <2>2 DEF BlocksOf
<1>13. PICK area : area = ReadArea
  OBVIOUS
<1>14. PICK rows : rows = [i \in DOMAIN entry.blocks |->
                             SubSeq(area, entry.blocks[i] * BlockSize + 1, (entry.blocks[i] + 1) * BlockSize)]
  OBVIOUS
<1>15. PICK whole : whole = Filled(file.data, Wanted(file) * BlockSize)
  OBVIOUS
<1>16. PICK size \in Nat, base \in Nat : size = w * s /\ base = d * s
  <2>1. w * s \in Nat /\ d * s \in Nat
    BY <1>1
  <2> QED
    BY <2>1
<1>17. base + size <= Len(data) /\ \A j \in 1..size : data[base + j] = whole[j]
  <2>1. (d + w) * s = base + size
    BY <1>1, <1>16, Distributes
  <2> QED
    BY <1>1, <1>4, <1>16, <1>15, <2>1 DEF FileLies
<1>18. ASSUME NEW i \in 1..m
       PROVE  /\ rows[i] \in Seq(DiskCells) /\ Len(rows[i]) = s
              /\ \A c \in 1..s : /\ (first + i - 1) * s + c \in 1..size
                                 /\ rows[i][c] = whole[(first + i - 1) * s + c]
  <2>1. PICK r \in Nat : r = first + i - 1 /\ r + 1 <= w
    BY <1>6
  <2>2. PICK q \in Nat : q = d + r
    OBVIOUS
  <2>3. PICK b \in Nat : b = blocks[i] /\ b = g + q /\ b \in B
    BY <1>10, <1>12, <2>1, <2>2
  <2>4. PICK to \in Nat : to = r * s /\ to + s <= size
    <3>1. (r + 1) * s <= w * s
      <4>1. r + 1 \in Nat
        OBVIOUS
      <4> QED
        BY <1>1, <2>1, <4>1, NoLess
    <3>2. (r + 1) * s = r * s + s
      BY <1>1, Distributes
    <3>3. r * s \in Nat
      BY <1>1
    <3> QED
      BY <1>16, <3>1, <3>2, <3>3
  <2>5. q * s = base + to
    BY <1>1, <1>16, <2>2, <2>4, Distributes
  <2>6. (q + 1) * BlockSize <= Len(data)
    <3>1. (q + 1) * s = q * s + s
      BY <1>1, Distributes
    <3>2. base + to + s <= Len(data)
      <4>1. Len(data) \in Nat
        BY ReadsWithin
      <4> QED
        BY <1>1, <1>17, <2>4, <4>1
    <3>3. (q + 1) * s = base + to + s
      BY <2>5, <3>1
    <3> QED
      BY <1>1, <3>2, <3>3
  <2>7. /\ SubSeq(ReadArea, b * BlockSize + 1, (b + 1) * BlockSize) \in Seq(DiskCells)
        /\ Len(SubSeq(ReadArea, b * BlockSize + 1, (b + 1) * BlockSize)) = BlockSize
        /\ \A c \in 1..BlockSize : SubSeq(ReadArea, b * BlockSize + 1, (b + 1) * BlockSize)[c] =
                                     data[q * BlockSize + c]
    BY <1>9, <1>11, <2>3, <2>6, BlockReads
  <2>8. rows[i] = SubSeq(ReadArea, b * BlockSize + 1, (b + 1) * BlockSize)
    BY <1>8, <1>10, <1>13, <1>14, <2>3
  <2>9. ASSUME NEW c \in 1..s
        PROVE  to + c \in 1..size /\ rows[i][c] = whole[to + c]
    <3>1. to + c \in 1..size
      BY <2>4
    <3>2. rows[i][c] = data[(base + to) + c]
      BY <1>1, <2>5, <2>7, <2>8
    <3>3. data[base + (to + c)] = whole[to + c]
      BY <1>17, <3>1
    <3>4. (base + to) + c = base + (to + c)
      OBVIOUS
    <3> QED
      BY <3>1, <3>2, <3>3, <3>4
  <2>10. (first + i - 1) * s = to
    BY <2>1, <2>4
  <2> QED
    BY <1>1, <2>7, <2>8, <2>9, <2>10
<1>19. PICK f : f = FlattenSeq(rows)
  OBVIOUS
<1>20. f \in Seq(DiskCells) /\ EndToEnd(f, rows, m, s)
  <2>1. DOMAIN rows = 1..m /\ rows \in [1..m -> Seq(DiskCells)]
    BY <1>8, <1>10, <1>14, <1>18
  <2>2. \A r \in 1..m : r < m => Len(rows[r]) = s
    BY <1>18
  <2>3. FlattenSeq(rows) \in Seq(DiskCells) /\ EndToEnd(FlattenSeq(rows), rows, m, s)
    BY <1>1, <1>5, <2>1, <2>2, Flattened
  <2> QED
    BY <1>19, <2>3
<1>21. Len(f) = m * s
  <2>1. m \in 1..m
    BY <1>5
  <2>2. Len(f) = (m - 1) * s + s
    BY <1>18, <1>20, <2>1 DEF EndToEnd
  <2>3. (m - 1) * s = m * s - s
    BY <1>1, <1>5, Distributes
  <2>4. m * s \in Nat
    BY <1>1, <1>5
  <2> QED
    BY <1>1, <2>2, <2>3, <2>4
<1>22. PICK skipped \in Nat : skipped = n * ExtentWidth /\ skipped = first * s
  <2>1. n * (p * s) = (n * p) * s
    BY <1>1, <1>2
  <2>2. first * s \in Nat
    BY <1>1, <1>4
  <2> QED
    BY <1>1, <1>2, <1>4, <2>1, <2>2 DEF ExtentWidth
<1>23. ASSUME NEW x \in 1..(m * s)
       PROVE  skipped + x \in 1..size /\ f[x] = whole[skipped + x]
  <2>1. PICK y \in Nat : y = x - 1 /\ y < m * s
    <3>1. m * s \in Nat
      BY <1>1, <1>5
    <3> QED
      BY <3>1
  <2>2. PICK q \in 0..(m - 1), c \in 0..(s - 1) : y = q * s + c
    <3>1. m \in Nat
      BY <1>5
    <3>2. InRows(y, m, s)
      BY <1>1, <2>1, <3>1, InARow
    <3> QED
      BY <3>2 DEF InRows
  <2>3. PICK i \in 1..m, t \in 1..s : i = q + 1 /\ t = c + 1
    BY <1>1, <1>5, <2>2
  <2>4. x = (i - 1) * s + t
    <3>1. i - 1 = q
      BY <2>3
    <3>2. q * s \in Nat
      BY <1>1, <2>2
    <3> QED
      BY <2>1, <2>2, <2>3, <3>1, <3>2
  <2>5. f[x] = rows[i][t]
    BY <1>18, <1>20, <2>4 DEF EndToEnd
  <2>6. /\ (first + i - 1) * s + t \in 1..size
        /\ rows[i][t] = whole[(first + i - 1) * s + t]
    BY <1>18
  <2>7. (first + i - 1) * s + t = skipped + x
    <3>1. first + i - 1 = first + (i - 1) /\ i - 1 \in Int
      OBVIOUS
    <3>2. (first + (i - 1)) * s = first * s + (i - 1) * s
      BY <1>1, <1>4, <3>1, Distributes
    <3>3. (i - 1) * s \in Int /\ first * s \in Int
      BY <1>1, <1>4, <3>1, Distributes
    <3> QED
      BY <1>22, <2>4, <3>1, <3>2, <3>3
  <2> QED
    BY <2>5, <2>6, <2>7
<1>24. ExtentCells(entry, area) = SubSeq(f, 0 + 1, 0 + cut)
  <2>1. Least(entry.records * RecordSize, Len(f)) = cut
    BY <1>5, <1>10, <1>21
  <2>2. ExtentCells(entry, area) = SubSeq(f, 1, cut)
    BY <1>14, <1>19, <2>1 DEF ExtentCells
  <2> QED
    BY <1>5, <2>2
<1>25. /\ SubSeq(f, 0 + 1, 0 + cut) \in Seq(DiskCells) /\ Len(SubSeq(f, 0 + 1, 0 + cut)) = cut
       /\ \A c \in 1..cut : SubSeq(f, 0 + 1, 0 + cut)[c] = f[0 + c]
  <2>1. 0 \in Nat /\ 0 + cut <= Len(f)
    BY <1>5, <1>21
  <2>2. PieceOf(SubSeq(f, 0 + 1, 0 + cut), DiskCells, f, 0, cut)
    BY <1>5, <1>20, <2>1, SubSeqIs
  <2> QED
    BY <2>2 DEF PieceOf
<1>26. ASSUME NEW x \in 1..cut
       PROVE  skipped + x \in 1..size /\ SubSeq(f, 0 + 1, 0 + cut)[x] = whole[skipped + x]
  <2>1. x \in 1..(m * s)
    <3>1. m * s \in Nat
      BY <1>1, <1>5
    <3> QED
      BY <1>5, <3>1
  <2>2. SubSeq(f, 0 + 1, 0 + cut)[x] = f[x]
    BY <1>25
  <2> QED
    BY <1>23, <2>1, <2>2
<1> QED
  BY <1>1, <1>3, <1>4, <1>5, <1>7, <1>13, <1>16, <1>22, <1>24, <1>25, <1>26, <1>15 DEF IsExtent

\* A file's extents, one after another, are the file up to the end of its last record.
LEMMA WholeReads ==
  ASSUME DiskHolds, filed # <<>>, DirectorySound, NEW file \in Contents, Len(file.data) > 0,
         NEW k \in Nat, NEW d \in Nat, FileLies(file, k, d),
         spoilt \cap TracksOf(BlocksOf(file)) = {},
         NEW rows \in [1..Extents(file) -> Seq(DiskCells)],
         \A e \in 1..Extents(file) : rows[e] = ExtentCells(directory[k + e], ReadArea)
  PROVE  FlattenSeq(rows) = Filled(file.data, Recorded(file))
<1>1. PICK n \in Nat \ {0} : n = Extents(file)
  BY FileTakes
<1>2. PICK p \in Nat \ {0} : p = ExtentWidth
  <2>1. BlocksPerExtent \in Nat \ {0} /\ BlockSize \in Nat \ {0}
    BY DisketteAssumption
  <2>2. BlocksPerExtent * BlockSize \in Nat \ {0}
    BY <2>1
  <2> QED
    BY <2>2 DEF ExtentWidth
<1>3. PICK size \in Nat : size = Wanted(file) * BlockSize /\ Len(file.data) <= size
  <2>1. Wanted(file) \in Nat /\ BlockSize \in Nat
    BY FileTakes, DisketteAssumption
  <2>2. Wanted(file) * BlockSize \in Nat
    BY <2>1
  <2> QED
    BY <2>2, FileTakes
<1>4. PICK whole : whole = Filled(file.data, size)
  OBVIOUS
<1>5. ASSUME NEW e \in 1..n
      PROVE  /\ Len(rows[e]) = CellsIn(file, e - 1) /\ CellsIn(file, e - 1) \in Nat
             /\ \A x \in 1..CellsIn(file, e - 1) :
                  (e - 1) * p + x \in 1..size /\ rows[e][x] = whole[(e - 1) * p + x]
  <2>1. e - 1 \in 0..(Extents(file) - 1)
    BY <1>1
  <2>2. CellsIn(file, e - 1) \in Nat
    BY <2>1, ExtentHolds
  <2>3. IsExtent(ExtentCells(directory[k + e], ReadArea), file, e)
    <3>1. e \in 1..Extents(file)
      BY <1>1
    <3> QED
      BY <3>1, ExtentReads
  <2>4. rows[e] = ExtentCells(directory[k + e], ReadArea)
    BY <1>1
  <2>5. IsExtent(rows[e], file, e)
    BY <2>3, <2>4
  <2> QED
    BY <1>2, <1>3, <1>4, <2>2, <2>5 DEF IsExtent
<1>6. PICK most \in Nat : most = (n - 1) * p
  <2>1. n - 1 \in Nat
    BY <1>1
  <2>2. (n - 1) * p \in Nat
    BY <1>2, <2>1
  <2> QED
    BY <2>2
<1>7. PICK last \in Nat : last = CellsIn(file, n - 1) /\ Recorded(file) = most + last
  <2>1. n \in 1..n
    BY <1>1
  <2>2. CellsIn(file, n - 1) \in Nat
    BY <1>5, <2>1
  <2>3. CellsIn(file, n - 1) = Recorded(file) - most
    BY <1>1, <1>2, <1>6 DEF CellsIn
  <2>4. Recorded(file) \in Int
    <3>1. RecordSize \in Nat \ {0} /\ Len(file.data) \in Nat
      BY FileTakes, DisketteAssumption
    <3>2. Ceiling(Len(file.data), RecordSize) \in Nat
      BY <3>1, CeilingIs
    <3> QED
      BY <3>1, <3>2 DEF Recorded
  <2> QED
    BY <2>2, <2>3, <2>4
<1>8. PICK f : f = FlattenSeq(rows)
  OBVIOUS
<1>9. f \in Seq(DiskCells) /\ EndToEnd(f, rows, n, p)
  <2>1. \A r \in 1..n : r < n => Len(rows[r]) = p
    <3>1. \A r \in 1..n : r < n => CellsIn(file, r - 1) = p
      BY <1>1, <1>2 DEF CellsIn
    <3> QED
      BY <1>5, <3>1
  <2>2. n \in Nat /\ p \in Nat /\ rows \in [1..n -> Seq(DiskCells)]
    BY <1>1, <1>2
  <2>3. FlattenSeq(rows) \in Seq(DiskCells) /\ EndToEnd(FlattenSeq(rows), rows, n, p)
    BY <2>1, <2>2, Flattened
  <2> QED
    BY <1>8, <2>3
<1>10. Len(f) = most + last
  <2>1. n \in 1..n
    BY <1>1
  <2> QED
    BY <1>5, <1>6, <1>7, <1>9, <2>1 DEF EndToEnd
<1>11. ASSUME NEW x \in 1..(most + last)
       PROVE  x \in 1..size /\ f[x] = whole[x]
  <2>1. \E e \in 1..n : \E c \in 1..CellsIn(file, e - 1) : x = (e - 1) * p + c
    <3>1. CASE x <= most
      <4>1. PICK y \in Nat : y = x - 1 /\ y < (n - 1) * p
        BY <1>6, <3>1
      <4>2. PICK q \in 0..(n - 2), c \in 0..(p - 1) : y = q * p + c
        <5>1. PICK m \in Nat : m = n - 1
          BY <1>1
        <5>2. PICK q \in 0..(m - 1), c \in 0..(p - 1) : y = q * p + c
          <6>1. y < m * p
            BY <4>1, <5>1
          <6>2. InRows(y, m, p)
            BY <1>2, <4>1, <5>1, <6>1, InARow
          <6> QED
            BY <6>2 DEF InRows
        <5>3. m - 1 = n - 2
          BY <1>1, <5>1
        <5> QED
          BY <5>2, <5>3
      <4>3. PICK e \in 1..n, t \in 1..p : e - 1 = q /\ t = c + 1 /\ e < n
        <5>1. q + 1 \in 1..n /\ (q + 1) - 1 = q /\ q + 1 < n /\ c + 1 \in 1..p
          BY <1>1, <1>2, <4>2
        <5> QED
          BY <5>1
      <4>4. x = (e - 1) * p + t
        <5>1. q * p \in Nat
          BY <1>2, <4>2
        <5> QED
          BY <4>1, <4>2, <4>3, <5>1
      <4>5. CellsIn(file, e - 1) = p
        BY <1>1, <1>2, <4>3 DEF CellsIn
      <4> QED
        BY <4>4, <4>5
    <3>2. CASE x > most
      <4>1. n \in 1..n /\ x - most \in 1..last /\ x = most + (x - most)
        BY <1>1, <3>2
      <4> QED
        BY <1>6, <1>7, <4>1
    <3> QED
      BY <1>6, <3>1, <3>2
  <2>2. PICK e \in 1..n : \E c \in 1..CellsIn(file, e - 1) : x = (e - 1) * p + c
    BY <2>1
  <2>3. PICK c \in 1..CellsIn(file, e - 1) : x = (e - 1) * p + c
    BY <2>2
  <2>4. f[(e - 1) * p + c] = rows[e][c]
    BY <1>5, <1>9 DEF EndToEnd
  <2> QED
    BY <1>5, <2>3, <2>4
<1>12. file.data \in Seq(DiskCells) /\ Filler \in DiskCells
  BY DEF Contents, DiskCells
<1>13. PICK cells \in Seq(DiskCells), m \in Nat : cells = file.data /\ m = Len(cells)
  BY <1>12, FileTakes
<1>14. PICK records \in Nat : records = Recorded(file) /\ records = most + last /\ m <= records
  <2>1. RecordSize \in Nat \ {0} /\ Len(file.data) \in Nat
    BY FileTakes, DisketteAssumption
  <2>2. Len(file.data) <= Ceiling(Len(file.data), RecordSize) * RecordSize
    BY <2>1, CeilingIs
  <2> QED
    BY <1>7, <1>13, <2>2 DEF Recorded
<1>15. PICK said : said = Filled(cells, records)
  OBVIOUS
<1>16. /\ said \in Seq(DiskCells) /\ Len(said) = records
       /\ \A i \in 1..m : said[i] = cells[i]
       /\ \A i \in (m + 1)..records : said[i] = Filler
  <2>1. Fills(said, DiskCells, cells, records)
    BY <1>12, <1>13, <1>14, <1>15, FilledIs
  <2> QED
    BY <1>13, <2>1 DEF Fills
<1>17. /\ \A i \in 1..m : whole[i] = cells[i]
       /\ \A i \in (m + 1)..size : whole[i] = Filler
  <2>1. Fills(whole, DiskCells, cells, size)
    BY <1>3, <1>4, <1>12, <1>13, FilledIs
  <2> QED
    BY <1>13, <2>1 DEF Fills
<1>18. \A x \in 1..records : f[x] = said[x]
  BY <1>11, <1>14, <1>16, <1>17
<1>19. f = said
  BY <1>9, <1>10, <1>14, <1>16, <1>18
<1> QED
  BY <1>8, <1>13, <1>14, <1>15, <1>19

\* The directory's entries, in their order, those that are not one passed over.
Listed == {i \in 1..Len(directory) : IsEntry(directory[i])}

ListsInTurn(at, n, extents) ==
  /\ at \in [1..n -> Listed]
  /\ \A i, j \in 1..n : i < j => at[i] < at[j]
  /\ \A x \in Listed : \E i \in 1..n : at[i] = x
  /\ DOMAIN extents = 1..n
  /\ \A i \in 1..n : extents[i] = directory[at[i]]

LEMMA DirectoryIsRead ==
  ASSUME DiskHolds, filed # <<>>, DirectorySound
  PROVE  \E n \in Nat : \E at : ListsInTurn(at, n, DirectoryAt(ReadArea, EntriesOf(geometry)))
<1>1. PICK m \in Nat : m = EntriesOf(geometry) /\ Len(directory) \in Nat /\ Len(directory) <= m
  BY ReadsWithin, DiskSizes DEF WithinTheDisk
<1> DEFINE read == [i \in 1..m |-> ReadArea[(i - 1) * EntrySize + 1]]
           at == InTurn({i \in 1..m : IsEntry(read[i])})
<1>2. DirectoryAt(ReadArea, m) = [i \in DOMAIN at |-> read[at[i]]]
  BY DEF DirectoryAt
<1>3. \A i \in 1..m : read[i] = IF i \in 1..Len(directory) THEN directory[i] ELSE Filler
  <2>1. \A i \in 1..m : read[i] = ReadArea[EntryAt(i)]
    BY DEF EntryAt
  <2> HIDE DEF read
  <2> QED
    BY <1>1, <2>1, DirectoryReads
<1> HIDE DEF read
<1>4. ~IsEntry(Filler)
  <2>1. "entry" \notin DOMAIN Filler
    BY DEF Filler
  <2> QED
    BY <2>1 DEF IsEntry
<1>5. {i \in 1..m : IsEntry(read[i])} = Listed
  <2>1. \A i \in 1..Len(directory) : i \in 1..m
    BY <1>1
  <2> QED
    BY <1>3, <1>4, <2>1 DEF Listed
<1>6. at = InTurn(Listed)
  BY <1>5
<1> HIDE DEF at
<1>7. PICK n \in Nat : /\ at \in [1..n -> Listed]
                       /\ \A i, j \in 1..n : i < j => at[i] < at[j]
                       /\ \A x \in Listed : \E i \in 1..n : at[i] = x
  <2>1. Listed \in SUBSET (0..m)
    BY <1>1 DEF Listed
  <2>2. \E n \in Nat : /\ InTurn(Listed) \in [1..n -> Listed]
                       /\ \A i, j \in 1..n : i < j => InTurn(Listed)[i] < InTurn(Listed)[j]
                       /\ \A x \in Listed : \E i \in 1..n : InTurn(Listed)[i] = x
    BY <1>1, <2>1, InTurnIs
  <2> QED
    BY <1>6, <2>2
<1>8. DirectoryAt(ReadArea, EntriesOf(geometry)) = [i \in 1..n |-> read[at[i]]]
  <2>1. DOMAIN at = 1..n
    BY <1>7
  <2> QED
    BY <1>1, <1>2, <2>1
<1>9. \A i \in 1..n : at[i] \in 1..m /\ at[i] \in 1..Len(directory)
  BY <1>1, <1>7 DEF Listed
<1>10. PICK extents : extents = DirectoryAt(ReadArea, EntriesOf(geometry))
  OBVIOUS
<1>11. DOMAIN extents = 1..n /\ \A i \in 1..n : extents[i] = directory[at[i]]
  BY <1>3, <1>8, <1>9, <1>10
<1> QED
  BY <1>7, <1>10, <1>11 DEF ListsInTurn

\* The extents of one name, and no other, in the order of their numbers.
PartsInTurn(e, m, extents, n, name) ==
  /\ DOMAIN extents = 1..n /\ \A x \in 1..n : extents[x].number \in Int
  /\ e \in [1..m -> 1..n]
  /\ \A i, j \in 1..m : i < j => extents[e[i]].number < extents[e[j]].number
  /\ \A i \in 1..m : extents[e[i]].entry = name
  /\ \A x \in 1..n : extents[x].entry = name => \E i \in 1..m : e[i] = x

PartsRead(rows, e, m, extents, area) ==
  DOMAIN rows = 1..m /\ \A i \in 1..m : rows[i] = ExtentCells(extents[e[i]], area)

LEMMA NameIsAssembled ==
  ASSUME NEW n \in Nat, NEW extents, NEW area, NEW name,
         NEW m \in Nat \ {0}, NEW e, PartsInTurn(e, m, extents, n, name),
         NEW S, NEW rows \in [1..m -> S], PartsRead(rows, e, m, extents, area)
  PROVE  [name |-> name, data |-> WithoutHeader(FlattenSeq(rows))] \in Range(Assembled(extents, area))
<1> DEFINE PartsOf(of) == {i \in DOMAIN extents : extents[i].entry = of}
           Whole(of) ==
             LET at == Ordered(PartsOf(of), [i \in PartsOf(of) |-> extents[i].number])
             IN  FlattenSeq([i \in DOMAIN at |-> ExtentCells(extents[at[i]], area)])
           first == {i \in DOMAIN extents : \A j \in 1..(i - 1) : extents[j].entry # extents[i].entry}
           met == InTurn(first)
           all == [i \in DOMAIN met |-> [name |-> extents[met[i]].entry,
                                         data |-> WithoutHeader(Whole(extents[met[i]].entry))]]
<1>1. DOMAIN extents = 1..n /\ \A x \in 1..n : extents[x].number \in Int
  BY DEF PartsInTurn
<1>2. Assembled(extents, area) = all
  BY DEF Assembled
<1>3. PICK parts : parts = PartsOf(name)
  OBVIOUS
<1>4. parts \in SUBSET (1..n) /\ \A x \in 1..n : x \in parts <=> extents[x].entry = name
  BY <1>1, <1>3
<1>5. PICK key : key = [i \in parts |-> extents[i].number]
  OBVIOUS
<1>6. Ordered(parts, key) = e
  <2>1. e \in [1..m -> parts]
    BY <1>4 DEF PartsInTurn
  <2>2. \A i \in 1..m : key[e[i]] = extents[e[i]].number
    BY <1>5, <2>1
  <2>3. key \in [parts -> Int]
    BY <1>1, <1>4, <1>5
  <2>4. \A x \in parts : \E i \in 1..m : e[i] = x
    BY <1>4 DEF PartsInTurn
  <2>5. \A i, j \in 1..m : i < j => Precedes(key, e[i], e[j])
    BY <2>2 DEF PartsInTurn, Precedes
  <2>6. parts \in SUBSET Int
    BY <1>4
  <2>7. m \in Nat
    OBVIOUS
  <2>8. ListsByKey(e, m, parts, key)
    BY <2>1, <2>4, <2>5 DEF ListsByKey
  <2> HIDE DEF PartsOf, Whole, first, met, all
  <2> QED
    BY <2>3, <2>6, <2>7, <2>8, OrderedIs
<1>7. Whole(name) = FlattenSeq(rows)
  <2>1. DOMAIN e = 1..m
    BY DEF PartsInTurn
  <2>2. [i \in DOMAIN e |-> ExtentCells(extents[e[i]], area)] = rows
    BY <2>1 DEF PartsRead
  <2>3. Whole(name) = FlattenSeq([i \in DOMAIN e |-> ExtentCells(extents[e[i]], area)])
    BY <1>3, <1>5, <1>6
  <2> QED
    BY <2>2, <2>3
<1>8. PICK x \in first : extents[x].entry = name
  <2>1. parts # {} /\ parts \in SUBSET Nat
    <3>1. 1 \in 1..m
      OBVIOUS
    <3>2. e[1] \in parts
      BY <1>4, <3>1 DEF PartsInTurn
    <3> QED
      BY <1>4, <3>2
  <2>2. PICK x \in parts : \A y \in parts : x <= y
    BY <2>1, LeastNumber
  <2>3. x \in 1..n /\ extents[x].entry = name
    BY <1>4, <2>2
  <2>4. ASSUME NEW j \in 1..(x - 1)
        PROVE  extents[j].entry # extents[x].entry
    <3>1. j \in 1..n /\ ~(x <= j)
      BY <2>3
    <3> QED
      BY <1>4, <2>2, <2>3, <3>1
  <2> QED
    BY <1>1, <2>3, <2>4
<1>9. PICK k : k \in DOMAIN met /\ met[k] = x
  <2>1. first \in SUBSET (0..n)
    BY <1>1
  <2> HIDE DEF first, met
  <2>2. \E count \in Nat : /\ InTurn(first) \in [1..count -> first]
                           /\ \A i, j \in 1..count : i < j => InTurn(first)[i] < InTurn(first)[j]
                           /\ \A y \in first : \E i \in 1..count : InTurn(first)[i] = y
    BY <2>1, InTurnIs
  <2>3. PICK count \in Nat : /\ InTurn(first) \in [1..count -> first]
                             /\ \A y \in first : \E i \in 1..count : InTurn(first)[i] = y
    BY <2>2
  <2>4. PICK i \in 1..count : InTurn(first)[i] = x
    BY <1>8, <2>3
  <2>5. i \in DOMAIN InTurn(first)
    BY <2>3
  <2> QED
    BY <2>4, <2>5 DEF met
<1> HIDE DEF met, Whole
<1>10. k \in DOMAIN all /\ all[k] = [name |-> name, data |-> WithoutHeader(FlattenSeq(rows))]
  BY <1>7, <1>8, <1>9
<1> QED
  BY <1>2, <1>10 DEF Range

LEMMA OnlyOne ==
  ASSUME NEW f \in DOMAIN filed, filed \in Seq(Contents), Plain(filed[f])
  PROVE  \A i \in DOMAIN filed : filed[i].name = filed[f].name => i = f
<1>1. PICK S : S = {i \in DOMAIN filed : filed[i].name = filed[f].name}
  OBVIOUS
<1>2. Cardinality(S) = 1
  BY <1>1 DEF Plain
<1>3. IsFiniteSet(S)
  <2>1. DOMAIN filed = 1..Len(filed) /\ Len(filed) \in Nat
    OBVIOUS
  <2>2. IsFiniteSet(1..Len(filed))
    BY <2>1, FS_Interval
  <2>3. S \subseteq 1..Len(filed)
    BY <1>1, <2>1
  <2> QED
    BY <2>2, <2>3, FS_Subset
<1>4. PICK x : S = {x}
  BY <1>2, <1>3, FS_Singleton
<1>5. f \in S
  BY <1>1
<1> QED
  BY <1>1, <1>4, <1>5

\* The entries of a plain file are those it was given, and no other.
EntriesStand(file, k, m) ==
  /\ Len(file.data) > 0
  /\ \A e \in 1..m : /\ k + e \in Listed /\ directory[k + e].entry = file.name
                     /\ directory[k + e].number = e - 1
  /\ \A x \in 1..Len(directory) : directory[x].entry = file.name => \E e \in 1..m : x = k + e

LEMMA EntriesOfFile ==
  ASSUME DiskHolds, NEW starts, NEW bases, FilesLieAt(starts, bases),
         NEW f \in 1..Len(filed), NEW file \in Contents, file = filed[f], Plain(file),
         NEW k \in Nat, k = starts[f], NEW m \in Nat, m = Extents(file)
  PROVE  EntriesStand(file, k, m)
<1>1. filed \in Seq(Contents) /\ directory \in Seq(Entries)
  BY DEF DiskHolds
<1>2. Len(file.data) > 0
  <2>1. file.data # <<>> /\ file.data \in Seq(FileCells)
    BY DEF Plain, Contents
  <2> QED
    BY <2>1
<1>3. FileLies(file, k, bases[f])
  BY DEF FilesLieAt
<1>4. ASSUME NEW e \in 1..m
      PROVE  /\ k + e \in Listed /\ directory[k + e].entry = file.name
             /\ directory[k + e].number = e - 1
  <2>1. k + e \in 1..Len(directory)
    BY <1>1, <1>3 DEF FileLies
  <2>2. directory[k + e] = EntryOf(file, bases[f], e)
    BY <1>3 DEF FileLies
  <2>3. PICK entry \in Entries : entry = directory[k + e]
    BY <1>1, <2>1
  <2>4. entry.entry = file.name /\ entry.number = e - 1 /\ entry.records = RecordsIn(file, e - 1)
    BY <2>2, <2>3 DEF EntryOf
  <2>5. entry.records > 0
    <3>1. e - 1 \in 0..(Extents(file) - 1)
      OBVIOUS
    <3> QED
      BY <1>2, <2>4, <3>1, ExtentHolds
  <2>6. "entry" \in DOMAIN entry
    BY <2>3 DEF Entries
  <2>7. file.name \notin Unreadable
    BY DEF Plain
  <2>8. IsEntry(entry)
    BY <2>4, <2>5, <2>6, <2>7 DEF IsEntry
  <2> QED
    BY <2>1, <2>3, <2>4, <2>8 DEF Listed
<1>5. ASSUME NEW x \in 1..Len(directory), directory[x].entry = file.name
      PROVE  \E e \in 1..m : x = k + e
  <2>1. PICK i \in 1..Len(filed) : \E e \in 1..Extents(filed[i]) : x = starts[i] + e
    BY DEF FilesLieAt
  <2>2. PICK e \in 1..Extents(filed[i]) : x = starts[i] + e
    BY <2>1
  <2>3. FileLies(filed[i], starts[i], bases[i])
    BY DEF FilesLieAt
  <2>4. directory[starts[i] + e] = EntryOf(filed[i], bases[i], e)
    BY <2>3 DEF FileLies
  <2>5. filed[i].name = file.name
    BY <1>5, <2>2, <2>4 DEF EntryOf
  <2>6. i = f
    <3>1. i \in DOMAIN filed /\ f \in DOMAIN filed
      BY <1>1
    <3> QED
      BY <1>1, <2>5, <3>1, OnlyOne
  <2> QED
    BY <2>2, <2>6
<1> QED
  BY <1>2, <1>4, <1>5 DEF EntriesStand

LEMMA PlainReads ==
  ASSUME DiskHolds, filed # <<>>, DirectorySound,
         NEW file \in Range(filed), Plain(file), spoilt \cap TracksOf(BlocksOf(file)) = {}
  PROVE  /\ Len(directory) > 0
         /\ [name |-> file.name, data |-> WithoutHeader(Filled(file.data, Recorded(file)))]
              \in Range(Assembled(DirectoryAt(ReadArea, EntriesOf(geometry)), ReadArea))
<1>1. filed \in Seq(Contents) /\ directory \in Seq(Entries)
  BY DEF DiskHolds
<1>2. PICK f \in 1..Len(filed) : file = filed[f] /\ file \in Contents
  BY <1>1 DEF Range
<1>3. PICK starts, bases : FilesLieAt(starts, bases)
  BY DEF DiskHolds
<1>4. PICK k \in Nat, d \in Nat : k = starts[f] /\ d = bases[f] /\ FileLies(file, k, d)
  BY <1>2, <1>3 DEF FilesLieAt
<1>5. PICK m \in Nat \ {0} : m = Extents(file)
  BY <1>2, FileTakes
<1>6. PICK name : name = file.name
  OBVIOUS
<1>7. /\ Len(file.data) > 0
      /\ \A e \in 1..m : /\ k + e \in Listed /\ directory[k + e].entry = name
                         /\ directory[k + e].number = e - 1
      /\ \A x \in 1..Len(directory) : directory[x].entry = name => \E e \in 1..m : x = k + e
  <2>1. EntriesStand(file, k, m)
    <3>1. FilesLieAt(starts, bases)
      BY <1>3
    <3>2. f \in 1..Len(filed) /\ file = filed[f] /\ file \in Contents
      BY <1>2
    <3>3. k \in Nat /\ k = starts[f]
      BY <1>4
    <3>4. m \in Nat /\ m = Extents(file)
      BY <1>5
    <3> QED
      BY <3>1, <3>2, <3>3, <3>4, EntriesOfFile
  <2> QED
    BY <1>6, <2>1 DEF EntriesStand
<1>8. PICK extents : extents = DirectoryAt(ReadArea, EntriesOf(geometry))
  OBVIOUS
<1>9. PICK n \in Nat : \E at : ListsInTurn(at, n, extents)
  BY <1>8, DirectoryIsRead
<1>10. PICK at : ListsInTurn(at, n, extents)
  BY <1>9
<1>11. PICK e : e = [j \in 1..m |-> CHOOSE i \in 1..n : at[i] = k + j]
  OBVIOUS
<1>12. \A j \in 1..m : e[j] \in 1..n /\ at[e[j]] = k + j
  <2>1. \A j \in 1..m : \E i \in 1..n : at[i] = k + j
    BY <1>7, <1>10 DEF ListsInTurn
  <2> QED
    BY <1>11, <2>1
<1>13. \A i \in 1..n : at[i] \in 1..Len(directory) /\ extents[i] = directory[at[i]] /\ extents[i] \in Entries
  <2>1. \A i \in 1..n : at[i] \in 1..Len(directory) /\ extents[i] = directory[at[i]]
    BY <1>10 DEF ListsInTurn, Listed
  <2> QED
    BY <1>1, <2>1
<1>14. \A j \in 1..m : /\ extents[e[j]] = directory[k + j]
                       /\ extents[e[j]].entry = name /\ extents[e[j]].number = j - 1
  <2>1. ASSUME NEW j \in 1..m
        PROVE  extents[e[j]] = directory[k + j]
    BY <1>12, <1>13
  <2> QED
    BY <1>7, <2>1
<1>15. ASSUME NEW x \in 1..n, extents[x].entry = name
       PROVE  \E j \in 1..m : e[j] = x
  <2>1. PICK j \in 1..m : at[x] = k + j
    BY <1>7, <1>13, <1>15
  <2>2. PICK y \in 1..n : y = e[j] /\ at[y] = at[x]
    BY <1>12, <2>1
  <2>3. ~(at[x] < at[x])
    BY <2>1
  <2>4. ~(x < y) /\ ~(y < x)
    BY <1>10, <2>2, <2>3 DEF ListsInTurn
  <2> QED
    BY <2>2, <2>4
<1>16. DOMAIN extents = 1..n /\ \A x \in 1..n : extents[x].number \in Int
  <2>1. \A x \in 1..n : extents[x].number \in Int
    BY <1>13 DEF Entries
  <2> QED
    BY <1>10, <2>1 DEF ListsInTurn
<1>17. PartsInTurn(e, m, extents, n, name)
  <2>1. e \in [1..m -> 1..n]
    BY <1>11, <1>12
  <2>2. \A i, j \in 1..m : i < j => extents[e[i]].number < extents[e[j]].number
    <3>1. \A i, j \in 1..m : i < j => i - 1 < j - 1
      OBVIOUS
    <3> QED
      BY <1>14, <3>1
  <2> QED
    BY <1>14, <1>15, <1>16, <2>1, <2>2 DEF PartsInTurn
<1>18. PICK rows : rows = [j \in 1..m |-> ExtentCells(directory[k + j], ReadArea)]
  OBVIOUS
<1>19. rows \in [1..m -> Seq(DiskCells)] /\ \A j \in 1..m : rows[j] = ExtentCells(directory[k + j], ReadArea)
  <2>1. ASSUME NEW j \in 1..m
        PROVE  ExtentCells(directory[k + j], ReadArea) \in Seq(DiskCells)
    <3>1. j \in 1..Extents(file)
      BY <1>5
    <3> QED
      BY <1>2, <1>4, <1>7, <3>1, ExtentReads DEF IsExtent
  <2> QED
    BY <1>18, <2>1
<1>20. FlattenSeq(rows) = Filled(file.data, Recorded(file))
  <2>1. file \in Contents /\ Len(file.data) > 0
    BY <1>2, <1>7
  <2>2. FileLies(file, k, d) /\ k \in Nat /\ d \in Nat
    BY <1>4
  <2>3. /\ rows \in [1..Extents(file) -> Seq(DiskCells)]
        /\ \A j \in 1..Extents(file) : rows[j] = ExtentCells(directory[k + j], ReadArea)
    BY <1>5, <1>19
  <2> QED
    BY <2>1, <2>2, <2>3, WholeReads
<1>21. PICK area : area = ReadArea
  OBVIOUS
<1>22. PartsRead(rows, e, m, extents, area)
  <2>1. \A i \in 1..m : extents[e[i]] = directory[k + i]
    BY <1>14
  <2> QED
    BY <1>19, <1>21, <2>1 DEF PartsRead
<1>24. [name |-> name, data |-> WithoutHeader(FlattenSeq(rows))] \in Range(Assembled(extents, area))
  <2>1. PICK S : rows \in [1..m -> S]
    BY <1>19
  <2> QED
    BY <1>5, <1>17, <1>22, <2>1, NameIsAssembled
<1>25. Len(directory) > 0
  <2>1. 1 \in 1..m
    BY <1>5
  <2>2. k + 1 \in 1..Len(directory)
    BY <1>7, <2>1 DEF Listed
  <2> QED
    BY <1>1, <2>2
<1> QED
  BY <1>6, <1>8, <1>20, <1>21, <1>24, <1>25

\* The disk's first cell says what its format is, or is its first entry.
LEMMA FirstCell ==
  ASSUME DiskHolds, filed # <<>>, DirectorySound, Len(directory) > 0
  PROVE  /\ Len(TrackPayload(image[1])) = TrackWidth
         /\ geometry = Plus3Geometry => Payload[1] = Specification
         /\ geometry = DataGeometry => Payload[1] = directory[1]
<1>1. /\ geometry \in Geometries /\ WithinTheDisk /\ ImageOK /\ 1 \notin spoilt
  BY ReadsWithin
<1>2. /\ TrackWidth \in Nat \ {0} /\ Tracks \in Nat \ {0} /\ SectorsPerTrack \in Nat \ {0, 1}
      /\ EntriesOf(geometry) \in Nat
  BY <1>1, DiskSizes
<1>3. 1 \in 1..Tracks /\ 1 \in 1..TrackWidth
  BY <1>2
<1>4. ~Damaged(image[1]) /\ TrackPayload(image[1]) = TrackCells(1)
  BY <1>1, <1>3, ImageReads
<1>5. \A c \in 1..TrackWidth : Payload[(1 - 1) * TrackWidth + c] = TrackPayload(image[1])[c]
  BY <1>1, <1>3, <1>4, ImageReads DEF MoreTracks
<1>6. Payload[1] = TrackCells(1)[1]
  <2>1. (1 - 1) * TrackWidth + 1 = 1
    BY <1>2
  <2> QED
    BY <1>3, <1>4, <1>5, <2>1
<1>7. Len(TrackCells(1)) = TrackWidth /\ (geometry = Plus3Geometry => TrackCells(1)[1] = Specification)
  BY <1>1, <1>3, TrackIs
<1>8. ASSUME geometry = DataGeometry
      PROVE  TrackCells(1)[1] = directory[1]
  <2>1. geometry.reserved = 0
    BY <1>8 DEF DataGeometry
  <2>2. TrackCells(1)[1] = Area[(1 - 1 - geometry.reserved) * TrackWidth + 1]
    BY <1>1, <1>3, <2>1, TrackIs
  <2>3. (1 - 1 - 0) * TrackWidth + 1 = 1
    BY <1>2
  <2>4. EntryAt(1) = 1
    BY DisketteAssumption DEF EntryAt
  <2>5. 1 \in 1..EntriesOf(geometry) /\ 1 \in 1..Len(directory)
    BY <1>1, <1>2 DEF WithinTheDisk
  <2>6. Area[EntryAt(1)] = directory[1]
    BY <1>1, <2>5, AreaIs
  <2> QED
    BY <2>1, <2>2, <2>3, <2>4, <2>6
<1> QED
  BY <1>4, <1>6, <1>7, <1>8

\* The files are read where the directory is.
LEMMA FilesAreAt ==
  ASSUME DiskHolds, filed # <<>>, DirectorySound
  PROVE  FilesAt(Payload, geometry.reserved * TrackWidth, EntriesOf(geometry)) =
           Assembled(DirectoryAt(ReadArea, EntriesOf(geometry)), ReadArea)
<1>1. /\ geometry \in Geometries /\ WithinTheDisk /\ ImageOK /\ 1 \notin spoilt
      /\ DirectorySize + Len(data) <= AreaOf(geometry) /\ Len(data) \in Nat
  BY ReadsWithin
<1>2. PICK start \in Nat : start = geometry.reserved * TrackWidth
  <2>1. geometry.reserved \in Nat /\ TrackWidth \in Nat
    BY <1>1, DiskSizes
  <2>2. geometry.reserved * TrackWidth \in Nat
    BY <2>1
  <2> QED
    BY <2>2
<1>3. PICK size \in Nat : size = AreaOf(geometry) /\ Len(Payload) = start + size
  BY <1>1, <1>2, AreaIs, AreaReads
<1>4. PICK taken \in Nat : taken = EntriesOf(geometry) * EntrySize /\ taken <= size
  <2>1. /\ EntriesOf(geometry) \in Nat /\ EntrySize \in Nat /\ DirectorySize \in Nat
        /\ EntriesOf(geometry) * EntrySize <= DirectorySize
    BY <1>1, DiskSizes
  <2>2. EntriesOf(geometry) * EntrySize \in Nat
    BY <2>1
  <2> QED
    BY <1>1, <1>3, <2>1, <2>2
<1>5. ~(start + EntriesOf(geometry) * EntrySize > Len(Payload))
  BY <1>3, <1>4
<1>6. PICK extents : extents = DirectoryAt(ReadArea, EntriesOf(geometry))
  OBVIOUS
<1>7. InDisk(extents, ReadArea)
  <2>1. PICK n \in Nat : \E at : ListsInTurn(at, n, extents)
    BY <1>6, DirectoryIsRead
  <2>2. PICK at : ListsInTurn(at, n, extents)
    BY <2>1
  <2>3. \A i \in DOMAIN extents : at[i] \in DOMAIN directory /\ extents[i] = directory[at[i]]
    <3>1. DOMAIN directory = 1..Len(directory)
      BY DEF DiskHolds
    <3> QED
      BY <2>2, <3>1 DEF ListsInTurn, Listed
  <2>4. \A e \in Range(extents) : \E i \in DOMAIN directory : e = directory[i]
    BY <2>3 DEF Range
  <2> QED
    BY <2>4, EntriesInDisk
<1>8. ReadArea = SubSeq(Payload, start + 1, Len(Payload))
  BY <1>2 DEF ReadArea
<1> QED
  BY <1>2, <1>5, <1>6, <1>7, <1>8 DEF FilesAt

\* What is found first is what is read.
FoundFirst(tried, i) == tried[i] # <<>> /\ \A j \in 1..(i - 1) : tried[j] = <<>>

LEMMA FirstIsFound ==
  ASSUME NEW T, NEW tried \in Seq(T), Len(tried) > 0, tried[1] # <<>>
  PROVE  (CHOOSE i \in DOMAIN tried : FoundFirst(tried, i)) = 1
<1>1. 1 \in DOMAIN tried /\ FoundFirst(tried, 1)
  BY DEF FoundFirst
<1>2. ASSUME NEW i \in DOMAIN tried, FoundFirst(tried, i)
      PROVE  i = 1
  <2>1. i \in Nat /\ i >= 1
    OBVIOUS
  <2>2. i # 1 => 1 \in 1..(i - 1)
    BY <2>1
  <2> QED
    BY <1>2, <2>2 DEF FoundFirst
<1> QED
  BY <1>1, <1>2

LEMMA FilesAreFound ==
  ASSUME DiskHolds, filed # <<>>, DirectorySound, Len(directory) > 0,
         NEW read, read = Assembled(DirectoryAt(ReadArea, EntriesOf(geometry)), ReadArea), read # <<>>
  PROVE  ReadFiles = read
<1> DEFINE payload == Payload
           trackSize == Len(TrackPayload(image[1]))
           said == IF IsSpecification(payload[1])
                   THEN <<FilesAt(payload, payload[1].reserved * trackSize,
                                  (payload[1].dirBlocks * BlockSize) \div EntrySize)>>
                   ELSE <<>>
           guessed == [r \in 1..3 |-> FilesAt(payload, (r - 1) * trackSize, EntriesOf(DataGeometry))]
           tried == said \o guessed
           Found(i) == tried[i] # <<>> /\ \A j \in 1..(i - 1) : tried[j] = <<>>
<1>1. ReadFiles = IF \A i \in DOMAIN tried : tried[i] = <<>> THEN <<>>
                  ELSE tried[CHOOSE i \in DOMAIN tried : Found(i)]
  BY DEF ReadFiles
<1>2. read = FilesAt(payload, geometry.reserved * TrackWidth, EntriesOf(geometry))
  BY FilesAreAt
<1>3. trackSize = TrackWidth
  BY FirstCell
<1>4. geometry \in Geometries /\ TrackWidth \in Nat
  BY ReadsWithin, DiskSizes
<1> DEFINE T == {said[1]} \cup {guessed[r] : r \in 1..3}
<1>5. guessed \in Seq(T) /\ Len(guessed) = 3
  OBVIOUS
<1>6. tried \in Seq(T) /\ Len(tried) > 0 /\ tried[1] = read
  <2>1. CASE geometry = Plus3Geometry
    <3>1. payload[1] = Specification
      BY <2>1, FirstCell
    <3>2. /\ IsSpecification(payload[1])
          /\ payload[1].reserved = geometry.reserved /\ payload[1].dirBlocks = geometry.dirBlocks
      BY <3>1 DEF IsSpecification, Specification
    <3> HIDE DEF payload, trackSize, guessed
    <3>3. said = <<read>>
      BY <1>2, <1>3, <3>2 DEF EntriesOf
    <3> HIDE DEF said
    <3>4. said \in Seq(T) /\ Len(said) = 1 /\ said[1] = read
      <4>1. said[1] = read /\ said[1] \in T
        BY <3>3
      <4> HIDE DEF T
      <4> QED
        BY <3>3, <4>1
    <3> HIDE DEF T
    <3>5. tried \in Seq(T) /\ Joined(tried, said, guessed)
      BY <1>5, <3>4, JoinedIs
    <3> QED
      BY <1>5, <3>4, <3>5 DEF Joined
  <2>2. CASE geometry = DataGeometry
    <3>1. payload[1] = directory[1]
      BY <2>2, FirstCell
    <3>2. PICK entry \in Entries : entry = directory[1]
      BY DEF DiskHolds
    <3>3. ~IsSpecification(payload[1])
      BY <3>1, <3>2 DEF IsSpecification, Entries
    <3> HIDE DEF payload, trackSize
    <3>4. said = <<>>
      BY <3>3
    <3>5. guessed[1] = read
      <4>1. geometry.reserved = 0
        BY <2>2 DEF DataGeometry
      <4>2. (1 - 1) * trackSize = geometry.reserved * TrackWidth
        BY <1>3, <1>4, <4>1
      <4> QED
        BY <1>2, <2>2, <4>2
    <3> HIDE DEF guessed
    <3>6. said \in Seq(T) /\ Len(said) = 0
      BY <3>4
    <3> HIDE DEF said, T
    <3>7. tried \in Seq(T) /\ Joined(tried, said, guessed)
      BY <1>5, <3>6, JoinedIs
    <3>8. tried[1] = guessed[1]
      <4>1. 1 \in 1..Len(guessed)
        BY <1>5
      <4>2. tried[Len(said) + 1] = guessed[1]
        BY <3>7, <4>1 DEF Joined
      <4>3. Len(said) + 1 = 1
        BY <3>6
      <4> QED
        BY <4>2, <4>3
    <3>9. Len(tried) = 3
      BY <1>5, <3>6, <3>7 DEF Joined
    <3> QED
      BY <3>5, <3>7, <3>8, <3>9
  <2> QED
    BY <1>4, <2>1, <2>2 DEF Geometries
<1> HIDE DEF tried, T
<1>7. (CHOOSE i \in DOMAIN tried : FoundFirst(tried, i)) = 1
  BY <1>6, FirstIsFound
<1>8. (CHOOSE i \in DOMAIN tried : Found(i)) = 1
  BY <1>7 DEF FoundFirst
<1>9. 1 \in DOMAIN tried /\ tried[1] # <<>>
  BY <1>6
<1> HIDE DEF Found
<1> QED
  BY <1>1, <1>6, <1>8, <1>9

\* What the invariant says of a disk is what its reader finds.
LEMMA HoldsReadsBack ==
  ASSUME DiskHolds
  PROVE  FilesReadBack
<1> SUFFICES ASSUME DirectorySound, NEW file \in Range(filed), Plain(file),
                    spoilt \cap TracksOf(BlocksOf(file)) = {}
             PROVE  [name |-> file.name, data |-> WithoutHeader(Filled(file.data, Recorded(file)))]
                      \in Range(ReadFiles)
  BY DEF FilesReadBack, DirectorySound, Recorded
<1>1. filed # <<>>
  <2>1. \E i : i \in DOMAIN filed
    BY DEF Range
  <2>2. DOMAIN <<>> = {}
    OBVIOUS
  <2> QED
    BY <2>1, <2>2
<1>2. PICK read : read = Assembled(DirectoryAt(ReadArea, EntriesOf(geometry)), ReadArea)
  OBVIOUS
<1>3. PICK whole : whole = [name |-> file.name, data |-> WithoutHeader(Filled(file.data, Recorded(file)))]
  OBVIOUS
<1>4. Len(directory) > 0 /\ whole \in Range(read)
  BY <1>1, <1>2, <1>3, PlainReads
<1>5. read # <<>>
  <2>1. \E i : i \in DOMAIN read
    BY <1>4 DEF Range
  <2>2. DOMAIN <<>> = {}
    OBVIOUS
  <2> QED
    BY <2>1, <2>2
<1>6. ReadFiles = read
  BY <1>1, <1>2, <1>4, <1>5, FilesAreFound
<1> QED
  BY <1>3, <1>4, <1>6

\* FILES READ BACK: whatever is put on a disk, in whatever sizes the format has, from
\* whatever sector its tracks were written on and whichever of them have gone bad,
\* every file that is once on it and lies on none of those reads as it was written
\* (plus3disk.go, diskImage; dsk.go, ParseDSK; amsdos.go, cpmFiles).
THEOREM FilesAreReadBack == DiskSpec(Contents) => []FilesReadBack
<1>1. (\E g \in Geometries : BlankDisk(g)) => DiskHolds
  BY BlankHolds
<1>2. DiskHolds /\ [DiskNext(Contents)]_disketteVars => DiskHolds'
  BY DiskHoldsStep
<1>3. DiskHolds => FilesReadBack
  BY HoldsReadsBack
<1>4. DiskSpec(Contents) <=> (\E g \in Geometries : BlankDisk(g)) /\ [][DiskNext(Contents)]_disketteVars
  BY DEF DiskSpec, Geometries
<1> QED
  BY <1>1, <1>2, <1>3, <1>4, PTL

-----------------------------------------------------------------------------
\* THE DISK OF A RELEASE

\* One position of a set comes after all the others, in the order of a key.
LEMMA LastByKey ==
  ASSUME NEW S, S \in SUBSET Int, IsFiniteSet(S), NEW key \in [S -> Int], S # {}
  PROVE  \E x \in S : \A y \in S \ {x} : Precedes(key, y, x)
<1> DEFINE Good == {A \in SUBSET S : A = {} \/ \E x \in A : \A y \in A \ {x} : Precedes(key, y, x)}
<1>1. ASSUME NEW A \in SUBSET S, \A x \in A : A \ {x} \in Good
      PROVE  A \in Good
  <2> SUFFICES ASSUME A # {}
               PROVE  \E x \in A : \A y \in A \ {x} : Precedes(key, y, x)
    OBVIOUS
  <2>1. PICK z \in A : TRUE
    OBVIOUS
  <2>2. PICK B : B = A \ {z} /\ B \in Good
    <3> HIDE DEF Good
    <3> QED
      BY <1>1
  <2>3. CASE B = {}
    BY <2>2, <2>3
  <2>4. CASE B # {}
    <3>1. PICK x \in B : \A y \in B \ {x} : Precedes(key, y, x)
      BY <2>2, <2>4
    <3>2. x \in S /\ z \in S /\ x # z /\ key[x] \in Int /\ key[z] \in Int /\ x \in Int /\ z \in Int
      BY <2>2, <3>1
    <3>3. CASE Precedes(key, z, x)
      <4>1. \A y \in A \ {x} : y = z \/ y \in B \ {x}
        BY <2>2
      <4> QED
        BY <2>2, <3>1, <3>3, <4>1
    <3>4. CASE ~Precedes(key, z, x)
      <4>1. Precedes(key, x, z)
        BY <3>2, <3>4 DEF Precedes
      <4>2. ASSUME NEW y \in A \ {z}
            PROVE  Precedes(key, y, z)
        <5>1. y \in S /\ key[y] \in Int /\ y \in Int
          OBVIOUS
        <5>2. CASE y = x
          BY <4>1, <5>2
        <5>3. CASE y # x
          <6>1. Precedes(key, y, x)
            BY <2>2, <3>1, <5>3
          <6> QED
            BY <3>2, <4>1, <5>1, <6>1 DEF Precedes
        <5> QED
          BY <5>2, <5>3
      <4> QED
        BY <4>2
    <3> QED
      BY <3>3, <3>4
  <2> QED
    BY <2>3, <2>4
<1>2. S \in Good
  <2> HIDE DEF Good
  <2> QED
    BY <1>1, FiniteInduction
<1> QED
  BY <1>2

\* What sorting makes of a set: there is one order of its positions by any key.
LEMMA OrderedExists ==
  ASSUME NEW S, S \in SUBSET Int, IsFiniteSet(S), NEW key \in [S -> Int]
  PROVE  \E n \in Nat : \E e : ListsByKey(e, n, S, key)
<1> DEFINE Good == {A \in SUBSET S : \E n \in Nat : \E e : ListsByKey(e, n, A, key)}
<1>1. ASSUME NEW A \in SUBSET S, \A x \in A : A \ {x} \in Good
      PROVE  A \in Good
  <2>1. CASE A = {}
    <3>1. <<>> \in [1..0 -> A] /\ 1..0 = {}
      OBVIOUS
    <3>2. ListsByKey(<<>>, 0, A, key)
      BY <2>1, <3>1 DEF ListsByKey
    <3> QED
      BY <3>2
  <2>2. CASE A # {}
    <3>1. PICK x \in A : \A y \in A \ {x} : Precedes(key, y, x)
      <4>1. PICK k : k = [y \in A |-> key[y]]
        OBVIOUS
      <4>2. k \in [A -> Int] /\ A \in SUBSET Int /\ IsFiniteSet(A)
        BY <4>1, FS_Subset
      <4>3. PICK x \in A : \A y \in A \ {x} : Precedes(k, y, x)
        BY <2>2, <4>2, LastByKey
      <4>4. \A y \in A \ {x} : Precedes(key, y, x)
        BY <4>1, <4>3 DEF Precedes
      <4> QED
        BY <4>4
    <3>2. PICK B : B = A \ {x} /\ B \in Good
      BY <1>1
    <3>3. PICK n \in Nat : \E s : ListsByKey(s, n, B, key)
      BY <3>2
    <3>4. PICK s : ListsByKey(s, n, B, key)
      BY <3>3
    <3>5. PICK t : t = [i \in 1..(n + 1) |-> IF i = n + 1 THEN x ELSE s[i]]
      OBVIOUS
    <3>6. /\ s \in [1..n -> B]
          /\ \A y \in B : \E i \in 1..n : s[i] = y
          /\ \A i, j \in 1..n : i < j => Precedes(key, s[i], s[j])
      BY <3>4 DEF ListsByKey
    <3>7. t \in [1..(n + 1) -> A] /\ t[n + 1] = x /\ \A i \in 1..n : t[i] = s[i] /\ i \in 1..(n + 1)
      BY <3>2, <3>5, <3>6
    <3>8. \A y \in A : \E i \in 1..(n + 1) : t[i] = y
      <4>1. n + 1 \in 1..(n + 1)
        OBVIOUS
      <4> QED
        BY <3>2, <3>6, <3>7, <4>1
    <3>9. ASSUME NEW i \in 1..(n + 1), NEW j \in 1..(n + 1), i < j
          PROVE  Precedes(key, t[i], t[j])
      <4>1. i \in 1..n
        BY <3>9
      <4>2. t[i] = s[i] /\ s[i] \in A \ {x}
        BY <3>2, <3>6, <3>7, <4>1
      <4>3. CASE j = n + 1
        BY <3>1, <3>7, <4>2, <4>3
      <4>4. CASE j # n + 1
        <5>1. j \in 1..n
          BY <4>4
        <5> QED
          BY <3>6, <3>7, <3>9, <4>1, <5>1
      <4> QED
        BY <4>3, <4>4
    <3>10. ListsByKey(t, n + 1, A, key)
      BY <3>7, <3>8, <3>9 DEF ListsByKey
    <3>11. n + 1 \in Nat
      OBVIOUS
    <3> QED
      BY <3>10, <3>11
  <2> QED
    BY <2>1, <2>2
<1>2. S \in Good
  <2> HIDE DEF Good
  <2> QED
    BY <1>1, FiniteInduction
<1> QED
  BY <1>2

\* Ordered lists a set, whatever the key.
LEMMA OrderedLists ==
  ASSUME NEW S, S \in SUBSET Int, IsFiniteSet(S), NEW key \in [S -> Int]
  PROVE  \E n \in Nat : Ordered(S, key) \in [1..n -> S]
<1>1. PICK n \in Nat : \E e : ListsByKey(e, n, S, key)
  BY OrderedExists
<1>2. PICK e : ListsByKey(e, n, S, key)
  BY <1>1
<1>3. Ordered(S, key) = e
  BY <1>2, OrderedIs
<1> QED
  BY <1>2, <1>3 DEF ListsByKey

\* The page of no pictures is blank.
LEMMA BlankPage == Page({}) = [body |-> <<>>, rows |-> <<>>, out |-> {}]
<1> DEFINE room == Top - PageAt - StubSize - IndexFixed
           Lay(page, n) ==
             IF Len(page.body) + Len(PackedPicture(n)) + IndexEntry > room
             THEN [page EXCEPT !.out = @ \cup {n}]
             ELSE [page EXCEPT !.rows = Append(@, <<NumberByte(n)>> \o Word(PageAt + Len(page.body))),
                               !.body = @ \o PackedPicture(n)]
           base == [body |-> <<>>, rows |-> <<>>, out |-> {}]
<1>1. PICK seq : seq = Ascending({})
  OBVIOUS
<1>2. DOMAIN seq = {}
  <2>1. PICK n \in Nat : Ascending({}) \in [1..n -> {}]
    <3>1. 0 \in Nat /\ {} \in SUBSET (0..0)
      OBVIOUS
    <3> QED
      BY <3>1, SortedIs
  <2> QED
    BY <1>1, <2>1
<1>3. PICK S : S = DOMAIN seq /\ S = {}
  BY <1>2
<1> DEFINE Folds(g) == g = [s \in SUBSET S |->
                              IF s = {} THEN base ELSE Lay(g[s \ {Max(s)}], seq[Max(s)])]
           it == CHOOSE g : Folds(g)
<1>4. Folds(it)
  <2>1. Folds([s \in SUBSET S |-> base])
    <3> HIDE DEF Lay, base
    <3> QED
      BY <1>3
  <2> HIDE DEF Folds
  <2> QED
    BY <2>1
<1>5. Page({}) = it[S]
  BY <1>1, <1>3 DEF Page, FoldLeft, MapThenFoldSet
<1>6. it[S] = base
  <2> HIDE DEF it, Lay, base
  <2> QED
    BY <1>3, <1>4
<1> QED
  BY <1>5, <1>6

\* What ends the +3's memory when no picture is kept there is of some length.
LEMMA BlankTop ==
  ASSUME PackedOK
  PROVE  Len(TopBlock(Page({}))) \in Nat
<1>1. PICK page : page = Page({}) /\ page.body = <<>> /\ page.rows = <<>>
  BY BlankPage
<1>2. Word(PageAt) \in Seq(Nat) /\ Word(Len(page.body)) \in Seq(Nat) /\ <<EndMark>> \in Seq(Nat)
  <2>1. PICK at \in Nat, size \in Nat : at = PageAt /\ size = Len(page.body)
    BY <1>1, Addresses
  <2>2. Word(at) \in Seq(Nat)
    BY WordSays
  <2>3. Word(size) \in Seq(Nat)
    BY WordSays
  <2>4. <<EndMark>> \in Seq(Nat)
    BY DEF EndMark
  <2> QED
    BY <2>1, <2>2, <2>3, <2>4
<1>3. FlattenSeq(page.rows) \in Seq(Nat)
  <2>1. PICK rows : rows = <<>>
    OBVIOUS
  <2>2. rows \in [1..0 -> Seq(Nat)] /\ \A r \in 1..0 : r < 0 => Len(rows[r]) = 0
    BY <2>1
  <2>3. FlattenSeq(rows) \in Seq(Nat)
    <3>1. 0 \in Nat
      OBVIOUS
    <3> QED
      BY <2>2, <3>1, Flattened
  <2> QED
    BY <1>1, <2>1, <2>3
<1>4. Index(page) \in Seq(Nat)
  <2>1. PICK a : a = Word(PageAt) \o Word(Len(page.body))
    OBVIOUS
  <2>2. PICK b : b = a \o <<EndMark>>
    OBVIOUS
  <2>3. PICK c : c = b \o FlattenSeq(page.rows)
    OBVIOUS
  <2>4. PICK d : d = c \o <<EndMark>>
    OBVIOUS
  <2>5. a \in Seq(Nat)
    BY <1>2, <2>1, JoinedAre
  <2>6. b \in Seq(Nat)
    BY <1>2, <2>2, <2>5, JoinedAre
  <2>7. c \in Seq(Nat)
    BY <1>3, <2>3, <2>6, JoinedAre
  <2>8. d \in Seq(Nat)
    BY <1>2, <2>4, <2>7, JoinedAre
  <2>9. Index(page) = Reverse(d)
    BY <2>1, <2>2, <2>3, <2>4 DEF Index
  <2> QED
    BY <2>8, <2>9 DEF Reverse
<1>5. TopBlock(page) \in Seq(Nat)
  <2>1. PICK index : index = Index(page)
    OBVIOUS
  <2>2. PICK a : a = Bytes(StubMark, StubSize - FontSize - FontTrailer)
    OBVIOUS
  <2>3. PICK b : b = Bytes(FontMark, FontSize)
    OBVIOUS
  <2>4. PICK c : c = Bytes(StubMark, FontTrailer)
    OBVIOUS
  <2>5. a \in Seq(Nat) /\ b \in Seq(Nat) /\ c \in Seq(Nat)
    <3>1. /\ StubMark \in Nat /\ FontMark \in Nat /\ FontSize \in Nat /\ FontTrailer \in Nat
          /\ StubSize - FontSize - FontTrailer \in Nat
      BY SpectrumSizes DEF StubMark, FontMark
    <3> QED
      BY <2>2, <2>3, <2>4, <3>1, BytesAre
  <2>6. (index \o a) \in Seq(Nat)
    BY <1>4, <2>1, <2>5, JoinedAre
  <2>7. ((index \o a) \o b) \in Seq(Nat)
    BY <2>5, <2>6, JoinedAre
  <2>8. (((index \o a) \o b) \o c) \in Seq(Nat)
    BY <2>5, <2>7, JoinedAre
  <2> QED
    BY <2>1, <2>2, <2>3, <2>4, <2>8 DEF TopBlock
<1> QED
  BY <1>1, <1>5, LenProperties

\* The pictures kept in memory are of the build's.
LEMMA CachedAre ==
  ASSUME PackedOK, PicturesWhole
  PROVE  Cached \subseteq DOMAIN packed.images
<1> DEFINE short == Cardinality(DOMAIN packed.images) + OtherFiles - Plus3Names
           over == IF short > 0 THEN short + 1 ELSE 0
           Grown(in, n) == in.used + PictureHeader + packed.images[n] + CacheEntry
           Choose(in, n) ==
             IF in.full \/ Len(in.chosen) >= over THEN in
             ELSE IF Grown(in, n) + CacheEntry > CacheRoom THEN [in EXCEPT !.full = TRUE]
             ELSE [in EXCEPT !.used = Grown(in, n), !.chosen = Append(@, n)]
           base == [used |-> 0, full |-> FALSE, chosen |-> <<>>]
<1>1. PICK D : D = DOMAIN packed.images /\ D \in SUBSET (0..EndMark)
  BY NumbersAreBytes
<1>2. /\ IsFiniteSet(D) /\ D \in SUBSET Int
      /\ packed.images \in [D -> Int]
  <2>1. IsFiniteSet(D)
    <3>1. EndMark \in Nat
      BY DEF EndMark
    <3> QED
      BY <1>1, <3>1, SortedExists
  <2>2. D \in SUBSET Int
    BY <1>1
  <2>3. \A n \in D : packed.images[n] \in Int
    BY <1>1 DEF PackedOK, PicturesWhole
  <2>4. packed.images = [n \in D |-> packed.images[n]]
    BY <1>1 DEF PackedOK
  <2> QED
    BY <2>1, <2>2, <2>3, <2>4
<1>3. PICK seq : seq = Ordered(D, packed.images)
  OBVIOUS
<1>4. PICK N \in Nat : seq \in [1..N -> D]
  BY <1>2, <1>3, OrderedLists
<1>5. PICK A : A = [used : Int, full : BOOLEAN, chosen : Seq(D)]
  OBVIOUS
<1>6. base \in A
  BY <1>5
<1>7. ASSUME NEW in \in A, NEW n \in D
      PROVE  Choose(in, n) \in A
  <2>1. in.used \in Int /\ in.full \in BOOLEAN /\ in.chosen \in Seq(D)
    BY <1>5
  <2>2. Grown(in, n) \in Int
    BY <1>2, <2>1 DEF PictureHeader, CacheEntry
  <2>3. Append(in.chosen, n) \in Seq(D)
    BY <2>1
  <2> HIDE DEF Grown, over
  <2>4. [in EXCEPT !.full = TRUE] \in A
    BY <1>5
  <2>5. [in EXCEPT !.used = Grown(in, n), !.chosen = Append(@, n)] \in A
    BY <1>5, <2>2, <2>3
  <2> QED
    BY <2>4, <2>5
<1> DEFINE step == [p \in (1..N) \X A |-> Choose(p[2], seq[p[1]])]
           Folds(g) == g = [s \in SUBSET (1..N) |->
                              IF s = {} THEN base ELSE Choose(g[s \ {Max(s)}], seq[Max(s)])]
<1>8. \E g : Folds(g)
  <2>1. step \in [(1..N) \X A -> A]
    <3> HIDE DEF Choose
    <3> QED
      BY <1>4, <1>7
  <2>2. PICK g \in [SUBSET (1..N) -> A] : LeftFold(g, N, base, step)
    <3> HIDE DEF step, base
    <3> QED
      BY <1>6, <2>1, LeftFoldExists
  <2>3. ASSUME NEW s \in SUBSET (1..N), s # {}
        PROVE  step[<<Max(s), g[s \ {Max(s)}]>>] = Choose(g[s \ {Max(s)}], seq[Max(s)])
    <3>1. Max(s) \in s
      <4>1. s \in SUBSET (0..N)
        OBVIOUS
      <4> QED
        BY <2>3, <4>1, GreatestNumber
    <3>2. <<Max(s), g[s \ {Max(s)}]>> \in (1..N) \X A
      BY <2>2, <3>1
    <3> HIDE DEF Choose
    <3> QED
      BY <3>2
  <2> HIDE DEF Choose, step, base
  <2>4. g = [s \in SUBSET (1..N) |-> IF s = {} THEN base ELSE Choose(g[s \ {Max(s)}], seq[Max(s)])]
    BY <2>2, <2>3 DEF LeftFold
  <2> QED
    BY <2>4
<1> DEFINE it == CHOOSE g : Folds(g)
<1>9. Folds(it)
  <2> HIDE DEF Folds
  <2> QED
    BY <1>8
<1>10. Cached = Range(it[1..N].chosen)
  <2> DEFINE order == Ordered(DOMAIN packed.images, packed.images)
             Over(g, S, s0) == g = [s \in SUBSET S |-> IF s = {} THEN base
                                                      ELSE Choose(g[s \ {Max(s)}], s0[Max(s)])]
  <2>1. Cached = Range((CHOOSE g : Over(g, DOMAIN order, order))[DOMAIN order].chosen)
    BY DEF Cached, FoldLeft, MapThenFoldSet
  <2>2. order = seq /\ DOMAIN order = 1..N
    BY <1>1, <1>3, <1>4
  <2> HIDE DEF order, Choose, base
  <2>3. \A g : Over(g, DOMAIN order, order) <=> Folds(g)
    BY <2>2
  <2>4. (CHOOSE g : Over(g, DOMAIN order, order)) = it
    <3> HIDE DEF Over, Folds
    <3> QED
      BY <2>3
  <2> HIDE DEF Over, it
  <2> QED
    BY <2>1, <2>2, <2>4
<1>11. it[1..0] = base /\ \A k \in Nat : k + 1 <= N => it[1..(k + 1)] = Choose(it[1..k], seq[k + 1])
  <2> HIDE DEF it, Choose, base
  <2>1. 1..0 = {} /\ 1..0 \in SUBSET (1..N)
    OBVIOUS
  <2>2. ASSUME NEW k \in Nat, k + 1 <= N
        PROVE  it[1..(k + 1)] = Choose(it[1..k], seq[k + 1])
    <3>1. 1..(k + 1) \in SUBSET (1..N)
      BY <2>2
    <3>2. PICK s : s = 1..(k + 1)
      OBVIOUS
    <3>3. s # {} /\ Max(s) = k + 1 /\ s \ {k + 1} = 1..k
      BY <3>2, UpToTheNext
    <3> QED
      BY <1>9, <3>1, <3>2, <3>3
  <2> QED
    BY <1>9, <2>1, <2>2
<1> HIDE DEF it, Choose, base
<1> DEFINE Good == {k \in Nat : k <= N => it[1..k] \in A}
<1>12. 0 \in Good
  BY <1>6, <1>11
<1>13. ASSUME NEW k \in Nat, k \in Good
       PROVE  k + 1 \in Good
  <2> SUFFICES ASSUME k + 1 <= N
               PROVE  it[1..(k + 1)] \in A
    OBVIOUS
  <2>1. k + 1 \in 1..N /\ it[1..k] \in A
    BY <1>13
  <2>2. seq[k + 1] \in D
    BY <1>4, <2>1
  <2> QED
    BY <1>7, <1>11, <2>1, <2>2
<1>14. N \in Good
  <2> HIDE DEF Good
  <2> QED
    BY <1>12, <1>13, NumbersInduction
<1>15. it[1..N].chosen \in Seq(D)
  BY <1>5, <1>14
<1> QED
  BY <1>1, <1>10, <1>15 DEF Range

\* What the files of releases are made of.
NamesOfReleases == {Part(n) : n \in PartNames} \cup {Picture(n) : n \in Numbers} \cup ReleaseNames
CellsOfReleases ==
  [byte : Int] \cup [header : Int] \cup [amsdos : Int] \cup [length : Int] \cup [number : Int]
    \cup [number : Int, size : Int, at : Int] \cup {Filler}

ReleasesCovered == NamesOfReleases \subseteq FileNames /\ CellsOfReleases \subseteq FileCells

LEMMA CellsAre ==
  ASSUME NEW mark \in Int, NEW size \in Nat
  PROVE  Cells(mark, size) \in Seq(CellsOfReleases)
<1>1. PICK cells : cells = [i \in 1..size |-> [byte |-> mark]]
  OBVIOUS
<1>2. [byte |-> mark] \in CellsOfReleases
  BY DEF CellsOfReleases
<1>3. cells \in Seq(CellsOfReleases)
  BY <1>1, <1>2
<1> QED
  BY <1>1, <1>3 DEF Cells

\* A file of one cell and the rest of its record.
LEMMA RecordIs ==
  ASSUME NEW cell \in CellsOfReleases
  PROVE  /\ Filled(<<cell>>, RecordSize) \in Seq(CellsOfReleases)
         /\ Len(Filled(<<cell>>, RecordSize)) = RecordSize
<1>1. RecordSize \in Nat /\ 1 <= RecordSize
  BY DisketteAssumption
<1>2. Filler \in CellsOfReleases
  BY DEF CellsOfReleases
<1>3. PICK one : one = <<cell>>
  OBVIOUS
<1>4. one \in Seq(CellsOfReleases) /\ Len(one) <= RecordSize
  BY <1>1, <1>3
<1>5. Fills(Filled(one, RecordSize), CellsOfReleases, one, RecordSize)
  BY <1>1, <1>2, <1>4, FilledIs
<1> QED
  BY <1>3, <1>5 DEF Fills

LEMMA FileIsCovered ==
  ASSUME ReleasesCovered, NEW name \in NamesOfReleases, NEW cells \in Seq(CellsOfReleases)
  PROVE  [name |-> name, data |-> cells] \in Contents
<1>1. name \in FileNames
  BY DEF ReleasesCovered
<1>2. cells \in Seq(FileCells)
  <2>1. cells \in [1..Len(cells) -> CellsOfReleases] /\ Len(cells) \in Nat
    OBVIOUS
  <2>2. cells \in [1..Len(cells) -> FileCells]
    BY <2>1 DEF ReleasesCovered
  <2> QED
    BY <2>1, <2>2
<1> QED
  BY <1>1, <1>2 DEF Contents

\* A picture's cells begin behind the first at of others.
PictureSize(n) == PictureHeader + packed.images[n]
PictureLies(cells, at, n) ==
  /\ at \in Nat /\ at + PictureSize(n) <= Len(cells)
  /\ \A j \in 1..PictureSize(n) : cells[at + j] = [byte |-> n]

\* A row of the buffer's index.
RowOf(n, at) == [number |-> n, size |-> packed.images[n], at |-> at]

\* The cells of a buffer: every picture of C has a row in the index, which says where
\* it lies, and nothing else has one but the end of it.
BufferHolds(cells, C) ==
  /\ cells \in Seq(CellsOfReleases) /\ cells # <<>> /\ ~IsHeader(cells[1])
  /\ \A n \in C : \E i \in 2..Len(cells), at \in Nat :
       cells[i] = RowOf(n, CacheAt + at - 1) /\ PictureLies(cells, at, n)
  /\ \A i \in 1..Len(cells) : "number" \in DOMAIN cells[i] => cells[i].number \in C \cup {EndMark}

\* A part of a release, of that name: the buffer is one for the pictures of C.
PartIs(file, name, C) ==
  /\ file.name = Part(name) /\ file.data # <<>>
  /\ name = "DAAD.GRA" => BufferHolds(file.data, C)

\* Parts in some order, one of each name.
PartsAre(s, names, C) ==
  /\ s \in Seq(Contents) /\ names \subseteq PartNames
  /\ \A i \in 1..Len(s) : \E name \in names : PartIs(s[i], name, C)
  /\ \A name \in names : \E i \in 1..Len(s) : s[i].name = Part(name)
  /\ \A i, j \in 1..Len(s) : i < j => s[i].name # s[j].name

LEMMA PartsApart ==
  /\ \A p, q : Part(p) = Part(q) => p = q
  /\ \A m, n : Picture(m) = Picture(n) => m = n
  /\ \A p, n : Part(p) # Picture(n)
<1>1. ASSUME NEW p, NEW q, Part(p) = Part(q)
      PROVE  p = q
  BY <1>1 DEF Part
<1>2. ASSUME NEW m, NEW n, Picture(m) = Picture(n)
      PROVE  m = n
  BY <1>2 DEF Picture
<1>3. ASSUME NEW p, NEW n, Part(p) = Picture(n)
      PROVE  FALSE
  <2>1. DOMAIN Part(p) = {"part"} /\ DOMAIN Picture(n) = {"picture"}
    BY DEF Part, Picture
  <2> QED
    BY <1>3, <2>1
<1> QED
  BY <1>1, <1>2, <1>3

LEMMA NoParts ==
  ASSUME NEW C
  PROVE  PartsAre(<<>>, {}, C)
BY DEF PartsAre

LEMMA OnePart ==
  ASSUME NEW C, NEW file \in Contents, NEW name \in PartNames, PartIs(file, name, C)
  PROVE  PartsAre(<<file>>, {name}, C)
<1>1. PICK s : s = <<file>>
  OBVIOUS
<1>2. s \in Seq(Contents) /\ Len(s) = 1 /\ s[1] = file
  BY <1>1
<1>3. file.name = Part(name)
  BY DEF PartIs
<1> QED
  BY <1>1, <1>2, <1>3 DEF PartsAre

LEMMA MoreParts ==
  ASSUME NEW C, NEW s, NEW names, PartsAre(s, names, C), NEW u, NEW others, PartsAre(u, others, C),
         names \cap others = {}
  PROVE  PartsAre(s \o u, names \cup others, C)
<1>1. PICK all : all = s \o u
  OBVIOUS
<1>2. PICK m \in Nat, k \in Nat : m = Len(s) /\ k = Len(u)
  BY DEF PartsAre
<1>3. /\ all \in Seq(Contents) /\ Len(all) = m + k
      /\ \A i \in 1..m : all[i] = s[i]
      /\ \A i \in 1..k : all[m + i] = u[i]
  <2>1. s \in Seq(Contents) /\ u \in Seq(Contents)
    BY DEF PartsAre
  <2> QED
    BY <1>1, <1>2, <2>1, Concatenated
<1>4. ASSUME NEW i \in 1..(m + k), i > m
      PROVE  \E j \in 1..k : i = m + j /\ all[i] = u[j]
  <2>1. i - m \in 1..k /\ i = m + (i - m)
    BY <1>4
  <2> QED
    BY <1>3, <2>1
<1>5. ASSUME NEW i \in 1..(m + k)
      PROVE  \E name \in names \cup others : PartIs(all[i], name, C)
  <2>1. CASE i <= m
    BY <1>2, <1>3, <2>1 DEF PartsAre
  <2>2. CASE i > m
    BY <1>2, <1>4, <2>2 DEF PartsAre
  <2> QED
    BY <2>1, <2>2
<1>6. ASSUME NEW name \in names \cup others
      PROVE  \E i \in 1..(m + k) : all[i].name = Part(name)
  <2>1. CASE name \in names
    <3>1. PICK i \in 1..m : s[i].name = Part(name)
      BY <1>2, <2>1 DEF PartsAre
    <3>2. i \in 1..(m + k)
      OBVIOUS
    <3> QED
      BY <1>3, <3>1, <3>2
  <2>2. CASE name \in others
    <3>1. PICK i \in 1..k : u[i].name = Part(name)
      BY <1>2, <2>2 DEF PartsAre
    <3>2. m + i \in 1..(m + k)
      OBVIOUS
    <3> QED
      BY <1>3, <3>1, <3>2
  <2> QED
    BY <2>1, <2>2
<1>7. ASSUME NEW i \in 1..(m + k), NEW j \in 1..(m + k), i < j
      PROVE  all[i].name # all[j].name
  <2>1. CASE j <= m
    <3>1. i \in 1..m /\ j \in 1..m
      BY <1>7, <2>1
    <3>2. s[i].name # s[j].name
      BY <1>2, <1>7, <3>1 DEF PartsAre
    <3> QED
      BY <1>3, <3>1, <3>2
  <2>2. CASE i > m
    <3>1. PICK a \in 1..k : i = m + a /\ all[i] = u[a]
      BY <1>4, <2>2
    <3>2. j > m
      BY <1>7, <2>2
    <3>3. PICK b \in 1..k : j = m + b /\ all[j] = u[b]
      BY <1>4, <3>2
    <3>4. a < b
      BY <1>7, <3>1, <3>3
    <3> QED
      BY <1>2, <3>1, <3>3, <3>4 DEF PartsAre
  <2>3. CASE i <= m /\ j > m
    <3>1. PICK p \in names : PartIs(s[i], p, C)
      BY <1>2, <2>3 DEF PartsAre
    <3>2. PICK b \in 1..k : all[j] = u[b]
      BY <1>4, <2>3
    <3>3. PICK q \in others : PartIs(u[b], q, C)
      BY <1>2, <3>2 DEF PartsAre
    <3>4. all[i].name = Part(p) /\ all[j].name = Part(q) /\ p # q
      BY <1>3, <2>3, <3>1, <3>2, <3>3 DEF PartIs
    <3> QED
      BY <3>4, PartsApart
  <2> QED
    BY <2>1, <2>2, <2>3
<1>8. names \cup others \subseteq PartNames
  BY DEF PartsAre
<1>9. PartsAre(all, names \cup others, C)
  BY <1>3, <1>5, <1>6, <1>7, <1>8 DEF PartsAre
<1> QED
  BY <1>1, <1>9

LEMMA HeadedIs ==
  ASSUME ReleasesCovered, NEW name \in PartNames, NEW mark \in Int, NEW size \in Nat
  PROVE  /\ Headed(name, mark, size) \in Contents
         /\ name # "DAAD.GRA" => \A C : PartIs(Headed(name, mark, size), name, C)
<1>1. [header |-> size] \in CellsOfReleases
  BY DEF CellsOfReleases
<1>2. PICK header \in Seq(CellsOfReleases) : header = Header(size) /\ Len(header) = RecordSize
  BY <1>1, RecordIs DEF Header
<1>3. PICK cells \in Seq(CellsOfReleases) : cells = Cells(mark, size)
  BY CellsAre
<1>4. PICK whole : whole = header \o cells
  OBVIOUS
<1>5. whole \in Seq(CellsOfReleases) /\ whole # <<>>
  <2>1. whole \in Seq(CellsOfReleases) /\ Len(whole) = Len(header) + Len(cells) /\ Len(cells) \in Nat
    BY <1>4, Concatenated
  <2>2. RecordSize \in Nat /\ RecordSize # 0
    BY DisketteAssumption
  <2>3. Len(whole) # 0
    BY <1>2, <2>1, <2>2
  <2> QED
    BY <2>1, <2>3
<1>6. PICK said \in NamesOfReleases : said = Part(name)
  BY DEF NamesOfReleases
<1>7. [name |-> said, data |-> whole] \in Contents
  BY <1>5, FileIsCovered
<1>8. PICK file : file = [name |-> said, data |-> whole] /\ file = Headed(name, mark, size)
  BY <1>2, <1>3, <1>4, <1>6 DEF Headed
<1>9. name # "DAAD.GRA" => \A C : PartIs(file, name, C)
  BY <1>5, <1>6, <1>8 DEF PartIs
<1> QED
  BY <1>7, <1>8, <1>9

LEMMA PictureFileIs ==
  ASSUME ReleasesCovered, PackedOK, PicturesWhole, NEW n \in DOMAIN packed.images
  PROVE  PictureFile(n) \in Contents /\ PictureFile(n).data \in Seq(CellsOfReleases)
<1>1. n \in Numbers /\ n \in Int
  <2>1. n \in Numbers
    BY DEF PackedOK
  <2>2. n \in 0..EndMark
    BY <2>1, PackagerAssumption
  <2> QED
    BY <2>1, <2>2, Marks
<1>2. PICK size \in Nat : size = PictureHeader + packed.images[n]
  BY DEF PackedOK, PicturesWhole, PictureHeader
<1>3. PICK cells \in Seq(CellsOfReleases) : cells = Cells(n, size)
  BY <1>1, CellsAre
<1>4. PICK said \in NamesOfReleases : said = Picture(n)
  BY <1>1 DEF NamesOfReleases
<1>5. PictureFile(n) = [name |-> said, data |-> cells]
  BY <1>2, <1>3, <1>4 DEF PictureFile
<1>6. [name |-> said, data |-> cells] \in Contents
  BY FileIsCovered
<1> QED
  BY <1>5, <1>6

\* cpcBinary.
LEMMA CPCFileIs ==
  ASSUME ReleasesCovered, PackedOK, NEW name \in ReleaseNames, CPCFits(name)
  PROVE  CPCFile(name) \in Contents
<1>1. PICK size \in Nat : size = CPCSize
  <2>1. SizeOf(packed.database) \in Nat
    BY Addresses DEF PackedOK
  <2>2. CPCOrigin \in Nat /\ CPCDatabase \in Nat /\ CPCGraphics \in Nat /\ InterpreterSize["cpc"] \in Nat
    BY PackagerAssumption
  <2>3. InterpreterSize["cpc"] <= CPCDatabase - CPCOrigin
    BY DEF CPCFits
  <2> QED
    BY <2>1, <2>2, <2>3 DEF CPCSize
<1>2. [amsdos |-> size] \in CellsOfReleases
  BY DEF CellsOfReleases
<1>3. PICK header \in Seq(CellsOfReleases) : header = Filled(<<[amsdos |-> size]>>, RecordSize)
  BY <1>2, RecordIs
<1>4. PICK cells \in Seq(CellsOfReleases) : cells = Cells(DatabaseMark, size)
  BY CellsAre DEF DatabaseMark
<1>5. PICK whole : whole = header \o cells
  OBVIOUS
<1>6. whole \in Seq(CellsOfReleases)
  BY <1>5, Concatenated
<1>7. name \in NamesOfReleases
  BY DEF NamesOfReleases
<1>8. [name |-> name, data |-> whole] \in Contents
  BY <1>6, <1>7, FileIsCovered
<1> QED
  BY <1>1, <1>3, <1>4, <1>5, <1>8 DEF CPCFile

LEMMA PictureCells ==
  ASSUME PackedOK, PicturesWhole, NEW n \in DOMAIN packed.images
  PROVE  /\ PictureSize(n) \in Nat \ {0} /\ n \in Nat
         /\ PictureFile(n).data = [j \in 1..PictureSize(n) |-> [byte |-> n]]
<1>1. packed.images[n] \in Nat
  BY DEF PackedOK, PicturesWhole
<1>2. n \in Nat
  BY NumbersAreBytes, Marks
<1> QED
  BY <1>1, <1>2 DEF PictureSize, PictureFile, PictureHeader, Cells

\* The pictures laid so far, k of those of a list, with the rows of the index they
\* have, when what they are laid behind is first cells long.
Laid(rows, cells, k, list, first) ==
  /\ rows \in Seq([number : Int, size : Int, at : Int]) /\ Len(rows) = k
  /\ cells \in Seq([byte : Int])
  /\ \A i \in 1..k : \E off \in Nat :
       rows[i] = RowOf(list[i], first + off) /\ PictureLies(cells, off, list[i])

LEMMA LaidStays ==
  ASSUME PackedOK, PicturesWhole, NEW n \in DOMAIN packed.images, NEW off, NEW more \in Seq([byte : Int]),
         NEW cells \in Seq([byte : Int]), PictureLies(cells, off, n)
  PROVE  PictureLies(cells \o more, off, n)
<1>1. PICK size \in Nat : size = PictureSize(n)
  BY PictureCells
<1>2. PICK all : all = cells \o more
  OBVIOUS
<1>3. /\ Len(all) = Len(cells) + Len(more) /\ \A i \in 1..Len(cells) : all[i] = cells[i]
      /\ Len(cells) \in Nat /\ Len(more) \in Nat
  BY <1>2, Concatenated
<1>4. off \in Nat /\ off + size <= Len(cells) /\ \A j \in 1..size : cells[off + j] = [byte |-> n]
  BY <1>1 DEF PictureLies
<1>5. ASSUME NEW j \in 1..size
      PROVE  all[off + j] = [byte |-> n]
  <2>1. off + j \in 1..Len(cells)
    BY <1>3, <1>4
  <2> QED
    BY <1>3, <1>4, <2>1
<1>6. off + size <= Len(all)
  BY <1>1, <1>3, <1>4
<1> QED
  BY <1>1, <1>2, <1>4, <1>5, <1>6 DEF PictureLies

LEMMA LaidNext ==
  ASSUME PackedOK, PicturesWhole, NEW N \in Nat, NEW list \in [1..N -> DOMAIN packed.images],
         NEW first \in Int, NEW k \in Nat, k + 1 <= N, NEW rows, NEW cells,
         Laid(rows, cells, k, list, first)
  PROVE  Laid(Append(rows, RowOf(list[k + 1], first + Len(cells))),
              cells \o PictureFile(list[k + 1]).data, k + 1, list, first)
<1>1. /\ rows \in Seq([number : Int, size : Int, at : Int]) /\ Len(rows) = k
      /\ cells \in Seq([byte : Int]) /\ Len(cells) \in Nat
  BY DEF Laid
<1>2. PICK n \in DOMAIN packed.images : n = list[k + 1]
  <2>1. k + 1 \in 1..N
    OBVIOUS
  <2> QED
    BY <2>1
<1>3. PICK size, more : size = PictureSize(n) /\ more = PictureFile(n).data
  OBVIOUS
<1>4. size \in Nat /\ n \in Int /\ more = [j \in 1..size |-> [byte |-> n]]
  BY <1>3, PictureCells
<1>14. more \in Seq([byte : Int]) /\ Len(more) = size
  <2>1. PICK T : T = [byte : Int]
    OBVIOUS
  <2>2. PICK cell : cell = [byte |-> n]
    OBVIOUS
  <2>3. cell \in T
    BY <1>4, <2>1, <2>2
  <2>4. more = [j \in 1..size |-> cell]
    BY <1>4, <2>2
  <2>5. more \in Seq(T) /\ Len(more) = size
    BY <1>4, <2>3, <2>4
  <2> QED
    BY <2>1, <2>5
<1>5. PICK all : all = cells \o more
  OBVIOUS
<1>6. /\ all \in Seq([byte : Int]) /\ Len(all) = Len(cells) + size
      /\ \A j \in 1..size : all[Len(cells) + j] = more[j]
  <2>1. PICK T : T = [byte : Int]
    OBVIOUS
  <2>2. cells \in Seq(T) /\ more \in Seq(T)
    BY <1>1, <1>14, <2>1
  <2>3. /\ cells \o more \in Seq(T) /\ Len(cells \o more) = Len(cells) + Len(more)
        /\ \A i \in 1..Len(more) : (cells \o more)[Len(cells) + i] = more[i]
    BY <2>2, Concatenated
  <2> QED
    BY <1>5, <1>14, <2>1, <2>3
<1>7. PictureLies(all, Len(cells), n)
  BY <1>1, <1>3, <1>4, <1>6 DEF PictureLies
<1>8. PICK row : row = RowOf(n, first + Len(cells))
  OBVIOUS
<1>9. row \in [number : Int, size : Int, at : Int]
  <2>1. packed.images[n] \in Int
    BY DEF PackedOK, PicturesWhole
  <2>2. first + Len(cells) \in Int
    BY <1>1
  <2> QED
    BY <1>4, <1>8, <2>1, <2>2 DEF RowOf
<1>10. PICK longer : longer = Append(rows, row)
  OBVIOUS
<1>11. /\ longer \in Seq([number : Int, size : Int, at : Int]) /\ Len(longer) = k + 1
       /\ longer[k + 1] = row /\ \A i \in 1..k : longer[i] = rows[i]
  <2>1. PICK T : T = [number : Int, size : Int, at : Int]
    OBVIOUS
  <2>2. rows \in Seq(T) /\ row \in T
    BY <1>1, <1>9, <2>1
  <2>3. /\ Append(rows, row) \in Seq(T) /\ Len(Append(rows, row)) = Len(rows) + 1
        /\ Append(rows, row)[Len(rows) + 1] = row
        /\ \A i \in 1..Len(rows) : Append(rows, row)[i] = rows[i]
    BY <2>2
  <2> QED
    BY <1>1, <1>10, <2>1, <2>3
<1>12. ASSUME NEW i \in 1..(k + 1)
       PROVE  \E off \in Nat : longer[i] = RowOf(list[i], first + off) /\ PictureLies(all, off, list[i])
  <2>1. CASE i = k + 1
    BY <1>1, <1>2, <1>7, <1>8, <1>11, <2>1
  <2>2. CASE i # k + 1
    <3>1. i \in 1..k /\ i \in 1..N
      BY <2>2
    <3>2. PICK m \in DOMAIN packed.images : m = list[i]
      BY <3>1
    <3>3. PICK off \in Nat : rows[i] = RowOf(m, first + off) /\ PictureLies(cells, off, m)
      BY <3>1, <3>2 DEF Laid
    <3>4. PictureLies(all, off, m)
      BY <1>1, <1>5, <1>14, <3>3, LaidStays
    <3> QED
      BY <1>11, <3>1, <3>2, <3>3, <3>4
  <2> QED
    BY <2>1, <2>2
<1>13. Laid(longer, all, k + 1, list, first)
  BY <1>6, <1>11, <1>12 DEF Laid
<1> QED
  BY <1>2, <1>3, <1>5, <1>8, <1>10, <1>13

\* The length, the index with its end, and the pictures: a buffer.
LEMMA BufferIs ==
  ASSUME PackedOK, PicturesWhole, NEW C \in SUBSET DOMAIN packed.images,
         NEW N \in Nat, NEW list \in [1..N -> C], \A n \in C : \E i \in 1..N : list[i] = n,
         NEW rows, NEW cells, Laid(rows, cells, N, list, CacheAt + (N + 1)), NEW length \in Int
  PROVE  BufferHolds(<<[length |-> length]>> \o (Append(rows, [number |-> EndMark]) \o cells), C)
<1>1. PICK T : T = CellsOfReleases
  OBVIOUS
<1>2. PICK head, end : head = [length |-> length] /\ end = [number |-> EndMark]
  OBVIOUS
<1>3. head \in T /\ end \in T
  BY <1>1, <1>2 DEF EndMark, CellsOfReleases
<1>4. rows \in Seq(T) /\ Len(rows) = N /\ cells \in Seq(T) /\ Len(cells) \in Nat
  <2>1. PICK R, B : R = [number : Int, size : Int, at : Int] /\ B = [byte : Int]
    OBVIOUS
  <2>2. R \subseteq T /\ B \subseteq T
    BY <1>1, <2>1 DEF CellsOfReleases
  <2>3. rows \in Seq(R) /\ cells \in Seq(B) /\ Len(rows) = N
    BY <2>1 DEF Laid
  <2> QED
    BY <2>2, <2>3
<1>5. PICK index : index = Append(rows, end)
  OBVIOUS
<1>6. /\ index \in Seq(T) /\ Len(index) = N + 1 /\ index[N + 1] = end
      /\ \A i \in 1..N : index[i] = rows[i]
  BY <1>3, <1>4, <1>5
<1>7. PICK rest : rest = index \o cells
  OBVIOUS
<1>8. /\ rest \in Seq(T) /\ Len(rest) = (N + 1) + Len(cells)
      /\ \A i \in 1..(N + 1) : rest[i] = index[i]
      /\ \A i \in 1..Len(cells) : rest[(N + 1) + i] = cells[i]
  BY <1>4, <1>6, <1>7, Concatenated
<1>9. PICK one, whole : one = <<head>> /\ whole = one \o rest
  OBVIOUS
<1>10. one \in Seq(T) /\ Len(one) = 1 /\ one[1] = head
  BY <1>3, <1>9
<1>11. /\ whole \in Seq(T) /\ Len(whole) = 1 + Len(rest) /\ whole[1] = head
       /\ \A i \in 1..Len(rest) : whole[1 + i] = rest[i]
  <2>1. /\ one \o rest \in Seq(T) /\ Len(one \o rest) = Len(one) + Len(rest)
        /\ \A i \in 1..Len(one) : (one \o rest)[i] = one[i]
        /\ \A i \in 1..Len(rest) : (one \o rest)[Len(one) + i] = rest[i]
    <3>1. one \in Seq(T) /\ rest \in Seq(T)
      BY <1>8, <1>10
    <3> QED
      BY <3>1, Concatenated
  <2>2. 1 \in 1..Len(one)
    BY <1>10
  <2> QED
    BY <1>9, <1>10, <2>1, <2>2
<1>12. \A i \in 1..N : whole[1 + i] = rows[i] /\ 1 + i \in 2..Len(whole)
  <2> SUFFICES ASSUME NEW i \in 1..N
               PROVE  whole[1 + i] = rows[i] /\ 1 + i \in 2..Len(whole)
    OBVIOUS
  <2>1. i \in 1..(N + 1) /\ i \in 1..Len(rest)
    BY <1>4, <1>8
  <2> QED
    BY <1>6, <1>8, <1>11, <2>1
<1>13. whole[N + 2] = end
  <2>1. N + 1 \in 1..(N + 1) /\ N + 1 \in 1..Len(rest)
    BY <1>4, <1>8
  <2>2. whole[1 + (N + 1)] = end
    BY <1>6, <1>8, <1>11, <2>1
  <2>3. 1 + (N + 1) = N + 2
    OBVIOUS
  <2> QED
    BY <2>2, <2>3
<1>14. \A i \in 1..Len(cells) : whole[(N + 2) + i] = cells[i]
  <2> SUFFICES ASSUME NEW i \in 1..Len(cells)
               PROVE  whole[(N + 2) + i] = cells[i]
    OBVIOUS
  <2>1. PICK j : j = (N + 1) + i
    OBVIOUS
  <2>2. j \in 1..Len(rest) /\ 1 + j = (N + 2) + i
    BY <1>4, <1>8, <2>1
  <2>3. whole[1 + j] = rest[j] /\ rest[j] = cells[i]
    BY <1>8, <1>11, <2>1, <2>2
  <2> QED
    BY <2>2, <2>3
<1>15. whole # <<>> /\ ~IsHeader(whole[1])
  <2>1. Len(whole) # 0
    BY <1>4, <1>8, <1>11
  <2>2. ~IsHeader(head)
    BY <1>2 DEF IsHeader
  <2> QED
    BY <1>11, <2>1, <2>2
<1>16. ASSUME NEW n \in C
       PROVE  \E i \in 2..Len(whole), at \in Nat :
                whole[i] = RowOf(n, CacheAt + at - 1) /\ PictureLies(whole, at, n)
  <2>1. PICK i \in 1..N : list[i] = n
    OBVIOUS
  <2>2. PICK off \in Nat : rows[i] = RowOf(n, CacheAt + (N + 1) + off) /\ PictureLies(cells, off, n)
    BY <2>1 DEF Laid
  <2>3. PICK at \in Nat : at = (N + 2) + off
    OBVIOUS
  <2>4. CacheAt + (N + 1) + off = CacheAt + at - 1
    <3>1. CacheAt \in Nat
      BY PackagerAssumption
    <3> QED
      BY <2>3, <3>1
  <2>5. PICK k : k = 1 + i
    OBVIOUS
  <2>6. k \in 2..Len(whole) /\ whole[k] = RowOf(n, CacheAt + at - 1)
    BY <1>12, <2>2, <2>4, <2>5
  <2>7. PictureLies(whole, at, n)
    <3>1. PICK size \in Nat : size = PictureSize(n)
      BY PictureCells
    <3>2. off + size <= Len(cells) /\ \A j \in 1..size : cells[off + j] = [byte |-> n]
      BY <2>2, <3>1 DEF PictureLies
    <3>3. at + size <= Len(whole)
      BY <1>4, <1>8, <1>11, <2>3, <3>2
    <3>4. ASSUME NEW j \in 1..size
          PROVE  whole[at + j] = [byte |-> n]
      <4>1. PICK c : c = off + j
        OBVIOUS
      <4>2. c \in 1..Len(cells) /\ (N + 2) + c = at + j
        BY <1>4, <2>3, <3>2, <4>1
      <4>3. whole[(N + 2) + c] = cells[c] /\ cells[c] = [byte |-> n]
        BY <1>14, <3>2, <4>1, <4>2
      <4> QED
        BY <4>2, <4>3
    <3> QED
      BY <3>1, <3>3, <3>4 DEF PictureLies
  <2> QED
    BY <2>6, <2>7
<1>17. ASSUME NEW i \in 1..Len(whole), "number" \in DOMAIN whole[i]
       PROVE  whole[i].number \in C \cup {EndMark}
  <2>1. CASE i = 1
    BY <1>2, <1>11, <1>17, <2>1
  <2>2. CASE i \in 2..(N + 1)
    <3>1. PICK j \in 1..N : i = 1 + j
      <4>1. i - 1 \in 1..N /\ i = 1 + (i - 1)
        BY <2>2
      <4> QED
        BY <4>1
    <3>2. PICK off \in Nat : rows[j] = RowOf(list[j], CacheAt + (N + 1) + off)
      BY <3>1 DEF Laid
    <3>3. whole[i].number = list[j]
      BY <1>12, <3>1, <3>2 DEF RowOf
    <3> QED
      BY <3>3
  <2>3. CASE i = N + 2
    BY <1>2, <1>13, <2>3
  <2>4. CASE i > N + 2
    <3>1. PICK j \in 1..Len(cells) : i = (N + 2) + j
      <4>1. i - (N + 2) \in 1..Len(cells) /\ i = (N + 2) + (i - (N + 2))
        BY <1>4, <1>8, <1>11, <2>4
      <4> QED
        BY <4>1
    <3>2. whole[i] = cells[j]
      BY <1>14, <3>1
    <3>3. cells[j] \in [byte : Int]
      <4>1. PICK B : B = [byte : Int]
        OBVIOUS
      <4>2. cells \in Seq(B)
        BY <4>1 DEF Laid
      <4>3. \A s \in Seq(B) : \A m \in 1..Len(s) : s[m] \in B
        OBVIOUS
      <4> QED
        BY <4>1, <4>2, <4>3
    <3> QED
      BY <1>17, <3>2, <3>3
  <2> QED
    BY <2>1, <2>2, <2>3, <2>4
<1>18. BufferHolds(whole, C)
  BY <1>1, <1>11, <1>15, <1>16, <1>17 DEF BufferHolds
<1> QED
  BY <1>2, <1>5, <1>7, <1>9, <1>18

\* plus3Cache.
LEMMA CacheFileIs ==
  ASSUME ReleasesCovered, PackedOK, PicturesWhole
  PROVE  CacheFile \in Contents /\ CacheFile.name = Part("DAAD.GRA") /\ BufferHolds(CacheFile.data, Cached)
<1> DEFINE Add(sofar, n) ==
             [rows |-> Append(sofar.rows, [number |-> n, size |-> packed.images[n],
                                           at |-> CacheAt + CacheIndexSize + Len(sofar.data)]),
              data |-> sofar.data \o PictureFile(n).data]
           base == [rows |-> <<>>, data |-> <<>>]
<1>1. PICK D : D = Cached /\ D \in SUBSET (0..EndMark) /\ D \subseteq DOMAIN packed.images
  BY CachedAre, NumbersAreBytes
<1>2. PICK seq : seq = Ascending(D)
  OBVIOUS
<1>3. PICK N \in Nat : /\ seq \in [1..N -> D] /\ N = Cardinality(D)
                       /\ \A n \in D : \E i \in 1..N : seq[i] = n
  <2>1. EndMark \in Nat
    BY DEF EndMark
  <2>2. seq \in [1..Cardinality(D) -> D] /\ Cardinality(D) \in Nat
    BY <1>1, <1>2, <2>1, SortedExists DEF Ascending
  <2>3. PICK n \in Nat : seq \in [1..n -> D] /\ \A x \in D : \E i \in 1..n : seq[i] = x
    <3>1. \E n \in Nat : /\ Ascending(D) \in [1..n -> D]
                         /\ \A x \in D : \E i \in 1..n : Ascending(D)[i] = x
      BY <1>1, <2>1, SortedIs
    <3> QED
      BY <1>2, <3>1
  <2>4. 1..n = 1..Cardinality(D)
    BY <2>2, <2>3
  <2>5. n = Cardinality(D)
    BY <2>2, <2>4
  <2> QED
    BY <2>3, <2>5
<1>4. PICK first \in Int : first = CacheAt + CacheIndexSize /\ first = CacheAt + (N + 1)
  <2>1. CacheAt \in Nat
    BY PackagerAssumption
  <2>2. CacheIndexSize = N + 1
    BY <1>1, <1>3 DEF CacheIndexSize, CacheEntry
  <2> QED
    BY <2>1, <2>2
<1>5. PICK T, Bs, A : /\ T = [number : Int, size : Int, at : Int] /\ Bs = [byte : Int]
                      /\ A = [rows : Seq(T), data : Seq(Bs)]
  OBVIOUS
<1>6. base \in A
  BY <1>5
<1>7. ASSUME NEW sofar \in A, NEW n \in D
      PROVE  Add(sofar, n) \in A
  <2>1. sofar.rows \in Seq(T) /\ sofar.data \in Seq(Bs)
    BY <1>5
  <2>2. PICK row : row = [number |-> n, size |-> packed.images[n],
                          at |-> CacheAt + CacheIndexSize + Len(sofar.data)]
    OBVIOUS
  <2>3. row \in T
    <3>1. n \in Nat /\ packed.images[n] \in Nat
      BY <1>1, PictureCells DEF PackedOK, PicturesWhole
    <3>2. CacheAt + CacheIndexSize + Len(sofar.data) \in Int
      BY <1>4, <2>1
    <3> QED
      BY <1>5, <2>2, <3>1, <3>2
  <2>4. Append(sofar.rows, row) \in Seq(T)
    BY <2>1, <2>3
  <2>5. PICK more : more = PictureFile(n).data
    OBVIOUS
  <2>6. more \in Seq(Bs)
    <3>1. PICK size \in Nat : size = PictureSize(n)
      BY <1>1, PictureCells
    <3>2. n \in Int /\ more = [j \in 1..size |-> [byte |-> n]]
      BY <1>1, <2>5, <3>1, PictureCells
    <3>3. PICK cell : cell = [byte |-> n]
      OBVIOUS
    <3>4. cell \in Bs
      BY <1>5, <3>2, <3>3
    <3>5. more = [j \in 1..size |-> cell]
      BY <3>2, <3>3
    <3> QED
      BY <3>4, <3>5
  <2>7. sofar.data \o more \in Seq(Bs)
    BY <2>1, <2>6, Concatenated
  <2> QED
    BY <1>5, <2>2, <2>4, <2>5, <2>7
<1> DEFINE step == [p \in (1..N) \X A |-> Add(p[2], seq[p[1]])]
           Folds(g) == g = [s \in SUBSET (1..N) |->
                              IF s = {} THEN base ELSE Add(g[s \ {Max(s)}], seq[Max(s)])]
<1>8. \E g : Folds(g)
  <2>1. step \in [(1..N) \X A -> A]
    <3> HIDE DEF Add
    <3> QED
      BY <1>3, <1>7
  <2>2. PICK g \in [SUBSET (1..N) -> A] : LeftFold(g, N, base, step)
    <3> HIDE DEF step, base
    <3> QED
      BY <1>6, <2>1, LeftFoldExists
  <2>3. ASSUME NEW s \in SUBSET (1..N), s # {}
        PROVE  step[<<Max(s), g[s \ {Max(s)}]>>] = Add(g[s \ {Max(s)}], seq[Max(s)])
    <3>1. Max(s) \in s
      <4>1. s \in SUBSET (0..N)
        OBVIOUS
      <4> QED
        BY <2>3, <4>1, GreatestNumber
    <3>2. <<Max(s), g[s \ {Max(s)}]>> \in (1..N) \X A
      BY <2>2, <3>1
    <3> HIDE DEF Add
    <3> QED
      BY <3>2
  <2> HIDE DEF Add, step, base
  <2>4. g = [s \in SUBSET (1..N) |-> IF s = {} THEN base ELSE Add(g[s \ {Max(s)}], seq[Max(s)])]
    BY <2>2, <2>3 DEF LeftFold
  <2> QED
    BY <2>4
<1> DEFINE it == CHOOSE g : Folds(g)
<1>9. Folds(it)
  <2> HIDE DEF Folds
  <2> QED
    BY <1>8
<1> DEFINE rest == Append(it[1..N].rows, [number |-> EndMark]) \o it[1..N].data
<1>10. CacheFile = [name |-> Part("DAAD.GRA"), data |-> <<[length |-> Len(rest)]>> \o rest]
  <2>1. DOMAIN seq = 1..N
    BY <1>3
  <2> QED
    BY <1>1, <1>2, <2>1 DEF CacheFile, FoldLeft, MapThenFoldSet
<1> HIDE DEF rest
<1>11. it[1..0] = base /\ \A k \in Nat : k + 1 <= N => it[1..(k + 1)] = Add(it[1..k], seq[k + 1])
  <2> HIDE DEF it, Add, base
  <2>1. 1..0 = {} /\ 1..0 \in SUBSET (1..N)
    OBVIOUS
  <2>2. ASSUME NEW k \in Nat, k + 1 <= N
        PROVE  it[1..(k + 1)] = Add(it[1..k], seq[k + 1])
    <3>1. 1..(k + 1) \in SUBSET (1..N)
      BY <2>2
    <3>2. PICK s : s = 1..(k + 1)
      OBVIOUS
    <3>3. s # {} /\ Max(s) = k + 1 /\ s \ {k + 1} = 1..k
      BY <3>2, UpToTheNext
    <3> QED
      BY <1>9, <3>1, <3>2, <3>3
  <2> QED
    BY <1>9, <2>1, <2>2
<1> HIDE DEF it, Add, base
<1> DEFINE Good == {k \in Nat : k <= N => /\ it[1..k] \in A
                                          /\ Laid(it[1..k].rows, it[1..k].data, k, seq, first)}
<1>12. 0 \in Good
  <2>1. it[1..0] \in A /\ it[1..0].rows = <<>> /\ it[1..0].data = <<>>
    BY <1>6, <1>11 DEF base
  <2>2. Laid(<<>>, <<>>, 0, seq, first)
    BY DEF Laid
  <2> QED
    BY <2>1, <2>2
<1>13. ASSUME NEW k \in Nat, k \in Good
       PROVE  k + 1 \in Good
  <2> SUFFICES ASSUME k + 1 <= N
               PROVE  /\ it[1..(k + 1)] \in A
                      /\ Laid(it[1..(k + 1)].rows, it[1..(k + 1)].data, k + 1, seq, first)
    OBVIOUS
  <2>1. PICK sofar \in A : sofar = it[1..k] /\ Laid(sofar.rows, sofar.data, k, seq, first)
    BY <1>13
  <2>2. PICK n \in D : n = seq[k + 1]
    <3>1. k + 1 \in 1..N
      OBVIOUS
    <3> QED
      BY <1>3, <3>1
  <2>3. PICK next : next = Add(sofar, n) /\ next = it[1..(k + 1)]
    BY <1>11, <2>1, <2>2
  <2>4. next \in A
    BY <1>7, <2>2, <2>3
  <2>5. next.rows = Append(sofar.rows, RowOf(seq[k + 1], first + Len(sofar.data)))
    BY <1>4, <2>2, <2>3 DEF Add, RowOf
  <2>6. next.data = sofar.data \o PictureFile(seq[k + 1]).data
    <3>1. PICK both, more : /\ next = [rows |-> both, data |-> more]
                            /\ more = sofar.data \o PictureFile(n).data
      BY <2>3, Zenon DEF Add
    <3>2. next.data = more
      BY <3>1
    <3> QED
      BY <2>2, <3>1, <3>2
  <2>7. seq \in [1..N -> DOMAIN packed.images]
    BY <1>1, <1>3
  <2>8. Laid(next.rows, next.data, k + 1, seq, first)
    BY <2>1, <2>5, <2>6, <2>7, LaidNext
  <2> QED
    BY <2>3, <2>4, <2>8
<1>14. N \in Good
  <2> HIDE DEF Good
  <2> QED
    BY <1>12, <1>13, NumbersInduction
<1>15. PICK rows, cells : /\ rows = it[1..N].rows /\ cells = it[1..N].data
                          /\ Laid(rows, cells, N, seq, CacheAt + (N + 1))
  BY <1>4, <1>14
<1>16. PICK length \in Int : length = Len(rest)
  <2>1. PICK R : R = CellsOfReleases
    OBVIOUS
  <2>2. rows \in Seq(R) /\ cells \in Seq(R) /\ [number |-> EndMark] \in R
    <3>1. T \subseteq R /\ Bs \subseteq R /\ [number |-> EndMark] \in R
      BY <1>5, <2>1 DEF CellsOfReleases, EndMark
    <3>2. rows \in Seq(T) /\ cells \in Seq(Bs)
      BY <1>5, <1>15 DEF Laid
    <3> QED
      BY <3>1, <3>2
  <2>3. PICK more : more = Append(rows, [number |-> EndMark])
    OBVIOUS
  <2>4. more \in Seq(R)
    BY <2>2, <2>3
  <2>5. PICK all : all = more \o cells
    OBVIOUS
  <2>6. all \in Seq(R)
    BY <2>2, <2>4, <2>5, Concatenated
  <2>7. Len(all) \in Int
    BY <2>6
  <2>8. rest = all
    BY <1>15, <2>3, <2>5 DEF rest
  <2> QED
    BY <2>7, <2>8
<1>17. PICK whole : whole = <<[length |-> length]>> \o (Append(rows, [number |-> EndMark]) \o cells)
  OBVIOUS
<1>18. BufferHolds(whole, D)
  BY <1>1, <1>3, <1>15, <1>17, BufferIs
<1>19. CacheFile = [name |-> Part("DAAD.GRA"), data |-> whole]
  BY <1>10, <1>15, <1>16, <1>17 DEF rest
<1>20. whole \in Seq(CellsOfReleases)
  BY <1>18 DEF BufferHolds
<1>21. PICK said \in NamesOfReleases : said = Part("DAAD.GRA")
  BY DEF NamesOfReleases, PartNames
<1>22. [name |-> said, data |-> whole] \in Contents
  BY <1>20, FileIsCovered
<1> QED
  BY <1>1, <1>18, <1>19, <1>21, <1>22

\* What is kept in memory, and the order of what is not.
Picks(C, list, N) ==
  /\ C \subseteq DOMAIN packed.images /\ EndMark \notin C
  /\ N \in Nat /\ list \in [1..N -> DOMAIN packed.images \ C]
  /\ \A i, j \in 1..N : list[i] = list[j] => i = j
  /\ \A n \in DOMAIN packed.images \ C : \E i \in 1..N : list[i] = n

\* The files for a +3's disk: the parts, and the first k of the pictures that are not
\* kept in memory.
MadeOf(of, front, list, k) ==
  /\ of \in Seq(Contents) /\ Len(of) = Len(front) + k
  /\ \A i \in 1..Len(front) : of[i] = front[i]
  /\ \A i \in 1..k : of[Len(front) + i] = PictureFile(list[i])

PartsNeeded(C) ==
  {"DISK", "DAAD.BIN", "PART1.DDB", "PART1.SDG"} \cup IF C = {} THEN {} ELSE {"DAAD.GRA"}

Complete(front, names, C) == PartsAre(front, names, C) /\ PartsNeeded(C) \subseteq names

\* zxPlus3.
LEMMA Plus3FilesAre ==
  ASSUME ReleasesCovered, PackedOK, PicturesWhole, BlocksFit("plus3", Page({})), CacheFits
  PROVE  /\ Plus3Files \in Seq(Contents)
         /\ \E C, list, N, front, names :
              Picks(C, list, N) /\ Complete(front, names, C) /\ MadeOf(Plus3Files, front, list, N)
<1>1. PICK C : C = Cached /\ C \subseteq DOMAIN packed.images /\ EndMark \notin C
  BY CachedAre DEF CacheFits
<1>2. PICK D : D = Loose /\ D = DOMAIN packed.images \ C /\ D \in SUBSET (0..EndMark)
  BY <1>1, NumbersAreBytes DEF Loose
<1>3. PICK loose : loose = Ascending(D)
  OBVIOUS
<1>4. PICK N \in Nat : /\ loose \in [1..N -> D]
                       /\ \A i, j \in 1..N : i < j => loose[i] < loose[j]
                       /\ \A n \in D : \E i \in 1..N : loose[i] = n
  <2>1. EndMark \in Nat /\ D \in SUBSET (0..EndMark)
    BY <1>2 DEF EndMark
  <2>2. \E n \in Nat : /\ Ascending(D) \in [1..n -> D]
                       /\ \A i, j \in 1..n : i < j => Ascending(D)[i] < Ascending(D)[j]
                       /\ \A x \in D : \E i \in 1..n : Ascending(D)[i] = x
    BY <2>1, SortedIs
  <2> QED
    BY <1>3, <2>2
<1>5. Picks(C, loose, N)
  <2>1. ASSUME NEW i \in 1..N, NEW j \in 1..N, loose[i] = loose[j]
        PROVE  i = j
    <3>1. loose[i] \in Nat
      BY <1>2, <1>4, Marks
    <3>2. ~(loose[i] < loose[j]) /\ ~(loose[j] < loose[i])
      BY <2>1, <3>1
    <3>3. ~(i < j) /\ ~(j < i)
      BY <1>4, <3>2
    <3> QED
      BY <3>3
  <2> QED
    BY <1>1, <1>2, <1>4, <2>1 DEF Picks
<1>6. PICK tail : tail = [i \in 1..N |-> PictureFile(loose[i])]
  OBVIOUS
<1>7. tail \in Seq(Contents) /\ Len(tail) = N
  <2>1. ASSUME NEW i \in 1..N
        PROVE  PictureFile(loose[i]) \in Contents
    <3>1. loose[i] \in DOMAIN packed.images
      BY <1>2, <1>4
    <3> QED
      BY <3>1, PictureFileIs
  <2> QED
    BY <1>6, <2>1
<1>8. PICK disk \in Contents : disk = Headed("DISK", Program, 1) /\ PartIs(disk, "DISK", C)
  BY HeadedIs DEF PartNames, Program
<1>9. PICK picture : picture = IF packed.loading = Empty THEN <<>>
                               ELSE <<Headed("LOADING.SCR", LoadingMark, packed.loading)>>
  OBVIOUS
<1>10. PICK shown \in SUBSET {"LOADING.SCR"} : PartsAre(picture, shown, C)
  <2>1. CASE packed.loading = Empty
    BY <1>9, <2>1, NoParts
  <2>2. CASE packed.loading # Empty
    <3>1. packed.loading \in Nat
      BY <2>2 DEF PackedOK
    <3>2. PICK file : file = Headed("LOADING.SCR", LoadingMark, packed.loading)
      OBVIOUS
    <3>3. file \in Contents /\ PartIs(file, "LOADING.SCR", C)
      BY <3>1, <3>2, HeadedIs DEF PartNames, LoadingMark
    <3>4. PartsAre(<<file>>, {"LOADING.SCR"}, C)
      BY <3>3, OnePart DEF PartNames
    <3> QED
      BY <1>9, <2>2, <3>2, <3>4
  <2> QED
    BY <2>1, <2>2
<1>11. PICK call \in Nat : call = IF C = {} THEN 0 ELSE CallSize
  <2>1. CallSize \in Nat
    BY PackagerAssumption
  <2> QED
    BY <2>1
<1>12. PICK interpreter \in Contents :
         /\ interpreter = Headed("DAAD.BIN", InterpreterMark, InterpreterSize["plus3"] + call)
         /\ PartIs(interpreter, "DAAD.BIN", C)
  <2>1. InterpreterSize["plus3"] + call \in Nat
    BY PackagerAssumption
  <2> QED
    BY <2>1, HeadedIs DEF PartNames, InterpreterMark
<1>13. PICK database \in Contents :
         /\ database = Headed("PART1.DDB", DatabaseMark, SizeOf(packed.database))
         /\ PartIs(database, "PART1.DDB", C)
  <2>1. SizeOf(packed.database) \in Nat
    BY Addresses DEF PackedOK
  <2> QED
    BY <2>1, HeadedIs DEF PartNames, DatabaseMark
<1>14. PICK top \in Contents : /\ top = Headed("PART1.SDG", StubMark, Len(TopBlock(Page({}))))
                               /\ PartIs(top, "PART1.SDG", C)
  BY BlankTop, HeadedIs DEF PartNames, StubMark
<1>15. PICK program : program = <<interpreter, database, top>>
  OBVIOUS
<1>16. PartsAre(program, {"DAAD.BIN", "PART1.DDB", "PART1.SDG"}, C)
  <2>1. /\ program \in Seq(Contents) /\ Len(program) = 3
        /\ program[1] = interpreter /\ program[2] = database /\ program[3] = top
    BY <1>15
  <2>2. /\ interpreter.name = Part("DAAD.BIN") /\ database.name = Part("PART1.DDB")
        /\ top.name = Part("PART1.SDG")
    BY <1>12, <1>13, <1>14 DEF PartIs
  <2>3. /\ interpreter.name # database.name /\ interpreter.name # top.name
        /\ database.name # top.name
    <3>1. "DAAD.BIN" # "PART1.DDB" /\ "DAAD.BIN" # "PART1.SDG" /\ "PART1.DDB" # "PART1.SDG"
      OBVIOUS
    <3> QED
      BY <2>2, <3>1, PartsApart
  <2>4. \A i \in 1..3 : i = 1 \/ i = 2 \/ i = 3
    OBVIOUS
  <2>5. \A i \in 1..Len(program) : \E name \in {"DAAD.BIN", "PART1.DDB", "PART1.SDG"} :
          PartIs(program[i], name, C)
    BY <1>12, <1>13, <1>14, <2>1, <2>4
  <2>6. \A i, j \in 1..Len(program) : i < j => program[i].name # program[j].name
    BY <2>1, <2>3, <2>4
  <2>7. \A name \in {"DAAD.BIN", "PART1.DDB", "PART1.SDG"} :
          \E i \in 1..Len(program) : program[i].name = Part(name)
    BY <2>1, <2>2
  <2>8. {"DAAD.BIN", "PART1.DDB", "PART1.SDG"} \subseteq PartNames
    BY DEF PartNames
  <2> QED
    BY <2>1, <2>5, <2>6, <2>7, <2>8 DEF PartsAre
<1>17. PICK cache : cache = IF C = {} THEN <<>> ELSE <<CacheFile>>
  OBVIOUS
<1>18. PICK kept \in SUBSET {"DAAD.GRA"} : PartsAre(cache, kept, C) /\ (C # {} => kept = {"DAAD.GRA"})
  <2>1. CASE C = {}
    BY <1>17, <2>1, NoParts
  <2>2. CASE C # {}
    <3>1. PICK file \in Contents : file = CacheFile /\ file.name = Part("DAAD.GRA") /\ BufferHolds(file.data, C)
      BY <1>1, CacheFileIs
    <3>2. PartIs(file, "DAAD.GRA", C)
      BY <3>1 DEF PartIs, BufferHolds
    <3>3. PartsAre(<<file>>, {"DAAD.GRA"}, C)
      BY <3>2, OnePart DEF PartNames
    <3> QED
      BY <1>17, <2>2, <3>1, <3>3
  <2> QED
    BY <2>1, <2>2
<1>19. PICK first : first = <<disk>> /\ PartsAre(first, {"DISK"}, C)
  BY <1>8, OnePart DEF PartNames
<1>20. PICK front : front = ((first \o picture) \o program) \o cache
  OBVIOUS
<1>21. Plus3Files = front \o tail
  <2>1. DOMAIN loose = 1..N
    BY <1>4
  <2> QED
    BY <1>1, <1>2, <1>3, <1>6, <1>8, <1>9, <1>11, <1>12, <1>13, <1>14, <1>15, <1>17, <1>19, <1>20, <2>1 DEF Plus3Files
<1>22. PICK names : Complete(front, names, C)
  <2>1. PICK one, two, three : one = first \o picture /\ two = one \o program /\ three = two \o cache
    OBVIOUS
  <2>2. PICK a, b, c : /\ a = {"DISK"} \cup shown /\ b = a \cup {"DAAD.BIN", "PART1.DDB", "PART1.SDG"}
                       /\ c = b \cup kept
    OBVIOUS
  <2>3. {"DISK"} \cap shown = {}
    OBVIOUS
  <2>4. PartsAre(one, a, C)
    BY <1>10, <1>19, <2>1, <2>2, <2>3, MoreParts
  <2>5. a \cap {"DAAD.BIN", "PART1.DDB", "PART1.SDG"} = {}
    BY <2>2
  <2>6. PartsAre(two, b, C)
    BY <1>16, <2>1, <2>2, <2>4, <2>5, MoreParts
  <2>7. b \cap kept = {}
    BY <2>2
  <2>8. PartsAre(three, c, C)
    BY <1>18, <2>1, <2>2, <2>6, <2>7, MoreParts
  <2>9. PartsNeeded(C) \subseteq c
    BY <1>18, <2>2 DEF PartsNeeded
  <2> QED
    BY <1>20, <2>1, <2>8, <2>9 DEF Complete
<1>23. front \in Seq(Contents)
  BY <1>22 DEF Complete, PartsAre
<1>24. PICK all : all = front \o tail
  OBVIOUS
<1>25. /\ all \in Seq(Contents) /\ Len(all) = Len(front) + N
       /\ \A i \in 1..Len(front) : all[i] = front[i]
       /\ \A i \in 1..N : all[Len(front) + i] = tail[i]
  <2>1. /\ front \o tail \in Seq(Contents) /\ Len(front \o tail) = Len(front) + Len(tail)
        /\ \A i \in 1..Len(front) : (front \o tail)[i] = front[i]
        /\ \A i \in 1..Len(tail) : (front \o tail)[Len(front) + i] = tail[i]
    BY <1>7, <1>23, Concatenated
  <2> QED
    BY <1>7, <1>24, <2>1
<1>26. MadeOf(all, front, loose, N)
  BY <1>6, <1>25 DEF MadeOf
<1> QED
  BY <1>5, <1>21, <1>22, <1>24, <1>25, <1>26

\* The invariant of a release's disk: it is begun blank, and is not closed, nor worn,
\* before the last file is on it.
DiskOfRelease ==
  /\ DiskHolds
  /\ onto \in Seq(Contents)
  /\ packing \in {"idle", "assembling"} => BlankDisk(geometry)
  /\ packing = "writing" => image = <<>> /\ spoilt = {}

LEMMA DiskOfReleaseStarts ==
  ASSUME PackagerInit
  PROVE  DiskOfRelease
<1>1. BlankDisk(Plus3Geometry) /\ geometry = Plus3Geometry /\ packing = "idle" /\ onto = <<>>
  BY DEF PackagerInit, BlankDisk
<1>2. DiskHolds
  BY <1>1, BlankHolds DEF Geometries
<1>3. onto \in Seq(Contents)
  BY <1>1
<1> QED
  BY <1>1, <1>2, <1>3 DEF DiskOfRelease

\* A step that leaves the disk alone, and does not begin to pack one.
LEMMA DiskStands ==
  ASSUME DiskOfRelease, UNCHANGED disketteVars, onto' \in Seq(Contents),
         \/ packing' = packing
         \/ packing = "idle" /\ packing' = "assembling"
         \/ packing = "assembling" /\ packing' = "writing"
         \/ packing' \in {"done", "failed"}
  PROVE  DiskOfRelease'
<1>1. DiskHolds'
  BY DiskHoldsStep DEF DiskOfRelease
<1>2. BlankDisk(geometry) => BlankDisk(geometry)'
  BY DEF BlankDisk, disketteVars
<1>3. BlankDisk(geometry) => image = <<>> /\ spoilt = {}
  BY DEF BlankDisk
<1>4. image' = image /\ spoilt' = spoilt
  BY DEF disketteVars
<1> QED
  BY <1>1, <1>2, <1>3, <1>4 DEF DiskOfRelease

LEMMA AssembleFilesHolds ==
  ASSUME ReleasesCovered, ReleaseOK, DiskOfRelease, AssembleFiles
  PROVE  DiskOfRelease'
<1>1. packing = "assembling" /\ BlankDisk(geometry) /\ PackedOK
  BY DEF AssembleFiles, DiskOfRelease, ReleaseOK
<1>2. CASE Fail
  <2>1. UNCHANGED disketteVars /\ packing' = "failed" /\ onto' = onto
    BY <1>2 DEF Fail
  <2>2. onto' \in Seq(Contents)
    BY <2>1 DEF DiskOfRelease
  <2> QED
    BY <2>1, <2>2, DiskStands
<1>3. CASE /\ PicturesWhole /\ BlocksFit("plus3", Page({})) /\ CacheFits
           /\ onto' = Plus3Files /\ packing' = "writing" /\ UNCHANGED disketteVars
  <2>1. onto' \in Seq(Contents)
    BY <1>1, <1>3, Plus3FilesAre
  <2> QED
    BY <1>1, <1>3, <2>1, DiskStands
<1>4. ASSUME NEW name \in ReleaseNames, CPCFits(name),
             /\ onto' = <<CPCFile(name)>> /\ packing' = "writing" /\ geometry' = DataGeometry
             /\ UNCHANGED <<directory, data, filed, refusal, image, spoilt>>
      PROVE  DiskOfRelease'
  <2>1. PICK file \in Contents : file = CPCFile(name)
    BY <1>1, <1>4, CPCFileIs
  <2>2. onto' \in Seq(Contents)
    BY <1>4, <2>1
  <2>3. BlankDisk(DataGeometry)'
    BY <1>1, <1>4 DEF BlankDisk
  <2>4. DiskNext(Contents)
    BY <2>3 DEF DiskNext
  <2>5. DiskHolds'
    BY <2>4, DiskHoldsStep DEF DiskOfRelease
  <2>6. image' = <<>> /\ spoilt' = {}
    BY <2>3 DEF BlankDisk
  <2> QED
    BY <1>4, <2>2, <2>5, <2>6 DEF DiskOfRelease
<1> QED
  BY <1>2, <1>3, <1>4 DEF AssembleFiles

LEMMA PutNextHolds ==
  ASSUME DiskOfRelease, PutNext
  PROVE  DiskOfRelease'
<1>1. filed \in Seq(Contents) /\ onto \in Seq(Contents) /\ Len(filed) < Len(onto)
  BY DEF PutNext, DiskOfRelease, DiskHolds
<1>2. Len(filed) + 1 \in 1..Len(onto)
  BY <1>1
<1>3. PICK file \in Contents : file = onto[Len(filed) + 1]
  BY <1>1, <1>2
<1>4. PutFile(file) /\ UNCHANGED packagerVars /\ packing = "writing"
  BY <1>3 DEF PutNext
<1>5. DiskNext(Contents)
  BY <1>4 DEF DiskNext
<1>6. DiskHolds'
  BY <1>5, DiskHoldsStep DEF DiskOfRelease
<1>7. image' = image /\ spoilt' = spoilt /\ packing' = packing /\ onto' = onto
  BY <1>4 DEF PutFile, packagerVars
<1> QED
  BY <1>1, <1>4, <1>6, <1>7 DEF DiskOfRelease

LEMMA DropPictureHolds ==
  ASSUME DiskOfRelease, DropPicture
  PROVE  DiskOfRelease'
<1>1. /\ onto \in Seq(Contents) /\ packing = "writing" /\ image = <<>> /\ spoilt = {}
      /\ geometry \in Geometries
  BY DEF DropPicture, DiskOfRelease, DiskHolds, DiskOK
<1>2. CASE Fail
  <2>1. UNCHANGED disketteVars /\ packing' = "failed" /\ onto' = onto
    BY <1>2 DEF Fail
  <2>2. onto' \in Seq(Contents)
    BY <1>1, <2>1
  <2> QED
    BY <2>1, <2>2, DiskStands
<1>3. CASE /\ onto' = SubSeq(onto, 1, Len(onto) - 1) /\ packing' = packing
           /\ directory' = <<>> /\ data' = <<>> /\ filed' = <<>> /\ refusal' = "no"
           /\ UNCHANGED <<geometry, image, spoilt>>
  <2>1. onto' \in Seq(Contents)
    <3>1. CASE Len(onto) = 0
      <4>1. onto' = <<>>
        BY <1>1, <1>3, <3>1
      <4> QED
        BY <4>1
    <3>2. CASE Len(onto) # 0
      BY <1>1, <1>3, <3>2
    <3> QED
      BY <3>1, <3>2
  <2>2. PICK g \in Geometries : g = geometry
    BY <1>1
  <2>3. BlankDisk(g)'
    BY <1>1, <1>3, <2>2 DEF BlankDisk
  <2>4. DiskNext(Contents)
    BY <2>3 DEF DiskNext, Geometries
  <2>5. DiskHolds'
    BY <2>4, DiskHoldsStep DEF DiskOfRelease
  <2> QED
    BY <1>1, <1>3, <2>1, <2>5 DEF DiskOfRelease
<1> QED
  BY <1>2, <1>3 DEF DropPicture

LEMMA DiskOfReleaseStep ==
  ASSUME ReleasesCovered, ReleaseOK, DiskOfRelease,
         [ReleaseNext]_<<folderVars, packagerVars, disketteVars>>
  PROVE  DiskOfRelease'
<1>1. onto \in Seq(Contents)
  BY DEF DiskOfRelease
<1>2. CASE UNCHANGED packagerVars /\ UNCHANGED disketteVars
  <2>1. onto' = onto /\ packing' = packing
    BY <1>2 DEF packagerVars
  <2> QED
    BY <1>1, <1>2, <2>1, DiskStands
<1>3. CASE ReadBuild
  <2>1. /\ UNCHANGED disketteVars /\ onto' = onto /\ packing = "idle"
        /\ packing' \in {"assembling", "failed"}
    BY <1>3 DEF ReadBuild
  <2> QED
    BY <1>1, <2>1, DiskStands
<1>4. CASE AssembleTape
  <2>1. UNCHANGED disketteVars /\ onto' = onto /\ packing' \in {"done", "failed"}
    BY <1>4 DEF AssembleTape, Fail
  <2> QED
    BY <1>1, <2>1, DiskStands
<1>5. CASE AssembleFiles
  BY <1>5, AssembleFilesHolds
<1>6. CASE PutNext
  BY <1>6, PutNextHolds
<1>7. CASE DropPicture
  BY <1>7, DropPictureHolds
<1>8. CASE FinishDisk
  <2>1. CloseDisk /\ packing' = "done" /\ onto' = onto
    BY <1>8 DEF FinishDisk
  <2>2. DiskNext(Contents)
    BY <2>1 DEF DiskNext
  <2>3. DiskHolds'
    BY <2>2, DiskHoldsStep DEF DiskOfRelease
  <2> QED
    BY <1>1, <2>1, <2>3 DEF DiskOfRelease
<1>9. CASE WearDisk
  <2>1. PICK t \in 1..Tracks : Turn(t) \/ Spoil(t)
    BY <1>9 DEF WearDisk
  <2>2. DiskNext(Contents)
    BY <2>1 DEF DiskNext
  <2>3. DiskHolds'
    BY <2>2, DiskHoldsStep DEF DiskOfRelease
  <2>4. image # <<>>
    BY <2>1 DEF Turn, Spoil
  <2>5. packing' = packing /\ onto' = onto
    BY <1>9 DEF WearDisk, packagerVars
  <2>6. BlankDisk(geometry) => image = <<>>
    BY DEF BlankDisk
  <2> QED
    BY <1>1, <2>3, <2>4, <2>5, <2>6 DEF DiskOfRelease
<1> QED
  BY <1>2, <1>3, <1>4, <1>5, <1>6, <1>7, <1>8, <1>9 DEF ReleaseNext, PackagerNext

\* THE DISK OF A RELEASE: whatever the build, however its writing was stopped, whichever
\* pictures were left out for want of room and whatever became of the disk once it had
\* left, no block of it is handed out twice and its files read back
\* (zxrelease.go, ZXDisk and zxPlus3; cpc.go, CPCRelease; plus3disk.go, diskImage).
THEOREM ReleasesReadBack ==
  ASSUME ReleasesCovered
  PROVE  ReleaseSpec => [](BlocksAreOwned /\ FilesReadBack)
<1>1. FolderInit /\ PackagerInit => ReleaseOK /\ DiskOfRelease
  BY ReleaseStarts, DiskOfReleaseStarts
<1>2. /\ ReleaseOK /\ DiskOfRelease
      /\ [ReleaseNext]_<<folderVars, packagerVars, disketteVars>>
      => ReleaseOK' /\ DiskOfRelease'
  BY ReleaseStep, DiskOfReleaseStep
<1>3. DiskOfRelease => BlocksAreOwned /\ FilesReadBack
  BY HoldsReadsBack DEF DiskOfRelease, DiskHolds, DiskOK
<1> QED
  BY <1>1, <1>2, <1>3, PTL DEF ReleaseSpec

-----------------------------------------------------------------------------
\* WHAT IS READ IS WHAT WAS WRITTEN

\* A file as it is read of a disk.
AsRead(file) == [name |-> file.name, data |-> WithoutHeader(Filled(file.data, Recorded(file)))]

\* Files are assembled under the names of their extents, one under each.
LEMMA NamesAssembled ==
  ASSUME NEW n \in Nat, NEW extents, DOMAIN extents = 1..n, NEW area
  PROVE  /\ \A f \in Range(Assembled(extents, area)) : \E x \in 1..n : f.name = extents[x].entry
         /\ \A f, g \in Range(Assembled(extents, area)) : f.name = g.name => f = g
<1> DEFINE PartsOf(of) == {i \in DOMAIN extents : extents[i].entry = of}
           Whole(of) ==
             LET at == Ordered(PartsOf(of), [i \in PartsOf(of) |-> extents[i].number])
             IN  FlattenSeq([i \in DOMAIN at |-> ExtentCells(extents[at[i]], area)])
           first == {i \in DOMAIN extents : \A j \in 1..(i - 1) : extents[j].entry # extents[i].entry}
           met == InTurn(first)
           Of(x) == [name |-> extents[x].entry, data |-> WithoutHeader(Whole(extents[x].entry))]
<1>1. Assembled(extents, area) = [i \in DOMAIN met |-> Of(met[i])]
  BY DEF Assembled
<1>2. PICK count \in Nat : met \in [1..count -> first]
  <2>1. first \in SUBSET (0..n)
    OBVIOUS
  <2> HIDE DEF first
  <2>2. \E count \in Nat : /\ InTurn(first) \in [1..count -> first]
                           /\ \A i, j \in 1..count : i < j => InTurn(first)[i] < InTurn(first)[j]
                           /\ \A y \in first : \E i \in 1..count : InTurn(first)[i] = y
    BY <2>1, InTurnIs
  <2> QED
    BY <2>2
<1>3. \A x \in first : x \in 1..n /\ Of(x).name = extents[x].entry
  OBVIOUS
<1>4. ASSUME NEW x \in first, NEW y \in first, extents[x].entry = extents[y].entry
      PROVE  x = y
  <2>1. x \in 1..n /\ y \in 1..n
    OBVIOUS
  <2>2. ~(x < y)
    <3>1. x < y => x \in 1..(y - 1)
      BY <2>1
    <3> QED
      BY <1>4, <3>1
  <2>3. ~(y < x)
    <3>1. y < x => y \in 1..(x - 1)
      BY <2>1
    <3> QED
      BY <1>4, <3>1
  <2> QED
    BY <2>1, <2>2, <2>3
<1> HIDE DEF met, first, Of
<1>5. \A f \in Range(Assembled(extents, area)) : \E x \in first : f = Of(x)
  BY <1>1, <1>2 DEF Range
<1>6. ASSUME NEW f \in Range(Assembled(extents, area)), NEW g \in Range(Assembled(extents, area)),
             f.name = g.name
      PROVE  f = g
  <2>1. PICK x \in first, y \in first : f = Of(x) /\ g = Of(y)
    BY <1>5
  <2>2. x = y
    BY <1>3, <1>4, <1>6, <2>1
  <2> QED
    BY <2>1, <2>2
<1> QED
  BY <1>3, <1>5, <1>6

\* Every name that is read is that of a file on the disk.
LEMMA OnlyFilesAreRead ==
  ASSUME DiskHolds, filed # <<>>, DirectorySound,
         NEW f \in Range(Assembled(DirectoryAt(ReadArea, EntriesOf(geometry)), ReadArea))
  PROVE  \E file \in Range(filed) : f.name = file.name
<1>1. PICK extents : extents = DirectoryAt(ReadArea, EntriesOf(geometry))
  OBVIOUS
<1>2. PICK n \in Nat : \E at : ListsInTurn(at, n, extents)
  BY <1>1, DirectoryIsRead
<1>3. PICK at : ListsInTurn(at, n, extents)
  BY <1>2
<1>4. PICK x \in 1..n : f.name = extents[x].entry
  <2>1. DOMAIN extents = 1..n
    BY <1>3 DEF ListsInTurn
  <2>2. f \in Range(Assembled(extents, ReadArea))
    BY <1>1
  <2> QED
    BY <2>1, <2>2, NamesAssembled
<1>5. PICK y \in 1..Len(directory) : extents[x] = directory[y]
  BY <1>3 DEF ListsInTurn, Listed
<1>6. PICK starts, bases : FilesLieAt(starts, bases)
  BY DEF DiskHolds
<1>7. PICK i \in 1..Len(filed) : \E e \in 1..Extents(filed[i]) : y = starts[i] + e
  BY <1>6 DEF FilesLieAt
<1>8. PICK e \in 1..Extents(filed[i]) : y = starts[i] + e
  BY <1>7
<1>9. FileLies(filed[i], starts[i], bases[i])
  BY <1>6 DEF FilesLieAt
<1>10. directory[y] = EntryOf(filed[i], bases[i], e)
  BY <1>8, <1>9 DEF FileLies
<1>11. f.name = filed[i].name
  BY <1>4, <1>5, <1>10 DEF EntryOf
<1>12. filed[i] \in Range(filed)
  <2>1. DOMAIN filed = 1..Len(filed)
    BY DEF DiskHolds
  <2> QED
    BY <2>1 DEF Range
<1> QED
  BY <1>11, <1>12

\* Of a disk on which nothing has gone bad, and no name is twice, what is read is
\* what was written and no more.
LEMMA ReadIsWritten ==
  ASSUME DiskHolds, image # <<>>, spoilt = {}, filed # <<>>,
         \A file \in Range(filed) : Plain(file)
  PROVE  /\ \A file \in Range(filed) : AsRead(file) \in Range(ReadFiles)
         /\ \A f \in Range(ReadFiles) : \E file \in Range(filed) : f = AsRead(file)
<1>1. DirectorySound
  BY DEF DirectorySound
<1>2. PICK extents : extents = DirectoryAt(ReadArea, EntriesOf(geometry))
  OBVIOUS
<1>3. PICK read : read = Assembled(extents, ReadArea)
  OBVIOUS
<1>4. ASSUME NEW file \in Range(filed)
      PROVE  Len(directory) > 0 /\ AsRead(file) \in Range(read)
  <2>1. Plain(file) /\ spoilt \cap TracksOf(BlocksOf(file)) = {}
    OBVIOUS
  <2> QED
    BY <1>1, <1>2, <1>3, <2>1, PlainReads DEF AsRead
<1>5. PICK some : some \in Range(filed)
  <2>1. filed \in Seq(Contents)
    BY DEF DiskHolds
  <2>2. 1 \in DOMAIN filed
    BY <2>1
  <2> QED
    BY <2>2 DEF Range
<1>6. ReadFiles = read
  <2>1. read # <<>>
    <3>1. AsRead(some) \in Range(read)
      BY <1>4, <1>5
    <3>2. DOMAIN <<>> = {}
      OBVIOUS
    <3>3. \E i : i \in DOMAIN read
      BY <3>1 DEF Range
    <3> QED
      BY <3>2, <3>3
  <2> QED
    BY <1>1, <1>2, <1>3, <1>4, <1>5, <2>1, FilesAreFound
<1>7. ASSUME NEW f \in Range(read)
      PROVE  \E file \in Range(filed) : f = AsRead(file)
  <2>1. PICK file \in Range(filed) : f.name = file.name
    BY <1>1, <1>2, <1>3, OnlyFilesAreRead
  <2>2. AsRead(file) \in Range(read) /\ AsRead(file).name = file.name
    BY <1>4 DEF AsRead
  <2>3. PICK n \in Nat : DOMAIN extents = 1..n
    <3>1. \E n \in Nat : \E at : ListsInTurn(at, n, extents)
      BY <1>1, <1>2, DirectoryIsRead
    <3> QED
      BY <3>1 DEF ListsInTurn
  <2>4. \A g, h \in Range(Assembled(extents, ReadArea)) : g.name = h.name => g = h
    BY <2>3, NamesAssembled
  <2>5. f = AsRead(file)
    BY <1>3, <2>1, <2>2, <2>4
  <2> QED
    BY <2>5
<1> QED
  BY <1>4, <1>6, <1>7

-----------------------------------------------------------------------------
\* WHERE EVERY PICTURE IS

ReadCells == FileCells \cup {Filler}

LEMMA AsReadIs ==
  ASSUME NEW file \in Contents, file.data # <<>>, ~IsHeader(file.data[1])
  PROVE  /\ AsRead(file).name = file.name
         /\ AsRead(file).data \in Seq(ReadCells) /\ Len(file.data) <= Len(AsRead(file).data)
         /\ \A i \in 1..Len(file.data) : AsRead(file).data[i] = file.data[i]
         /\ \A i \in (Len(file.data) + 1)..Len(AsRead(file).data) : AsRead(file).data[i] = Filler
<1>1. PICK cells, n : cells = file.data /\ n = Len(cells)
  OBVIOUS
<1>2. cells \in Seq(ReadCells) /\ n \in Nat /\ n # 0
  <2>1. cells \in Seq(FileCells)
    BY <1>1 DEF Contents
  <2>2. cells \in [1..Len(cells) -> FileCells] /\ Len(cells) \in Nat
    BY <2>1
  <2>3. cells \in [1..Len(cells) -> ReadCells]
    BY <2>2 DEF ReadCells
  <2>4. n # 0
    BY <1>1, <2>1
  <2> QED
    BY <1>1, <2>2, <2>3, <2>4
<1>3. PICK size \in Nat : size = Recorded(file) /\ n <= size
  <2>1. RecordSize \in Nat \ {0}
    BY DisketteAssumption
  <2>2. Ceiling(n, RecordSize) \in Nat /\ n <= Ceiling(n, RecordSize) * RecordSize
    BY <1>2, <2>1, CeilingIs
  <2>3. Ceiling(n, RecordSize) * RecordSize \in Nat
    BY <2>1, <2>2
  <2> QED
    BY <1>1, <2>2, <2>3 DEF Recorded
<1>4. PICK all : all = Filled(cells, size)
  OBVIOUS
<1>5. /\ all \in Seq(ReadCells) /\ Len(all) = size
      /\ \A i \in 1..n : all[i] = cells[i]
      /\ \A i \in (n + 1)..size : all[i] = Filler
  <2>1. Filler \in ReadCells
    BY DEF ReadCells
  <2>2. Fills(Filled(cells, size), ReadCells, cells, size)
    BY <1>1, <1>2, <1>3, <2>1, FilledIs
  <2> QED
    BY <1>1, <1>4, <2>2 DEF Fills
<1>6. WithoutHeader(all) = all
  <2>1. 1 \in 1..n
    BY <1>2
  <2>2. ~IsHeader(all[1])
    BY <1>1, <1>5, <2>1
  <2> QED
    BY <2>2 DEF WithoutHeader
<1>7. AsRead(file) = [name |-> file.name, data |-> all]
  BY <1>1, <1>3, <1>4, <1>6 DEF AsRead
<1> QED
  BY <1>1, <1>3, <1>5, <1>7

\* A picture that lies somewhere is found whole.
LEMMA PictureFound ==
  ASSUME PackedOK, PicturesWhole, NEW n \in DOMAIN packed.images,
         NEW cells \in Seq(ReadCells), NEW at, PictureLies(cells, at, n)
  PROVE  SubSeq(cells, at + 1, at + PictureSize(n)) = PictureFile(n).data
<1>1. PICK size, is : size = PictureSize(n) /\ is = PictureFile(n).data
  OBVIOUS
<1>2. size \in Nat /\ is = [j \in 1..size |-> [byte |-> n]]
  BY <1>1, PictureCells
<1>3. at \in Nat /\ at + size <= Len(cells) /\ \A j \in 1..size : cells[at + j] = [byte |-> n]
  BY <1>1 DEF PictureLies
<1>4. PICK piece : piece = SubSeq(cells, at + 1, at + size)
  OBVIOUS
<1>5. piece \in Seq(ReadCells) /\ Len(piece) = size /\ \A c \in 1..size : piece[c] = cells[at + c]
  BY <1>2, <1>3, <1>4, SubSeqIs DEF PieceOf
<1>6. piece = [j \in 1..size |-> [byte |-> n]]
  <2>1. piece = [j \in 1..size |-> piece[j]]
    BY <1>2, <1>5
  <2>2. \A j \in 1..size : piece[j] = [byte |-> n]
    BY <1>3, <1>5
  <2> QED
    BY <2>1, <2>2
<1> QED
  BY <1>1, <1>2, <1>4, <1>6

LEMMA LiesRead ==
  ASSUME PackedOK, PicturesWhole, NEW n \in DOMAIN packed.images,
         NEW file \in Contents, file.data # <<>>, ~IsHeader(file.data[1]),
         NEW at, PictureLies(file.data, at, n)
  PROVE  SubSeq(AsRead(file).data, at + 1, at + PictureSize(n)) = PictureFile(n).data
<1>1. PICK cells, written : cells = AsRead(file).data /\ written = file.data
  OBVIOUS
<1>2. /\ cells \in Seq(ReadCells) /\ Len(written) <= Len(cells)
      /\ \A i \in 1..Len(written) : cells[i] = written[i]
  BY <1>1, AsReadIs
<1>3. Len(written) \in Nat /\ Len(cells) \in Nat
  BY <1>1, <1>2 DEF Contents
<1>4. PICK size \in Nat : size = PictureSize(n)
  BY PictureCells
<1>5. at \in Nat /\ at + size <= Len(written) /\ \A j \in 1..size : written[at + j] = [byte |-> n]
  BY <1>1, <1>4 DEF PictureLies
<1>6. ASSUME NEW j \in 1..size
      PROVE  cells[at + j] = [byte |-> n]
  <2>1. at + j \in 1..Len(written)
    BY <1>3, <1>5
  <2> QED
    BY <1>2, <1>5, <2>1
<1>7. at + size <= Len(cells)
  BY <1>2, <1>3, <1>4, <1>5
<1>8. PictureLies(cells, at, n)
  BY <1>4, <1>5, <1>6, <1>7 DEF PictureLies
<1> QED
  BY <1>1, <1>2, <1>8, PictureFound

LEMMA PictureFileLies ==
  ASSUME ReleasesCovered, PackedOK, PicturesWhole, NEW n \in DOMAIN packed.images
  PROVE  LET file == PictureFile(n)
         IN  /\ file \in Contents /\ file.name = Picture(n)
             /\ file.data # <<>> /\ ~IsHeader(file.data[1])
             /\ Len(file.data) = PictureSize(n) /\ PictureLies(file.data, 0, n)
<1>1. PICK file, size : file = PictureFile(n) /\ size = PictureSize(n)
  OBVIOUS
<1>2. size \in Nat \ {0} /\ file.data = [j \in 1..size |-> [byte |-> n]]
  BY <1>1, PictureCells
<1>3. Len(file.data) = size /\ file.data[1] = [byte |-> n]
  <2>1. PICK cells : cells = file.data
    OBVIOUS
  <2>2. cells \in Seq({[byte |-> n]}) /\ Len(cells) = size /\ 1 \in 1..size
    BY <1>2, <2>1
  <2> QED
    BY <1>2, <2>1, <2>2
<1>4. ~IsHeader(file.data[1])
  BY <1>3 DEF IsHeader
<1>5. PictureLies(file.data, 0, n)
  BY <1>1, <1>2, <1>3 DEF PictureLies
<1>6. file \in Contents
  BY <1>1, PictureFileIs
<1>7. file.name = Picture(n)
  BY <1>1 DEF PictureFile
<1>8. file.data # <<>>
  BY <1>2, <1>3
<1> QED
  BY <1>1, <1>3, <1>4, <1>5, <1>6, <1>7, <1>8

\* Every picture is whole, and kept in memory, on the disk or among those left out.
Accounted ==
  /\ PicturesWhole
  /\ \E C, list, N, front, names :
       /\ Picks(C, list, N) /\ Complete(front, names, C)
       /\ \E k \in 0..N : MadeOf(onto, front, list, k) /\ dropped = {list[i] : i \in (k + 1)..N}

\* No name is that of two files.
LEMMA NamesOnce ==
  ASSUME PackedOK, NEW C, NEW list, NEW N, Picks(C, list, N), NEW front, NEW names,
         Complete(front, names, C), NEW k \in 0..N, NEW of, MadeOf(of, front, list, k)
  PROVE  \A i, j \in 1..Len(of) : of[i].name = of[j].name => i = j
<1>1. PICK m \in Nat : m = Len(front)
  BY DEF Complete, PartsAre
<1>2. /\ Len(of) = m + k /\ N \in Nat /\ k \in Nat
      /\ \A i \in 1..m : of[i] = front[i]
      /\ \A i \in 1..k : of[m + i] = PictureFile(list[i])
  BY <1>1 DEF MadeOf, Picks
<1>3. \A i \in 1..m : \E p : of[i].name = Part(p)
  BY <1>1, <1>2 DEF Complete, PartsAre, PartIs
<1>4. ASSUME NEW i \in 1..(m + k), i > m
      PROVE  \E a \in 1..k : i = m + a /\ of[i].name = Picture(list[a]) /\ a \in 1..N
  <2>1. PICK a : a = i - m
    OBVIOUS
  <2>2. a \in 1..k /\ a \in 1..N /\ i = m + a
    BY <1>2, <1>4, <2>1
  <2>3. of[i] = PictureFile(list[a])
    BY <1>2, <2>2
  <2> QED
    BY <2>2, <2>3 DEF PictureFile
<1>5. ASSUME NEW i \in 1..(m + k), NEW j \in 1..(m + k), i < j
      PROVE  of[i].name # of[j].name
  <2>1. CASE j <= m
    <3>1. i \in 1..m /\ j \in 1..m
      BY <1>5, <2>1
    <3>2. front[i].name # front[j].name
      BY <1>1, <1>5, <3>1 DEF Complete, PartsAre
    <3> QED
      BY <1>2, <3>1, <3>2
  <2>2. CASE i > m
    <3>1. PICK a \in 1..N : i = m + a /\ of[i].name = Picture(list[a])
      BY <1>4, <2>2
    <3>2. j > m
      BY <1>5, <2>2
    <3>3. PICK b \in 1..N : j = m + b /\ of[j].name = Picture(list[b])
      BY <1>4, <3>2
    <3>4. a # b
      BY <1>5, <3>1, <3>3
    <3>5. list[a] # list[b]
      BY <3>4 DEF Picks
    <3> QED
      BY <3>1, <3>3, <3>5, PartsApart
  <2>3. CASE i <= m /\ j > m
    <3>1. PICK p : of[i].name = Part(p)
      BY <1>3, <2>3
    <3>2. PICK b \in 1..N : of[j].name = Picture(list[b])
      BY <1>4, <2>3
    <3> QED
      BY <3>1, <3>2, PartsApart
  <2> QED
    BY <2>1, <2>2, <2>3
<1>6. \A i, j \in 1..(m + k) : i = j \/ i < j \/ j < i
  BY <1>2
<1> QED
  BY <1>2, <1>5, <1>6

\* Nor is any file empty, or of a name that is not read.
LEMMA FilesPlain ==
  ASSUME ReleasesCovered, PackedOK, Accounted, filed = onto
  PROVE  filed # <<>> /\ \A file \in Range(filed) : Plain(file)
<1>1. PICK C, list, N, front, names :
        /\ Picks(C, list, N) /\ Complete(front, names, C)
        /\ \E k \in 0..N : MadeOf(onto, front, list, k)
  BY DEF Accounted
<1>2. PICK k \in 0..N : MadeOf(filed, front, list, k)
  BY <1>1
<1>3. PICK m \in Nat : m = Len(front)
  BY <1>1 DEF Complete, PartsAre
<1>4. /\ Len(filed) = m + k /\ N \in Nat /\ k \in Nat /\ filed \in Seq(Contents)
      /\ \A i \in 1..m : filed[i] = front[i]
      /\ \A i \in 1..k : filed[m + i] = PictureFile(list[i])
  BY <1>1, <1>2, <1>3 DEF MadeOf, Picks
<1>5. filed # <<>>
  <2>1. "DISK" \in names
    BY <1>1 DEF Complete, PartsNeeded
  <2>2. \E i : i \in 1..m
    BY <1>1, <1>3, <2>1 DEF Complete, PartsAre
  <2>3. Len(filed) # 0
    BY <1>4, <2>2
  <2> QED
    BY <2>3
<1>6. ASSUME NEW i \in 1..(m + k)
      PROVE  filed[i].data # <<>> /\ filed[i].name \notin Unreadable
  <2>1. CASE i <= m
    <3>1. PICK name \in PartNames : PartIs(filed[i], name, C)
      <4>1. i \in 1..m /\ filed[i] = front[i]
        BY <1>4, <2>1
      <4>2. PICK name \in names : PartIs(front[i], name, C)
        BY <1>1, <1>3, <4>1 DEF Complete, PartsAre
      <4>3. name \in PartNames
        BY <1>1 DEF Complete, PartsAre
      <4> QED
        BY <4>1, <4>2, <4>3
    <3> QED
      BY <3>1, NamesAssumption DEF PartIs
  <2>2. CASE i > m
    <3>1. PICK a : a = i - m
      OBVIOUS
    <3>2. a \in 1..k /\ a \in 1..N /\ i = m + a
      BY <1>4, <2>2, <3>1
    <3>3. PICK n \in DOMAIN packed.images : n = list[a]
      BY <1>1, <3>2 DEF Picks
    <3>4. filed[i] = PictureFile(n)
      BY <1>4, <3>2, <3>3
    <3>5. n \in Numbers /\ PicturesWhole
      BY DEF PackedOK, Accounted
    <3>6. PictureFile(n).name = Picture(n) /\ PictureFile(n).data # <<>>
      BY <3>5, PictureFileLies
    <3> QED
      BY <3>4, <3>5, <3>6, NamesAssumption
  <2> QED
    BY <2>1, <2>2
<1>7. ASSUME NEW file \in Range(filed)
      PROVE  Plain(file)
  <2>1. PICK i \in 1..(m + k) : file = filed[i]
    BY <1>4 DEF Range
  <2>2. \A x, y \in 1..(m + k) : filed[x].name = filed[y].name => x = y
    <3>1. \A x, y \in 1..Len(filed) : filed[x].name = filed[y].name => x = y
      BY <1>1, <1>2, NamesOnce
    <3> QED
      BY <1>4, <3>1
  <2>3. {x \in DOMAIN filed : filed[x].name = file.name} = {i}
    BY <1>4, <2>1, <2>2
  <2>4. Cardinality({x \in DOMAIN filed : filed[x].name = file.name}) = 1
    BY <2>3, FS_Singleton
  <2> QED
    BY <1>6, <2>1, <2>4 DEF Plain
<1> QED
  BY <1>5, <1>7

\* A picture kept in memory is found in the buffer.
LEMMA KeptIsFound ==
  ASSUME PackedOK, PicturesWhole, NEW C, NEW file \in Contents, PartIs(file, "DAAD.GRA", C),
         NEW n \in C \cap DOMAIN packed.images, n # EndMark, AsRead(file) \in Range(ReadFiles)
  PROVE  InBuffer(n)
<1>1. BufferHolds(file.data, C) /\ file.data # <<>> /\ file.name = Part("DAAD.GRA")
  BY DEF PartIs
<1>2. ~IsHeader(file.data[1])
  BY <1>1 DEF BufferHolds
<1>3. PICK read, cells, written : read = AsRead(file) /\ cells = read.data /\ written = file.data
  OBVIOUS
<1>4. PICK i \in 2..Len(written), at \in Nat :
        written[i] = RowOf(n, CacheAt + at - 1) /\ PictureLies(written, at, n)
  BY <1>1, <1>3 DEF BufferHolds
<1>5. /\ read.name = Part("DAAD.GRA") /\ cells \in Seq(ReadCells) /\ Len(written) <= Len(cells)
      /\ \A x \in 1..Len(written) : cells[x] = written[x]
  BY <1>1, <1>2, <1>3, AsReadIs
<1>6. i \in 2..Len(cells) /\ cells[i] = RowOf(n, CacheAt + at - 1)
  <2>1. Len(written) \in Nat /\ Len(cells) \in Nat
    BY <1>3, <1>5 DEF Contents
  <2>2. i \in 1..Len(written)
    BY <2>1
  <2> QED
    BY <1>4, <1>5, <2>1, <2>2
<1>7. SubSeq(cells, at + 1, at + PictureSize(n)) = PictureFile(n).data
  BY <1>1, <1>2, <1>3, <1>4, LiesRead
<1>8. PICK row : row = cells[i] /\ row = RowOf(n, CacheAt + at - 1)
  BY <1>6
<1>9. "number" \in DOMAIN row /\ row.number = n
  BY <1>8 DEF RowOf
<1>10. row.at - CacheAt + 2 = at + 1 /\ row.at - CacheAt + 1 + PictureHeader + row.size = at + PictureSize(n)
  <2>1. CacheAt \in Nat
    BY PackagerAssumption
  <2>2. PICK size \in Nat : size = packed.images[n]
    BY DEF PackedOK, PicturesWhole
  <2>3. row.at = CacheAt + at - 1 /\ row.size = size
    BY <1>8, <2>2 DEF RowOf
  <2>4. PictureHeader = 1 /\ PictureSize(n) = 1 + size
    BY <2>2 DEF PictureHeader, PictureSize
  <2> QED
    BY <2>1, <2>2, <2>3, <2>4
<1>11. SubSeq(cells, row.at - CacheAt + 2, row.at - CacheAt + 1 + PictureHeader + row.size) = PictureFile(n).data
  BY <1>7, <1>10
<1>12. /\ read \in Range(ReadFiles) /\ read.name = Part("DAAD.GRA") /\ i \in 2..Len(read.data)
       /\ "number" \in DOMAIN read.data[i] /\ read.data[i].number = n
       /\ SubSeq(read.data, read.data[i].at - CacheAt + 2,
                 read.data[i].at - CacheAt + 1 + PictureHeader + read.data[i].size) = PictureFile(n).data
  BY <1>3, <1>5, <1>6, <1>8, <1>9, <1>11
<1> QED
  BY <1>12 DEF InBuffer

\* And nothing else is.
LEMMA FoundIsKept ==
  ASSUME NEW C, NEW n, InBuffer(n),
         \A f \in Range(ReadFiles) : f.name = Part("DAAD.GRA") =>
           \E file \in Contents : PartIs(file, "DAAD.GRA", C) /\ f = AsRead(file)
  PROVE  n \in C
<1>1. PICK f \in Range(ReadFiles) :
        /\ f.name = Part("DAAD.GRA")
        /\ \E i \in 2..Len(f.data) : "number" \in DOMAIN f.data[i] /\ f.data[i].number = n
  BY DEF InBuffer
<1>2. PICK file \in Contents : PartIs(file, "DAAD.GRA", C) /\ f = AsRead(file)
  BY <1>1
<1>3. BufferHolds(file.data, C) /\ file.data # <<>> /\ n # EndMark
  BY <1>2 DEF PartIs, InBuffer
<1>4. ~IsHeader(file.data[1])
  BY <1>3 DEF BufferHolds
<1>5. PICK cells, written : cells = f.data /\ written = file.data
  OBVIOUS
<1>6. /\ cells \in Seq(ReadCells) /\ Len(written) <= Len(cells)
      /\ \A i \in 1..Len(written) : cells[i] = written[i]
      /\ \A i \in (Len(written) + 1)..Len(cells) : cells[i] = Filler
  BY <1>2, <1>3, <1>4, <1>5, AsReadIs
<1>7. Len(written) \in Nat /\ Len(cells) \in Nat
  BY <1>5, <1>6 DEF Contents
<1>8. PICK i \in 2..Len(cells) : "number" \in DOMAIN cells[i] /\ cells[i].number = n
  BY <1>1, <1>5
<1>9. CASE i <= Len(written)
  <2>1. i \in 1..Len(written) /\ cells[i] = written[i]
    BY <1>6, <1>7, <1>9
  <2>2. written[i].number \in C \cup {EndMark}
    BY <1>3, <1>5, <1>8, <2>1 DEF BufferHolds
  <2> QED
    BY <1>3, <1>8, <2>1, <2>2
<1>10. CASE i > Len(written)
  <2>1. cells[i] = Filler
    BY <1>6, <1>7, <1>10
  <2>2. "number" \notin DOMAIN Filler
    BY DEF Filler
  <2> QED
    BY <1>8, <2>1, <2>2
<1> QED
  BY <1>7, <1>9, <1>10

\* What is read of a disk on which nothing has gone bad accounts for every picture.
LEMMA AccountedReads ==
  ASSUME ReleasesCovered, PackedOK, DiskHolds, image # <<>>, spoilt = {}, filed = onto, Accounted
  PROVE  /\ \A n \in DOMAIN packed.images : (n \in dropped) = ~(OnDisk(n) \/ InBuffer(n))
         /\ {Part("DISK"), Part("DAAD.BIN"), Part("PART1.DDB"), Part("PART1.SDG")} \subseteq
              {f.name : f \in Range(ReadFiles)}
<1>1. PICK C, list, N, front, names :
        /\ Picks(C, list, N) /\ Complete(front, names, C)
        /\ \E k \in 0..N : MadeOf(onto, front, list, k) /\ dropped = {list[i] : i \in (k + 1)..N}
  BY DEF Accounted
<1>2. PICK k \in 0..N : MadeOf(filed, front, list, k) /\ dropped = {list[i] : i \in (k + 1)..N}
  BY <1>1
<1>3. PICK m \in Nat : m = Len(front)
  BY <1>1 DEF Complete, PartsAre
<1>4. /\ Len(filed) = m + k /\ N \in Nat /\ k \in Nat /\ filed \in Seq(Contents)
      /\ \A i \in 1..m : filed[i] = front[i]
      /\ \A i \in 1..k : filed[m + i] = PictureFile(list[i])
  BY <1>1, <1>2, <1>3 DEF MadeOf, Picks
<1>5. PicturesWhole
  BY DEF Accounted
<1>6. /\ \A file \in Range(filed) : AsRead(file) \in Range(ReadFiles)
      /\ \A f \in Range(ReadFiles) : \E file \in Range(filed) : f = AsRead(file)
  <2>1. filed # <<>> /\ \A file \in Range(filed) : Plain(file)
    BY FilesPlain
  <2> QED
    BY <2>1, ReadIsWritten
<1>7. \A i \in 1..m : /\ filed[i] \in Range(filed) /\ filed[i] \in Contents
                      /\ \E name \in names : PartIs(filed[i], name, C)
  <2>1. ASSUME NEW i \in 1..m
        PROVE  \E name \in names : PartIs(filed[i], name, C)
    BY <1>1, <1>3, <1>4 DEF Complete, PartsAre
  <2>2. \A i \in 1..m : i \in 1..(m + k)
    BY <1>4
  <2> QED
    BY <1>4, <2>1, <2>2 DEF Range
<1>8. \A name \in names : \E i \in 1..m : PartIs(filed[i], name, C)
  <2> SUFFICES ASSUME NEW name \in names
               PROVE  \E i \in 1..m : PartIs(filed[i], name, C)
    OBVIOUS
  <2>1. PICK i \in 1..m : front[i].name = Part(name)
    BY <1>1, <1>3 DEF Complete, PartsAre
  <2>2. PICK other \in names : PartIs(filed[i], other, C)
    BY <1>7
  <2>3. Part(name) = Part(other)
    BY <1>4, <2>1, <2>2 DEF PartIs
  <2> QED
    BY <2>2, <2>3, PartsApart
<1>9. \A a \in 1..k : PictureFile(list[a]) \in Range(filed)
  <2>1. \A a \in 1..k : m + a \in 1..(m + k)
    BY <1>4
  <2> QED
    BY <1>4, <2>1 DEF Range
<1>10. ASSUME NEW f \in Range(ReadFiles)
       PROVE  \/ \E i \in 1..m, name \in names : /\ f = AsRead(filed[i]) /\ f.name = Part(name)
                                                 /\ PartIs(filed[i], name, C)
              \/ \E a \in 1..k : f.name = Picture(list[a])
  <2>1. PICK i \in 1..(m + k) : f = AsRead(filed[i])
    BY <1>4, <1>6 DEF Range
  <2>2. f.name = filed[i].name
    BY <2>1 DEF AsRead
  <2>3. CASE i <= m
    <3>1. i \in 1..m
      BY <1>4, <2>3
    <3>2. PICK name \in names : PartIs(filed[i], name, C)
      BY <1>7, <3>1
    <3>3. f.name = Part(name)
      BY <2>2, <3>2 DEF PartIs
    <3> QED
      BY <2>1, <3>1, <3>2, <3>3
  <2>4. CASE i > m
    <3>1. PICK a : a = i - m
      OBVIOUS
    <3>2. a \in 1..k /\ i = m + a
      BY <1>4, <2>4, <3>1
    <3>3. filed[i] = PictureFile(list[a])
      BY <1>4, <3>2
    <3> QED
      BY <2>2, <3>2, <3>3 DEF PictureFile
  <2> QED
    BY <1>4, <2>3, <2>4
<1>11. ASSUME NEW n, InBuffer(n)
       PROVE  n \in C
  <2>1. ASSUME NEW f \in Range(ReadFiles), f.name = Part("DAAD.GRA")
        PROVE  \E file \in Contents : PartIs(file, "DAAD.GRA", C) /\ f = AsRead(file)
    <3>1. PICK i \in 1..m, name \in names : /\ f = AsRead(filed[i]) /\ f.name = Part(name)
                                            /\ PartIs(filed[i], name, C)
      BY <1>10, <2>1, PartsApart
    <3>2. name = "DAAD.GRA"
      BY <2>1, <3>1, PartsApart
    <3> QED
      BY <1>7, <3>1, <3>2
  <2> QED
    BY <1>11, <2>1, FoundIsKept
<1>12. ASSUME NEW n, OnDisk(n)
       PROVE  \E a \in 1..k : list[a] = n
  <2>1. PICK f \in Range(ReadFiles) : f.name = Picture(n)
    BY <1>12 DEF OnDisk
  <2>2. PICK a \in 1..k : f.name = Picture(list[a])
    BY <1>10, <2>1, PartsApart
  <2> QED
    BY <2>1, <2>2, PartsApart
<1>13. ASSUME NEW n \in DOMAIN packed.images
       PROVE  (n \in dropped) = ~(OnDisk(n) \/ InBuffer(n))
  <2>1. CASE n \in C
    <3>1. "DAAD.GRA" \in names /\ n # EndMark
      BY <1>1, <2>1 DEF Complete, PartsNeeded, Picks
    <3>2. PICK i \in 1..m : PartIs(filed[i], "DAAD.GRA", C)
      BY <1>8, <3>1
    <3>3. filed[i] \in Contents /\ AsRead(filed[i]) \in Range(ReadFiles)
      BY <1>6, <1>7
    <3>4. InBuffer(n)
      BY <1>5, <2>1, <3>1, <3>2, <3>3, KeptIsFound
    <3>5. n \notin dropped
      <4>1. \A x \in (k + 1)..N : x \in 1..N
        BY <1>4
      <4>2. \A x \in (k + 1)..N : list[x] \notin C
        BY <1>1, <4>1 DEF Picks
      <4> QED
        BY <1>2, <2>1, <4>2
    <3> QED
      BY <3>4, <3>5
  <2>2. CASE \E a \in 1..k : list[a] = n
    <3>1. PICK a \in 1..k : list[a] = n
      BY <2>2
    <3>2. OnDisk(n)
      <4>1. PICK file : file = PictureFile(n)
        OBVIOUS
      <4>2. /\ file \in Contents /\ file.name = Picture(n) /\ file.data # <<>>
            /\ ~IsHeader(file.data[1]) /\ Len(file.data) = PictureSize(n)
            /\ PictureLies(file.data, 0, n)
        BY <1>5, <4>1, PictureFileLies
      <4>3. PICK read : read = AsRead(file)
        OBVIOUS
      <4>4. read.name = Picture(n)
        BY <4>2, <4>3 DEF AsRead
      <4>5. read \in Range(ReadFiles)
        BY <1>6, <1>9, <3>1, <4>1, <4>3
      <4>6. SubSeq(read.data, 0 + 1, 0 + PictureSize(n)) = PictureFile(n).data
        BY <1>5, <4>2, <4>3, LiesRead
      <4>7. 0 + 1 = 1 /\ 0 + PictureSize(n) = Len(PictureFile(n).data)
        <5>1. PictureSize(n) \in Nat
          BY <1>5, PictureCells
        <5> QED
          BY <4>1, <4>2, <5>1
      <4>8. SubSeq(read.data, 1, Len(PictureFile(n).data)) = PictureFile(n).data
        BY <4>6, <4>7
      <4> QED
        BY <4>5, <4>8, <4>4 DEF OnDisk
    <3>3. n \notin dropped
      <4>1. ASSUME NEW i \in (k + 1)..N
            PROVE  list[i] # n
        <5>1. i \in 1..N /\ a \in 1..N /\ i # a
          BY <1>4
        <5> QED
          BY <1>1, <3>1, <5>1 DEF Picks
      <4> QED
        BY <1>2, <4>1
    <3> QED
      BY <3>2, <3>3
  <2>3. CASE n \notin C /\ ~\E a \in 1..k : list[a] = n
    <3>1. PICK i \in 1..N : list[i] = n
      BY <1>1, <2>3 DEF Picks
    <3>2. i \in (k + 1)..N
      BY <1>4, <2>3, <3>1
    <3>3. n \in dropped
      BY <1>2, <3>1, <3>2
    <3>4. ~OnDisk(n) /\ ~InBuffer(n)
      BY <1>11, <1>12, <2>3
    <3> QED
      BY <3>3, <3>4
  <2> QED
    BY <2>1, <2>2, <2>3
<1>14. ASSUME NEW name \in {"DISK", "DAAD.BIN", "PART1.DDB", "PART1.SDG"}
       PROVE  \E f \in Range(ReadFiles) : f.name = Part(name)
  <2>1. name \in names
    BY <1>1 DEF Complete, PartsNeeded
  <2>2. PICK i \in 1..m : PartIs(filed[i], name, C)
    BY <1>8, <2>1
  <2>3. PICK read : read = AsRead(filed[i])
    OBVIOUS
  <2>4. read \in Range(ReadFiles) /\ read.name = Part(name)
    BY <1>6, <1>7, <2>2, <2>3 DEF AsRead, PartIs
  <2> QED
    BY <2>4
<1> QED
  BY <1>13, <1>14

\* The invariant: what is on the disk is the first of what is to be on it, a disk is
\* closed when all of it is, and from when its files are made to when it has left
\* every picture is accounted for.
PicturesPlaced ==
  /\ packing \in {"idle", "assembling"} => dropped = {}
  /\ Len(filed) <= Len(onto) /\ \A i \in 1..Len(filed) : filed[i] = onto[i]
  /\ image # <<>> => packing = "done" /\ Len(filed) = Len(onto)
  /\ packed.manifest = "plus3" /\ (packing = "writing" \/ image # <<>>) => Accounted

\* What the files are is of the build alone.
LEMMA PiecesStand ==
  ASSUME packed' = packed
  PROVE  /\ PicturesWhole <=> PicturesWhole'
         /\ \A C, list, N : Picks(C, list, N) <=> Picks(C, list, N)'
         /\ \A front, names, C : Complete(front, names, C) <=> Complete(front, names, C)'
         /\ \A of, front, list, k : MadeOf(of, front, list, k) <=> MadeOf(of, front, list, k)'
<1>1. PicturesWhole <=> PicturesWhole'
  BY DEF PicturesWhole
<1>2. ASSUME NEW C, NEW list, NEW N
      PROVE  Picks(C, list, N) <=> Picks(C, list, N)'
  BY DEF Picks
<1>3. ASSUME NEW cells, NEW C
      PROVE  BufferHolds(cells, C) <=> BufferHolds(cells, C)'
  <2>1. ASSUME NEW at, NEW n
        PROVE  /\ RowOf(n, at)' = RowOf(n, at)
               /\ PictureLies(cells, at, n) <=> PictureLies(cells, at, n)'
    BY DEF RowOf, PictureLies, PictureSize
  <2> QED
    BY <2>1 DEF BufferHolds
<1>4. ASSUME NEW front, NEW names, NEW C
      PROVE  Complete(front, names, C) <=> Complete(front, names, C)'
  <2>1. ASSUME NEW file, NEW name
        PROVE  PartIs(file, name, C) <=> PartIs(file, name, C)'
    BY <1>3 DEF PartIs
  <2> QED
    BY <2>1 DEF Complete, PartsAre
<1>5. ASSUME NEW of, NEW front, NEW list, NEW k
      PROVE  MadeOf(of, front, list, k) <=> MadeOf(of, front, list, k)'
  <2>1. \A n : PictureFile(n)' = PictureFile(n)
    BY DEF PictureFile
  <2> QED
    BY <2>1 DEF MadeOf
<1> QED
  BY <1>1, <1>2, <1>4, <1>5

\* What it takes, once a step is taken.
LEMMA NowAccounted ==
  ASSUME PicturesWhole', NEW C, NEW list, NEW N, Picks(C, list, N)', NEW front, NEW names,
         Complete(front, names, C)', NEW k \in 0..N, MadeOf(onto, front, list, k)',
         dropped' = {list[i] : i \in (k + 1)..N}
  PROVE  Accounted'
BY DEF Accounted

LEMMA AccountedStands ==
  ASSUME Accounted, packed' = packed, onto' = onto, dropped' = dropped
  PROVE  Accounted'
<1>1. PICK C, list, N, front, names, k :
        /\ Picks(C, list, N) /\ Complete(front, names, C) /\ k \in 0..N
        /\ MadeOf(onto, front, list, k) /\ dropped = {list[i] : i \in (k + 1)..N}
  BY DEF Accounted
<1>2. Picks(C, list, N)' /\ Complete(front, names, C)' /\ PicturesWhole'
  BY <1>1, PiecesStand DEF Accounted
<1>3. MadeOf(onto, front, list, k)' /\ dropped' = {list[i] : i \in (k + 1)..N}
  <2>1. \A of : MadeOf(of, front, list, k) <=> MadeOf(of, front, list, k)'
    BY PiecesStand
  <2> QED
    BY <1>1, <2>1
<1> QED
  BY <1>1, <1>2, <1>3, NowAccounted

LEMMA PlacedStarts ==
  ASSUME PackagerInit
  PROVE  PicturesPlaced
BY DEF PackagerInit, BlankDisk, PicturesPlaced

\* A disk that has not been begun.
LEMMA BlankPlaced ==
  ASSUME filed' = <<>>, image' = <<>>, onto' \in Seq(Contents),
         packing' \in {"idle", "assembling"} => dropped' = {},
         packed'.manifest = "plus3" /\ packing' = "writing" => Accounted'
  PROVE  PicturesPlaced'
<1>1. Len(filed') = 0 /\ Len(onto') \in Nat
  OBVIOUS
<1>2. Len(filed') <= Len(onto') /\ \A i \in 1..Len(filed') : filed'[i] = onto'[i]
  BY <1>1
<1> QED
  BY <1>2 DEF PicturesPlaced

\* A step that leaves what is on the disk, and what is to be on it.
LEMMA PlacedStands ==
  ASSUME PicturesPlaced, UNCHANGED <<packed, onto, dropped, filed>>,
         packing' \in {"idle", "assembling"} => packing \in {"idle", "assembling"},
         packing' = "writing" => packing = "writing",
         image' # <<>> => packing' = "done" /\ Len(filed) = Len(onto) /\ (image # <<>> \/ packing = "writing")
  PROVE  PicturesPlaced'
<1>1. packed'.manifest = "plus3" /\ (packing' = "writing" \/ image' # <<>>) => Accounted'
  BY AccountedStands DEF PicturesPlaced
<1> QED
  BY <1>1 DEF PicturesPlaced

LEMMA AssembleFilesPlaces ==
  ASSUME ReleasesCovered, ReleaseOK, DiskOfRelease, PicturesPlaced, AssembleFiles, DiskOfRelease'
  PROVE  PicturesPlaced'
<1>1. /\ packing = "assembling" /\ BlankDisk(geometry) /\ PackedOK /\ dropped = {}
      /\ filed = <<>> /\ image = <<>> /\ onto' \in Seq(Contents)
  BY DEF AssembleFiles, DiskOfRelease, ReleaseOK, PicturesPlaced, BlankDisk
<1>2. CASE Fail
  BY <1>1, <1>2, BlankPlaced DEF Fail, disketteVars
<1>3. CASE /\ PicturesWhole /\ BlocksFit("plus3", Page({})) /\ CacheFits
           /\ onto' = Plus3Files /\ packing' = "writing"
           /\ UNCHANGED <<packed, tape, dropped>> /\ UNCHANGED disketteVars
  <2>1. PICK C, list, N, front, names :
          Picks(C, list, N) /\ Complete(front, names, C) /\ MadeOf(Plus3Files, front, list, N)
    BY <1>1, <1>3, Plus3FilesAre
  <2>2. PICK of : of = Plus3Files /\ onto' = of
    BY <1>3
  <2>3. /\ Picks(C, list, N)' /\ Complete(front, names, C)' /\ PicturesWhole'
        /\ MadeOf(of, front, list, N)'
    BY <1>3, <2>1, <2>2, PiecesStand
  <2>4. N \in 0..N /\ dropped' = {list[i] : i \in (N + 1)..N}
    <3>1. N \in Nat
      BY <2>1 DEF Picks
    <3>2. (N + 1)..N = {}
      BY <3>1
    <3> QED
      BY <1>1, <1>3, <3>1, <3>2
  <2>5. Accounted'
    BY <2>2, <2>3, <2>4 DEF Accounted
  <2> QED
    BY <1>1, <1>3, <2>5, BlankPlaced DEF disketteVars
<1>4. CASE /\ packed.manifest = "cpc" /\ packed' = packed /\ packing' = "writing"
           /\ UNCHANGED <<filed, image>>
  BY <1>1, <1>4, BlankPlaced
<1> QED
  BY <1>2, <1>3, <1>4 DEF AssembleFiles

LEMMA PutNextPlaces ==
  ASSUME DiskOfRelease, PicturesPlaced, PutNext
  PROVE  PicturesPlaced'
<1>1. filed \in Seq(Contents) /\ onto \in Seq(Contents) /\ Len(filed) < Len(onto) /\ packing = "writing"
  BY DEF PutNext, DiskOfRelease, DiskHolds
<1>2. PICK file : file = onto[Len(filed) + 1]
  OBVIOUS
<1>3. PutFile(file) /\ UNCHANGED packagerVars
  BY <1>2 DEF PutNext
<1>4. image = <<>> /\ image' = <<>>
  BY <1>3 DEF PutFile
<1>5. CASE filed' = filed
  BY <1>1, <1>3, <1>4, <1>5, PlacedStands DEF packagerVars
<1>6. CASE filed' = Append(filed, file)
  <2>1. PICK m \in Nat : m = Len(filed)
    BY <1>1
  <2>2. Len(filed') = m + 1 /\ filed'[m + 1] = file /\ \A i \in 1..m : filed'[i] = filed[i]
    <3>1. Len(onto) \in Nat /\ m + 1 \in 1..Len(onto)
      BY <1>1, <2>1
    <3>2. file \in Contents
      BY <1>1, <1>2, <2>1, <3>1
    <3> QED
      BY <1>1, <1>6, <2>1, <3>2
  <2>3. ASSUME NEW i \in 1..(m + 1)
        PROVE  filed'[i] = onto[i]
    <3>1. CASE i = m + 1
      BY <1>2, <2>1, <2>2, <3>1
    <3>2. CASE i # m + 1
      <4>1. i \in 1..m
        BY <3>2
      <4> QED
        BY <2>1, <2>2, <4>1 DEF PicturesPlaced
    <3> QED
      BY <3>1, <3>2
  <2>4. Len(filed') <= Len(onto')
    BY <1>1, <1>3, <2>1, <2>2 DEF packagerVars
  <2>5. UNCHANGED <<packing, packed, onto, dropped>>
    BY <1>3 DEF packagerVars
  <2>6. packed'.manifest = "plus3" => Accounted'
    BY <1>1, <2>5, AccountedStands DEF PicturesPlaced
  <2> QED
    BY <1>1, <1>4, <2>2, <2>3, <2>4, <2>5, <2>6 DEF PicturesPlaced
<1> QED
  BY <1>3, <1>5, <1>6 DEF PutFile

\* The last of the files is the last of the pictures, when it is one at all.
LEMMA LastIsDropped ==
  ASSUME Accounted, NEW last, last = onto[Len(onto)].name, last \in {Picture(n) : n \in Numbers},
         packed' = packed, onto' = SubSeq(onto, 1, Len(onto) - 1), dropped' = dropped \cup {last.picture}
  PROVE  Accounted'
<1>1. PICK C, list, N, front, names, k :
        /\ Picks(C, list, N) /\ Complete(front, names, C) /\ k \in 0..N
        /\ MadeOf(onto, front, list, k) /\ dropped = {list[i] : i \in (k + 1)..N}
  BY DEF Accounted
<1>2. PICK m \in Nat : m = Len(front)
  BY <1>1 DEF Complete, PartsAre
<1>3. /\ Len(onto) = m + k /\ N \in Nat /\ k \in Nat /\ onto \in Seq(Contents)
      /\ \A i \in 1..m : onto[i] = front[i]
      /\ \A i \in 1..k : onto[m + i] = PictureFile(list[i])
  BY <1>1, <1>2 DEF MadeOf, Picks
<1>4. m # 0
  <2>1. "DISK" \in names
    BY <1>1 DEF Complete, PartsNeeded
  <2>2. \E i : i \in 1..m
    BY <1>1, <1>2, <2>1 DEF Complete, PartsAre
  <2> QED
    BY <2>2
<1>5. k # 0
  <2> SUFFICES ASSUME k = 0
               PROVE  FALSE
    OBVIOUS
  <2>1. m \in 1..m /\ Len(onto) = m
    BY <1>3, <1>4
  <2>2. onto[m] = front[m]
    BY <1>3, <2>1
  <2>3. PICK name \in names : PartIs(front[m], name, C)
    BY <1>1, <1>2, <2>1 DEF Complete, PartsAre
  <2>4. last = Part(name)
    BY <2>1, <2>2, <2>3 DEF PartIs
  <2> QED
    BY <2>4, PartsApart
<1>6. last.picture = list[k]
  <2>1. k \in 1..k
    BY <1>3, <1>5
  <2>2. onto[Len(onto)] = PictureFile(list[k])
    BY <1>3, <2>1
  <2>3. last = PictureFile(list[k]).name
    BY <2>2
  <2>4. last = Picture(list[k])
    BY <2>3 DEF PictureFile
  <2> QED
    BY <2>4 DEF Picture
<1>7. PICK fewer : fewer = SubSeq(onto, 1, Len(onto) - 1)
  OBVIOUS
<1>8. PICK j \in Nat : j = k - 1
  BY <1>3, <1>5
<1>9. /\ fewer \in Seq(Contents) /\ Len(fewer) = m + j
      /\ \A i \in 1..(m + j) : fewer[i] = onto[i]
  <2>1. m + j \in Nat /\ Len(onto) - 1 = m + j /\ m + j <= Len(onto)
    BY <1>3, <1>8
  <2>2. fewer = SubSeq(onto, 0 + 1, 0 + (m + j)) /\ 0 + (m + j) <= Len(onto)
    BY <1>7, <2>1
  <2>3. PieceOf(fewer, Contents, onto, 0, m + j)
    BY <1>3, <2>1, <2>2, SubSeqIs
  <2>4. \A i \in 1..(m + j) : 0 + i = i
    OBVIOUS
  <2> QED
    BY <2>3, <2>4 DEF PieceOf
<1>10. MadeOf(fewer, front, list, j)
  <2>1. \A i \in 1..m : i \in 1..(m + j)
    OBVIOUS
  <2>2. \A i \in 1..j : m + i \in 1..(m + j) /\ i \in 1..k
    BY <1>3, <1>8
  <2>3. \A i \in 1..m : fewer[i] = front[i]
    BY <1>3, <1>9, <2>1
  <2>4. \A i \in 1..j : fewer[m + i] = PictureFile(list[i])
    BY <1>3, <1>9, <2>2
  <2> QED
    BY <1>2, <1>9, <2>3, <2>4 DEF MadeOf
<1>11. j \in 0..N /\ dropped' = {list[i] : i \in (j + 1)..N}
  <2>1. (j + 1)..N = (k + 1)..N \cup {k}
    BY <1>1, <1>3, <1>5, <1>8
  <2>2. dropped' = {list[i] : i \in (k + 1)..N} \cup {list[k]}
    BY <1>1, <1>6
  <2>3. j \in 0..N
    BY <1>1, <1>3, <1>8
  <2> QED
    BY <2>1, <2>2, <2>3
<1>12. PicturesWhole' /\ Picks(C, list, N)' /\ Complete(front, names, C)' /\ MadeOf(fewer, front, list, j)'
  BY <1>1, <1>10, PiecesStand DEF Accounted
<1>13. MadeOf(onto, front, list, j)'
  <2>1. onto' = fewer
    BY <1>7
  <2> QED
    BY <1>12, <2>1 DEF MadeOf
<1>14. j \in 0..N /\ dropped' = {list[i] : i \in (j + 1)..N}
  BY <1>11
<1>15. Picks(C, list, N)' /\ Complete(front, names, C)' /\ PicturesWhole'
  BY <1>12
<1> QED
  BY <1>13, <1>14, <1>15, NowAccounted

LEMMA DropPicturePlaces ==
  ASSUME DiskOfRelease, PicturesPlaced, DropPicture, DiskOfRelease'
  PROVE  PicturesPlaced'
<1>1. packing = "writing" /\ image = <<>> /\ onto' \in Seq(Contents)
  BY DEF DropPicture, DiskOfRelease
<1>2. CASE Fail
  BY <1>1, <1>2, PlacedStands DEF Fail, disketteVars
<1>3. CASE ~Fail
  <2>1. PICK last : /\ last = onto[Len(onto)].name /\ last \in {Picture(n) : n \in Numbers}
                    /\ onto' = SubSeq(onto, 1, Len(onto) - 1) /\ dropped' = dropped \cup {last.picture}
                    /\ filed' = <<>> /\ packing' = packing /\ packed' = packed /\ image' = image
    BY <1>3 DEF DropPicture
  <2>2. packed'.manifest = "plus3" => Accounted'
    <3>1. packed.manifest = "plus3" => Accounted
      BY <1>1 DEF PicturesPlaced
    <3> QED
      BY <2>1, <3>1, LastIsDropped
  <2> QED
    BY <1>1, <2>1, <2>2, BlankPlaced
<1> QED
  BY <1>2, <1>3

LEMMA PlacedStep ==
  ASSUME ReleasesCovered, ReleaseOK, DiskOfRelease, PicturesPlaced,
         [ReleaseNext]_<<folderVars, packagerVars, disketteVars>>, DiskOfRelease'
  PROVE  PicturesPlaced'
<1>1. CASE UNCHANGED packagerVars /\ UNCHANGED disketteVars
  <2>1. UNCHANGED <<packing, packed, onto, dropped, filed, image>>
    BY <1>1 DEF packagerVars, disketteVars
  <2>2. image # <<>> => packing = "done" /\ Len(filed) = Len(onto)
    BY DEF PicturesPlaced
  <2> QED
    BY <2>1, <2>2, PlacedStands
<1>2. CASE ReadBuild
  <2>1. /\ packing = "idle" /\ packing' # "writing" /\ dropped' = dropped
        /\ filed' = filed /\ image' = image
    BY <1>2 DEF ReadBuild, disketteVars
  <2>2. filed = <<>> /\ image = <<>> /\ dropped = {}
    BY <2>1 DEF DiskOfRelease, BlankDisk, PicturesPlaced
  <2>3. onto' \in Seq(Contents)
    BY DEF DiskOfRelease
  <2> QED
    BY <2>1, <2>2, <2>3, BlankPlaced
<1>3. CASE AssembleTape
  <2>1. /\ packing = "assembling" /\ packing' \in {"done", "failed"}
        /\ filed' = filed /\ image' = image
    BY <1>3 DEF AssembleTape, Fail, disketteVars
  <2>2. filed = <<>> /\ image = <<>>
    BY <2>1 DEF DiskOfRelease, BlankDisk
  <2>3. onto' \in Seq(Contents)
    BY DEF DiskOfRelease
  <2> QED
    BY <2>1, <2>2, <2>3, BlankPlaced
<1>4. CASE AssembleFiles
  BY <1>4, AssembleFilesPlaces
<1>5. CASE PutNext
  BY <1>5, PutNextPlaces
<1>6. CASE DropPicture
  BY <1>6, DropPicturePlaces
<1>7. CASE FinishDisk
  <2>1. /\ packing = "writing" /\ packing' = "done" /\ Len(filed) = Len(onto)
        /\ UNCHANGED <<packed, onto, dropped, filed>>
    BY <1>7 DEF FinishDisk, CloseDisk
  <2> QED
    BY <2>1, PlacedStands
<1>8. CASE WearDisk
  <2>1. UNCHANGED <<packing, packed, onto, dropped, filed>> /\ image # <<>>
    BY <1>8 DEF WearDisk, packagerVars, Turn, Spoil
  <2>2. packing = "done" /\ Len(filed) = Len(onto)
    BY <2>1 DEF PicturesPlaced
  <2> QED
    BY <2>1, <2>2, PlacedStands
<1> QED
  BY <1>1, <1>2, <1>3, <1>4, <1>5, <1>6, <1>7, <1>8 DEF ReleaseNext, PackagerNext

LEMMA PlacedAccounts ==
  ASSUME ReleasesCovered, ReleaseOK, DiskOfRelease, PicturesPlaced
  PROVE  EveryPictureAccounted
<1> SUFFICES ASSUME image # <<>>, spoilt = {}, packed.manifest = "plus3"
             PROVE  /\ \A n \in DOMAIN packed.images : (n \in dropped) = ~(OnDisk(n) \/ InBuffer(n))
                    /\ {Part("DISK"), Part("DAAD.BIN"), Part("PART1.DDB"), Part("PART1.SDG")} \subseteq
                         {f.name : f \in Range(ReadFiles)}
  BY DEF EveryPictureAccounted
<1>1. Accounted
  BY DEF PicturesPlaced
<1>2. filed = onto
  <2>1. filed \in Seq(Contents) /\ onto \in Seq(Contents)
    BY DEF DiskOfRelease, DiskHolds
  <2>2. Len(filed) = Len(onto) /\ \A i \in 1..Len(filed) : filed[i] = onto[i]
    BY DEF PicturesPlaced
  <2> QED
    BY <2>1, <2>2
<1>3. PackedOK /\ DiskHolds
  BY DEF ReleaseOK, DiskOfRelease
<1> QED
  BY <1>1, <1>2, <1>3, AccountedReads

\* EVERY PICTURE IS ACCOUNTED FOR: whatever the build, every picture of a +3's disk on
\* which nothing has gone bad is read as a file of its own or found whole where the
\* buffer's index says, and is said to have been left out exactly when it is neither;
\* and the parts that are not pictures can all be read (zxrelease.go, zxPlus3 and
\* ZXDisk; zxplus3cache.go, chooseCached and plus3Cache).
THEOREM PicturesAccounted ==
  ASSUME ReleasesCovered
  PROVE  ReleaseSpec => []EveryPictureAccounted
<1>1. FolderInit /\ PackagerInit => ReleaseOK /\ DiskOfRelease /\ PicturesPlaced
  BY ReleaseStarts, DiskOfReleaseStarts, PlacedStarts
<1>2. /\ ReleaseOK /\ DiskOfRelease /\ PicturesPlaced
      /\ [ReleaseNext]_<<folderVars, packagerVars, disketteVars>>
      => ReleaseOK' /\ DiskOfRelease' /\ PicturesPlaced'
  BY ReleaseStep, DiskOfReleaseStep, PlacedStep
<1>3. ReleaseOK /\ DiskOfRelease /\ PicturesPlaced => EveryPictureAccounted
  BY PlacedAccounts
<1> QED
  BY <1>1, <1>2, <1>3, PTL DEF ReleaseSpec
=============================================================================
