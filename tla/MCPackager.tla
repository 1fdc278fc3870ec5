------------------------------ MODULE MCPackager ------------------------------
(***************************************************************************)
(* One build directory, written by one program, stopped or not, and packed *)
(* by another; or one picture compressed.  Addresses and sizes are a       *)
(* thousandth of the machine's, with the same order between them: the      *)
(* interpreter, its workspace, the database, the pictures, the index and   *)
(* the stub that ends the memory.                                          *)
(***************************************************************************)
EXTENDS Packager, ZX0

NoPictures == [n \in {} |-> 0]
Pictures(S, size) == [n \in S |-> size]

A48K(database, charset, loading, images) ==
  [manifest |-> "48k", database |-> database, charset |-> charset,
   loading |-> loading, images |-> images]
APlus3(database, loading, images) ==
  [A48K(database, Empty, loading, images) EXCEPT !.manifest = "plus3"]
ACPC(database, charset) ==
  [A48K(database, charset, Empty, NoPictures) EXCEPT !.manifest = "cpc"]
AsPC(database) == [A48K(database, Empty, Empty, NoPictures) EXCEPT !.manifest = "pc"]

\* The machines as arch.Machine numbers them: ZX, CPC and PC.
MCMachineOf ==
  [m \in {"48k", "plus3", "cpc", "pc"} |-> CASE m = "pc" -> 0 [] m = "cpc" -> 3 [] OTHER -> 1]

MCNumbers == {1, 2, 3, 255}

\* A database that leaves the pictures at their address, that pushes them up,
\* that leaves room for one of two, and that does not fit; pictures that fit, all
\* but one, or over the index; and loading pictures longer
\* than a screen, and than the memory.
Tapes ==
  {A48K(d, Empty, 2, Pictures({1, 2}, p)) : d \in {4, 10, 22, 60}, p \in {1, 2, 4, 6}}
    \cup {A48K(4, c, Empty, NoPictures) : c \in {2, 3, 5}}
    \cup {A48K(4, Empty, Empty, Pictures({3, 255}, 1)),
          A48K(4, Empty, Empty, Pictures({1, 2, 3}, 4)),
          A48K(4, Empty, 9, Pictures({1}, 1)),
          A48K(4, Empty, 65, NoPictures)}

\* Names enough and too few, a database of two extents and one too long; pictures
\* too long for the buffer, and one it cannot name.
Plus3s ==
  {APlus3(d, l, Pictures(S, 1)) : d \in {1, 11}, l \in {Empty, 2}, S \in {{1}, {1, 2, 3}, MCNumbers}}
    \cup {APlus3(1, 2, [n \in MCNumbers |-> IF n = 1 THEN 3 ELSE 5]),
          APlus3(1, 2, [n \in MCNumbers |-> IF n = 255 THEN 1 ELSE 2]),
          APlus3(20, Empty, Pictures({1, 2}, 1)),
          APlus3(44, Empty, Pictures({1, 2}, 1))}

CPCs == {ACPC(d, c) : d \in {1, 12, 20}, c \in {Empty, 2, 5}}

Rewritten == {A48K(4, 2, 2, Pictures({1}, 1)), APlus3(1, Empty, Pictures({2}, 1)), ACPC(1, 2), AsPC(1)}
MCBuilds == Tapes \cup Plus3s \cup CPCs \cup Rewritten
MCSizes == [v \in {"48k", "plus3", "cpc"} |-> 3]
MCReleaseNames == {Part("GAME.BIN"), Part("A*B.BIN"), Part("(A).BIN")}
MCUnnameable == {Part("A*B.BIN")}
MCUnreadable == {Part("(A).BIN")}
MCScreens == UNION {[1..n -> 0..1] : n \in 1..10}

\* A directory as a whole write of b leaves it.
Written(b) ==
  /\ files = [f \in Files |-> IF f \in {"charset", "loading"} /\ b[f] = Empty THEN Absent ELSE b[f]]
  /\ pictures = [n \in Numbers |-> IF n \in DOMAIN b.images THEN b.images[n] ELSE Absent]
  /\ build = b
  /\ writing = "nothing" /\ left = {} /\ complete = TRUE

MCInit ==
  \/ /\ PackagerInit /\ ZX0Idle
     /\ \/ FolderInit /\ build \in Rewritten
        \/ \E b \in Tapes \cup Plus3s \cup CPCs : Written(b)
     /\ packed = build
  \/ /\ PackagerInit /\ ZX0Init
     /\ Written(A48K(4, 2, 2, Pictures({1}, 1)))
     /\ packed = build

\* The directory is written over with another build by one program, and read by
\* the other once that has ended, well or not.
Overwriting ==
  /\ screen = <<>> /\ packing = "idle" /\ build \in Rewritten
  /\ UNCHANGED <<packagerVars, disketteVars, zx0Vars>>
Packing == screen = <<>> /\ UNCHANGED <<folderVars, zx0Vars>>
Compressing == screen # <<>> /\ UNCHANGED <<folderVars, packagerVars, disketteVars>>

MCNext ==
  \/ \E b \in Rewritten : Begin(b) /\ Overwriting
  \/ WriteFile /\ Overwriting
  \/ ClearPictures /\ Overwriting
  \/ \E n \in Numbers : WritePicture(n) /\ Overwriting
  \/ FinishWriting /\ Overwriting
  \/ StopWriting /\ Overwriting
  \/ ReadBuild /\ Packing
  \/ AssembleTape /\ Packing
  \/ AssembleFiles /\ Packing
  \/ PutNext /\ Packing
  \/ DropPicture /\ Packing
  \/ FinishDisk /\ Packing
  \/ WearDisk /\ Packing
  \/ WriteLiterals /\ Compressing
  \/ WriteCopy /\ Compressing
  \/ WriteEnd /\ Compressing

MCSpec == MCInit /\ [][MCNext]_<<folderVars, packagerVars, disketteVars, zx0Vars>>
===============================================================================
