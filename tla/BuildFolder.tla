----------------------------- MODULE BuildFolder -----------------------------
(***************************************************************************)
(* What the compiler hands to the packager (internal/build/build.go): a    *)
(* directory, written a file at a time over whatever an earlier build left *)
(* there, and read by another program.  A write may stop half way.         *)
(*                                                                         *)
(* A build is a record: its manifest, which says what it is for, and the   *)
(* contents of its files.  Contents of no bytes are Empty, and a file that *)
(* is not there is Absent.                                                 *)
(***************************************************************************)
EXTENDS Integers, FiniteSets

CONSTANTS Builds,       \* what may be written
          Numbers,      \* the numbers a picture may have
          MachineOf,    \* the machine a manifest names, by the format's number
          Empty,
          Absent

Files == {"manifest", "database", "charset", "loading"}

ASSUME BuildFolderAssumption ==
  /\ Empty # Absent
  /\ \A b \in Builds : MachineOf[b.manifest] \in 0..15
  /\ \A b \in Builds :
       /\ b = [manifest |-> b.manifest, database |-> b.database,
               charset |-> b.charset, loading |-> b.loading,
               images |-> [n \in DOMAIN b.images |-> b.images[n]]]
       /\ \A f \in Files : b[f] # Absent
       /\ b.manifest # Empty
       /\ DOMAIN b.images \subseteq Numbers
       /\ \A n \in DOMAIN b.images : b.images[n] # Absent

VARIABLES files,        \* the contents of each file in the directory
          pictures,     \* and of each picture in the directory images
          build,        \* the build being written, or written last
          writing,      \* what is written next, "nothing" when no write is on
          left,         \* the pictures of it still to be written
          complete      \* whether the last write came to its end

folderVars == <<files, pictures, build, writing, left, complete>>

FolderInit ==
  /\ files = [f \in Files |-> Absent]
  /\ pictures = [n \in Numbers |-> Absent]
  /\ build \in Builds
  /\ writing = "nothing"
  /\ left = {}
  /\ complete = FALSE

Begin(b) ==
  /\ writing = "nothing"
  /\ build' = b
  /\ writing' = "manifest"
  /\ complete' = FALSE
  /\ UNCHANGED <<files, pictures, left>>

After(f) ==
  CASE f = "manifest" -> "database"
    [] f = "database" -> "charset"
    [] f = "charset" -> "loading"
    [] f = "loading" -> "images"

\* Mutant: what this build does not have stays as it is.
Replaced_Kept(f) ==
  IF f \in {"charset", "loading"} /\ build[f] = Empty THEN files[f] ELSE build[f]

\* replaceFile: what this build does not have, the directory must not keep.
Replaced(f) ==
  IF f \in {"charset", "loading"} /\ build[f] = Empty THEN Absent ELSE build[f]

WriteFile ==
  /\ writing \in Files
  /\ files' = [files EXCEPT ![writing] = Replaced(writing)]
  /\ writing' = After(writing)
  /\ UNCHANGED <<pictures, build, left, complete>>

\* writeImages: the directory goes first, and then the pictures in any order.
ClearPictures ==
  /\ writing = "images"
  /\ pictures' = [n \in Numbers |-> Absent]
  /\ left' = DOMAIN build.images
  /\ writing' = "pictures"
  /\ UNCHANGED <<files, build, complete>>

WritePicture(n) ==
  /\ writing = "pictures"
  /\ n \in left
  /\ pictures' = [pictures EXCEPT ![n] = build.images[n]]
  /\ left' = left \ {n}
  /\ UNCHANGED <<files, build, writing, complete>>

FinishWriting ==
  /\ writing = "pictures" /\ left = {}
  /\ writing' = "nothing"
  /\ complete' = TRUE
  /\ UNCHANGED <<files, pictures, build, left>>

\* The write stops: the file it was at is as it was, or was emptied to be
\* written; of the pictures being taken away, some remain.
StopWriting ==
  /\ writing # "nothing"
  /\ writing' = "nothing"
  /\ left' = {}
  /\ UNCHANGED <<build, complete>>
  /\ \/ UNCHANGED <<files, pictures>>
     \/ /\ writing \in Files
        /\ files' = [files EXCEPT ![writing] = Empty]
        /\ UNCHANGED pictures
     \/ /\ writing = "images"
        /\ \E kept \in SUBSET Numbers :
             pictures' = [n \in Numbers |-> IF n \in kept THEN pictures[n] ELSE Absent]
        /\ UNCHANGED files
     \/ /\ writing = "pictures"
        /\ \E n \in left : pictures' = [pictures EXCEPT ![n] = Empty]
        /\ UNCHANGED files

FolderNext ==
  \/ \E b \in Builds : Begin(b)
  \/ WriteFile
  \/ ClearPictures
  \/ \E n \in Numbers : WritePicture(n)
  \/ FinishWriting
  \/ StopWriting

FolderSpec == FolderInit /\ [][FolderNext]_folderVars

-----------------------------------------------------------------------------
\* parseManifest: no machine, and machine 0, are the same to it.  A manifest of no
\* lines names none; the one the format numbers 0 is the PC.
NoMachine == 0
NamesItsMachine(manifest) ==
  /\ manifest \notin {Absent, Empty}
  /\ MachineOf[manifest] # NoMachine

\* Read gives an error, or a build.
Readable == NamesItsMachine(files.manifest) /\ files.database # Absent

\* A missing font or loading picture is a build that has none.
OrEmpty(contents) == IF contents = Absent THEN Empty ELSE contents

Read ==
  [manifest |-> files.manifest, database |-> files.database,
   charset |-> OrEmpty(files.charset), loading |-> OrEmpty(files.loading),
   images |-> [n \in {m \in Numbers : pictures[m] # Absent} |-> pictures[n]]]

\* A build that was written whole is in the directory as it was written, whatever
\* an earlier build or a write that stopped half way had left there (build.go:
\* "what is not in this build has no business surviving into it"); and reading it
\* gives that build, or the error of a machine numbered 0 and for no other.
WrittenIsRead ==
  complete =>
    /\ Read = build
    /\ Readable <=> MachineOf[build.manifest] # NoMachine

FolderTypeOK ==
  /\ DOMAIN files = Files
  /\ DOMAIN pictures = Numbers
  /\ build \in Builds
  /\ writing \in Files \cup {"nothing", "images", "pictures"}
  /\ left \subseteq Numbers
  /\ complete \in BOOLEAN
=============================================================================
