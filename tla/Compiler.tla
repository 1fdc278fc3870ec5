------------------------------- MODULE Compiler -------------------------------
(***************************************************************************)
(* A source on its way to a database: read (Preprocessor), parsed          *)
(* (Sections, Processes), linked (Linker).                                 *)
(***************************************************************************)
EXTENDS Linker

vars == <<preprocessorVars, sectionVars, processVars, linkerVars>>

Init == PreprocessorInit /\ SectionsInit /\ ProcessesInit /\ LinkerInit

Next ==
  \/ PreprocessorNext /\ UNCHANGED <<sectionVars, processVars, linkerVars>>
  \/ ParserNext /\ UNCHANGED <<preprocessorVars, linkerVars>>
  \/ LinkerNext /\ UNCHANGED <<preprocessorVars, sectionVars, processVars>>

Spec == Init /\ [][Next]_vars

-----------------------------------------------------------------------------
\* Jumps.

\* The first of a process's entries that has a block.
FirstOf(all, b) ==
  CHOOSE i \in DOMAIN all : all[i].block = b /\ \A j \in 1..(i - 1) : all[j].block # b

\* The first entry written below a label, which may be one past the last.
Below(all, label) ==
  LET after == {i \in DOMAIN all : all[i].line > label.line}
  IN  IF after = {} THEN Len(all) + 1 ELSE CHOOSE i \in after : \A j \in after : i <= j

\* Where a label was written: before the first entry further down, or in a block
\* of the last one further up, when it names the entry after the first that has
\* the block.
Meant(all, label) ==
  IF label.within THEN FirstOf(all, all[Below(all, label) - 1].block) + 1 ELSE Below(all, label)

Signed(byte) == IF byte < Reach THEN byte ELSE byte - 2 * Reach

Lands(all, b, jump, label) == FirstOf(all, b) + 1 + Signed(jump) = Meant(all, label)

\* A SKIP that names a label moves its entry on to where the label was written,
\* whether the label came before it or after, in whatever order processes,
\* groups and blocks came between (labels.go: jumpTo, resolvePending).
SkipsLand ==
  parsing = "done" =>
    \A p \in DOMAIN db.processes : \A i \in DOMAIN db.processes[p] :
      LET b == db.processes[p][i].block
      IN  \A c \in DOMAIN blocks[b] :
            LET skip == blocks[b][c]
            IN  Condacts[skip.op].skip /\ skip.args[1].written.is = "label" =>
                  Lands(db.processes[p], b, skip.args[1].value, labels[skip.args[1].written.name])

\* The same, as long as no process is written in two parts.
WholeSkipsLand ==
  (\A i, j \in DOMAIN opened : opened[i] = opened[j] => i = j) => SkipsLand

\* A text written in a condact is the one its number finds (fileMessage), in the
\* table that began with the texts of the sections.
TextsAreFiled ==
  parsing = "done" =>
    \A b \in DOMAIN blocks : \A c \in DOMAIN blocks[b] :
      LET condact == blocks[b][c]
          table == Existing(Condacts[condact.op].literal)
      IN  (condact.args # <<>> /\ condact.args[1].written.is = "text") =>
             /\ condact.args[1].value + 1 \in DOMAIN table
             /\ table[condact.args[1].value + 1] = condact.args[1].written.text
=============================================================================
