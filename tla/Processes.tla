------------------------------ MODULE Processes -------------------------------
(***************************************************************************)
(* The parser, from the processes to the end (internal/front/legacy:       *)
(* sections_process.go, labels.go; internal/ddb/process.go).  Entries hold *)
(* the number of their block, which the heads of a group share: a SKIP     *)
(* patched through the block is patched for them all.                      *)
(*                                                                         *)
(* Entries, labels and SKIPs also carry the line they were written on, and *)
(* texts filed from a condact the text itself.  Nothing here reads those;  *)
(* the properties do.                                                      *)
(***************************************************************************)
EXTENDS Sections

CONSTANTS Condacts,     \* ddb's table: opcode -> [params, terminal, literal, skip]
          Reach         \* how far a jump goes: 128, half of what a byte holds

\* Only a condact that takes an operand takes a jump.
ASSUME ProcessesAssumption ==
  /\ Reach \in Nat \ {0}
  /\ \A op \in DOMAIN Condacts : Condacts[op].skip => Len(Condacts[op].params) >= 1
  /\ \A l \in Lines : l.is = "condact" => l.args \in Seq(Range(l.args))

VARIABLES process,      \* the process being read, -1 before the first
          opened,       \* history: the numbers of the processes read, in order
          mode,         \* where entries() stands: "between", "heads" or "block"
          entries,      \* the entries of the process, whose groups are over
          heads,        \* those of the group being read
          block,        \* and the condacts they share
          blocks,       \* every block that is over
          labels,       \* labelTable.defined
          pending       \* labelTable.pending

processVars == <<process, opened, mode, entries, heads, block, blocks, labels, pending>>

MaxProcess == 254

ProcessesInit ==
  /\ process = -1
  /\ opened = <<>>
  /\ mode = "between"
  /\ entries = <<>>
  /\ heads = <<>>
  /\ block = <<>>
  /\ blocks = <<>>
  /\ labels = <<>>
  /\ pending = <<>>

InProcesses == Walks /\ section = 9
InProcess == InProcesses /\ process >= 0

RefuseProcess == RefuseSource /\ UNCHANGED processVars

-----------------------------------------------------------------------------
\* Where a group ends, its block is given to every head, an empty one too.
Grouped ==
  IF mode = "between" THEN entries
  ELSE entries \o [i \in DOMAIN heads |->
                     [verb |-> heads[i].verb, noun |-> heads[i].noun, line |-> heads[i].line,
                      block |-> Len(blocks) + 1]]
Blocked == IF mode = "between" THEN blocks ELSE Append(blocks, block)

\* Processes.NewLegacy: the number is a position; gaps are filled with empty
\* processes, and a number seen twice goes on where it stopped.
NewLegacy(all, number, more) ==
  [i \in 1..(IF number + 1 > Len(all) THEN number + 1 ELSE Len(all)) |->
     (IF i <= Len(all) THEN all[i] ELSE <<>>) \o (IF i = number + 1 THEN more ELSE <<>>)]

FiledProcesses == IF process < 0 THEN db.processes ELSE NewLegacy(db.processes, process, Grouped)

OpenProcess ==
  /\ InProcesses /\ line.is = "section" /\ line.section = "PRO"
  /\ IF IsByte(line.number) /\ ByteValue(line.number) <= MaxProcess
     THEN /\ db' = [db EXCEPT !.processes = FiledProcesses]
          /\ process' = ByteValue(line.number)
          /\ opened' = Append(opened, process')
          /\ blocks' = Blocked
          /\ mode' = "between" /\ entries' = <<>> /\ heads' = <<>> /\ block' = <<>>
          /\ UNCHANGED <<section, want, counted, parsing, labels, pending>>
     ELSE RefuseProcess

-----------------------------------------------------------------------------
\* Labels.

\* A label before a group names its first entry; one inside a block, the entry
\* after that, which is the second head when the block has several.
DefineLabel ==
  /\ InProcess /\ line.is = "label"
  /\ IF line.name \in DOMAIN labels THEN RefuseProcess
     ELSE /\ labels' = Over(Worth({line.name},
                         [process |-> process,
                          entry |-> Len(entries) + (IF mode = "between" THEN 0 ELSE 1),
                          line |-> cursor, within |-> mode # "between"]), labels)
          /\ mode' = IF mode = "between" THEN mode ELSE "block"
          /\ UNCHANGED <<section, want, db, counted, parsing,
                         process, opened, entries, heads, block, blocks, pending>>

\* jumpTo: from the entry after the one the jump is in, wrapped to a byte.
CanJump(number, from, to) ==
  /\ to.process = number
  /\ to.entry - from <= Reach
  /\ to.entry - from - 1 >= -Reach

\* Mutant: backwards, the entry the jump is in is counted as well.
JumpTo_Inclusive(from, to) ==
  LET jump == to.entry - from
  IN  IF jump > 0 THEN jump - 1 ELSE jump + 2 * Reach - 2

JumpTo(from, to) ==
  LET jump == to.entry - from - 1
  IN  IF jump < 0 THEN jump + 2 * Reach ELSE jump

-----------------------------------------------------------------------------
\* Entries.

\* A verb may be a noun whose value is low enough.
EntryVerbs == [name \in STRING |->
  IF Spelled(Verb, name) # {} THEN {FirstSpelled(Verb, name)}
  ELSE IF Spelled(Noun, name) # {} THEN {FirstSpelled(Noun, name)} \cap 0..MaxConvertible
  ELSE {}]
EntryNouns == [name \in STRING |-> IF Spelled(Noun, name) # {} THEN {FirstSpelled(Noun, name)} ELSE {}]

\* The value of an entry word, or none.  A number is one without a word.
EntryWord(word, named) ==
  CASE word.is = "null" -> {NoWord}
    [] word.is = "number" -> {word.num} \cap 0..255
    [] OTHER -> named[word.name]

EntryHead ==
  /\ InProcess /\ line.is = "head"
  /\ IF EntryWord(line.verb, EntryVerbs) = {} \/ EntryWord(line.noun, EntryNouns) = {}
     THEN RefuseProcess
     ELSE LET head == [verb |-> CHOOSE v \in EntryWord(line.verb, EntryVerbs) : TRUE,
                       noun |-> CHOOSE n \in EntryWord(line.noun, EntryNouns) : TRUE,
                       line |-> cursor]
          IN  /\ heads' = IF mode = "heads" THEN Append(heads, head) ELSE <<head>>
              /\ mode' = "heads"
              /\ entries' = IF mode = "heads" THEN entries ELSE Grouped
              /\ blocks' = IF mode = "heads" THEN blocks ELSE Blocked
              /\ block' = IF mode = "heads" THEN block ELSE <<>>
              /\ UNCHANGED <<section, want, db, counted, parsing, process, opened, labels, pending>>

-----------------------------------------------------------------------------
\* Condacts.

Existing(literal) == IF literal = "user" THEN db.user ELSE db.system

\* An operand that asks for a kind of word is one, if it is spelled like one.
NamesWord(kind, arg) ==
  /\ kind \in {Verb, Noun, Adjective, Adverb, Preposition}
  /\ arg.is = "value" /\ Len(arg.value.atoms) = 1 /\ arg.value.atoms[1].is = "name"
  /\ Spelled(kind, arg.value.atoms[1].name) # {}

IsSkipOffset(e) == Evaluable(e, Table) /\ Evaluate(e, Table) \in (-Reach)..(2 * Reach - 1)

IsOperand(def, kind, arg) ==
  CASE arg.is = "text" -> def.literal # "none" /\ Len(Existing(def.literal)) <= MaxMessage
    [] arg.is = "label" ->
         def.skip /\ (arg.name \in DOMAIN labels =>
                        CanJump(process, Len(entries), labels[arg.name]))
    [] OTHER -> \/ NamesWord(kind, arg)
                \/ IF def.skip THEN IsSkipOffset(arg.value) ELSE IsByte(arg.value)

\* Mutant: a text is numbered in the other table.
TextNumber_OtherTable(literal) == Len(IF literal = "user" THEN db.system ELSE db.user)

\* fileMessage: a text written in a condact goes at the end of its table.
TextNumber(literal) == Len(Existing(literal))

\* The jump to a label that is still to come waits as zero.
OperandValue(def, kind, arg) ==
  CASE arg.is = "text" -> TextNumber(def.literal)
    [] arg.is = "label" -> IF arg.name \in DOMAIN labels
                           THEN JumpTo(Len(entries), labels[arg.name]) ELSE 0
    [] OTHER -> IF NamesWord(kind, arg) THEN FirstSpelled(kind, arg.value.atoms[1].name)
                ELSE IF def.skip /\ ByteValue(arg.value) < 0
                THEN ByteValue(arg.value) + 2 * Reach ELSE ByteValue(arg.value)

Condact ==
  /\ InProcess /\ mode # "between" /\ line.is = "condact"
  /\ LET known == line.op \in DOMAIN Condacts
         def == Condacts[line.op]
         args == line.args
     IN  IF known /\ Len(args) = Len(def.params)
             /\ \A i \in DOMAIN args : IsOperand(def, def.params[i], args[i])
         THEN /\ block' = Append(block,
                   [op |-> line.op, line |-> cursor, args |->
                      [i \in DOMAIN args |->
                         [value |-> OperandValue(def, def.params[i], args[i]),
                          indirect |-> args[i].indirect, written |-> args[i]]]])
              /\ db' = IF args # <<>> /\ args[1].is = "text"
                       THEN IF def.literal = "user"
                            THEN [db EXCEPT !.user = Append(@, args[1].text)]
                            ELSE [db EXCEPT !.system = Append(@, args[1].text)]
                       ELSE db
              /\ pending' = IF args # <<>> /\ args[1].is = "label" /\ args[1].name \notin DOMAIN labels
                            THEN Append(pending,
                                   [name |-> args[1].name, process |-> process,
                                    from |-> Len(entries), block |-> Len(blocks) + 1,
                                    condact |-> Len(block) + 1])
                            ELSE pending
              /\ mode' = "block"
              /\ UNCHANGED <<section, want, counted, parsing,
                             process, opened, entries, heads, blocks, labels>>
         ELSE RefuseProcess

\* What is none of these: a condact before any entry, a directive, or anything
\* but a process after the objects, /END among them when it is not yet due.
Astray ==
  /\ Parses /\ section = 9
  /\ IF SourceEnds THEN TRUE
     ELSE \/ line.is \notin {"section", "label", "head", "condact"}
          \/ line.is = "section" /\ line.section \notin {"PRO", "END"}
          \/ line.is # "section" /\ process < 0
          \/ line.is = "condact" /\ mode = "between"
  /\ UNCHANGED cursor
  /\ RefuseProcess

-----------------------------------------------------------------------------
\* The end of the source, where no label can still be to come.

Resolvable(waiting) ==
  /\ waiting.name \in DOMAIN labels
  /\ CanJump(waiting.process, waiting.from, labels[waiting.name])

\* resolvePending fills in every SKIP that waits, through the block it is in.
Resolved(all) ==
  [b \in DOMAIN all |->
     [c \in DOMAIN all[b] |->
        LET waiting == {w \in Range(pending) : w.block = b /\ w.condact = c}
        IN  IF waiting = {} THEN all[b][c]
            ELSE LET w == CHOOSE w \in waiting : TRUE
                 IN  [all[b][c] EXCEPT !.args[1].value = JumpTo(w.from, labels[w.name])]]]

EndOfProcesses ==
  /\ InProcesses /\ line.is = "section" /\ line.section = "END"
  /\ IF \A i \in DOMAIN pending : Resolvable(pending[i])
     THEN /\ db' = [db EXCEPT !.processes = FiledProcesses]
          /\ blocks' = Resolved(Blocked)
          /\ pending' = <<>>
          /\ parsing' = "done"
          /\ UNCHANGED <<section, want, counted, process, opened, mode, entries, heads, block, labels>>
     ELSE RefuseProcess

ParserNext ==
  \/ SectionsNext /\ UNCHANGED processVars
  \/ OpenProcess \/ DefineLabel \/ EntryHead \/ Condact \/ Astray \/ EndOfProcesses
=============================================================================
