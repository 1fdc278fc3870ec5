----------------------------- MODULE Conditionals -----------------------------
(***************************************************************************)
(* What conditional compilation promises, whoever carries it out: a line   *)
(* counts when every conditional around it has taken the branch it stands  *)
(* in.  The conditionals open at a line are a stack, the innermost last.   *)
(* Every line that is read is answered for: "read" and "line" are what has *)
(* been read so far, and no step may read one and say nothing of it.       *)
(***************************************************************************)
EXTENDS Naturals, Sequences

CONSTANT Lines          \* the lines a source may be made of

VARIABLES given,        \* the names defined before it is read
          read,         \* how many lines have been read
          line,         \* the last of them
          stack,        \* how each conditional now open stands
          kept,         \* the lines that count, as they were written
          named,        \* the names they have defined
          noted,        \* the requests among them that go to the back end
          verdict       \* "reading", "done" or "refused"

vars == <<given, read, line, stack, kept, named, noted, verdict>>

\* The branch is read; it is not; the conditional lies in one that is not.
Branches == {"taken", "dropped", "dead"}

Conditional == {"ifdef", "ifndef"}
Requests == {"extern", "int", "sfx", "debug", "classic"}
Silent == {"echo", "include", "back"}
Consumed == Conditional \cup Requests \cup Silent \cup {"else", "endif", "define"}

Live == \A i \in DOMAIN stack : stack[i] = "taken"

\* #else turns to the other branch, of a conditional that counts at all.
Other(branch) ==
  CASE branch = "taken" -> "dropped"
    [] branch = "dropped" -> "taken"
    [] OTHER -> "dead"

Holds(l) == (l.is = "ifdef") = (l.name \in given \cup named)

-----------------------------------------------------------------------------
Init ==
  /\ read = 0
  /\ line = [is |-> "nothing"]
  /\ stack = <<>>
  /\ kept = <<>>
  /\ named = {}
  /\ noted = {}
  /\ verdict = "reading"

Keep(l) ==
  /\ l.is \notin Consumed
  /\ kept' = IF Live THEN Append(kept, l) ELSE kept
  /\ UNCHANGED <<stack, named, noted, verdict>>

Define(l) ==
  /\ l.is = "define"
  /\ named' = IF Live THEN named \cup {l.name} ELSE named
  /\ UNCHANGED <<stack, kept, noted, verdict>>

Note(l) ==
  /\ l.is \in Requests
  /\ noted' = IF Live THEN noted \cup {l} ELSE noted
  /\ UNCHANGED <<stack, kept, named, verdict>>

Pass(l) ==
  /\ l.is \in Silent
  /\ UNCHANGED <<stack, kept, named, noted, verdict>>

Open(l) ==
  /\ l.is \in Conditional
  /\ stack' = Append(stack, IF ~Live THEN "dead" ELSE IF Holds(l) THEN "taken" ELSE "dropped")
  /\ UNCHANGED <<kept, named, noted, verdict>>

Else(l) ==
  /\ l.is = "else" /\ stack # <<>>
  /\ stack' = [stack EXCEPT ![Len(stack)] = Other(@)]
  /\ UNCHANGED <<kept, named, noted, verdict>>

Endif(l) ==
  /\ l.is = "endif" /\ stack # <<>>
  /\ stack' = SubSeq(stack, 1, Len(stack) - 1)
  /\ UNCHANGED <<kept, named, noted, verdict>>

\* A line that counts may be refused for what it says, if it says anything to
\* the preprocessor; of the others, only an inclusion, or an #else or an #endif
\* of no conditional.
Refuse(l) ==
  /\ \/ Live /\ l.is \in Consumed \ {"else", "endif"}
     \/ l.is \in {"else", "endif"} /\ stack = <<>>
     \/ l.is = "include"
  /\ verdict' = "refused"
  /\ UNCHANGED <<stack, kept, named, noted>>

ReadLine ==
  /\ read' = read + 1
  /\ line' \in Lines
  /\ \/ Keep(line') \/ Define(line') \/ Note(line') \/ Pass(line')
     \/ Open(line') \/ Else(line') \/ Endif(line') \/ Refuse(line')

\* A source ends well when every conditional has been closed, and not otherwise.
Finish ==
  /\ verdict' = IF stack = <<>> THEN "done" ELSE "refused"
  /\ UNCHANGED <<read, line, stack, kept, named, noted>>

Next ==
  /\ verdict = "reading"
  /\ UNCHANGED given
  /\ ReadLine \/ Finish

Spec == Init /\ [][Next]_vars
=============================================================================
