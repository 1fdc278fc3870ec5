----------------------------- MODULE Preprocessor -----------------------------
(***************************************************************************)
(* The passes before the parser (internal/front/legacy: include.go,        *)
(* predefined.go, expr.go, preproc.go).  They read a source once, from its *)
(* first line to its last, and never look ahead, so the source is chosen   *)
(* here line by line as it is read.  A line is a record: "is" says what it *)
(* is, and a directive carries its operand; what is not a directive of the *)
(* preprocessor goes through as it stands.                                 *)
(*                                                                         *)
(* The program keeps two counters, where a conditional asks for a stack:   *)
(* this is why Conditionals is worth implementing.                         *)
(***************************************************************************)
EXTENDS Integers, Sequences, SequencesExt, FiniteSets, TLC

CONSTANTS Lines,        \* the lines a source may be made of
          Options,      \* what it may be compiled for
          MaxLines      \* how many lines are read at most

VARIABLES opts,         \* what the source is compiled for
          at,           \* how many lines have been read
          last,         \* the last of them
          inside,       \* whether they come from an included file
          open,         \* preprocessor.open
          depth,        \* skipDead's depth, 0 when it is not running
          defined,      \* what #define has added to the symbols
          out,          \* preprocessor.out
          linked,       \* preprocessor.linked, its three lists as one
          settings,     \* preprocessor.settings
          reading       \* "reading", "done" or "refused"

preprocessorVars ==
  <<opts, at, last, inside, open, depth, defined, out, linked, settings, reading>>

Conditional == {"ifdef", "ifndef"}
External == {"extern", "int", "sfx"}
Switch == {"debug", "classic"}
Directives == Conditional \cup External \cup Switch \cup {"define", "else", "endif", "echo"}
Inclusion == {"include", "back"}

\* #debug and #classic say nothing else.
ASSUME PreprocessorAssumption ==
  /\ MaxLines \in Nat
  /\ \A line \in Lines : line.is \in Switch => line = [is |-> line.is]

-----------------------------------------------------------------------------
\* The symbols.

Positions(names, from) ==
  [name \in Range(names) |-> from - 1 + CHOOSE i \in DOMAIN names : names[i] = name]

SFXOperands == <<"PLAYSFX", "PLAYSFXL", "PLAYSFXF", "PLAYSFXFL", "STOPSFX", "PLAYDRO",
                 "PLAYDROL", "STOPDRO", "PLAYFLI", "PLAYFLIL">>
MouseOperands == <<"RESETMS", "SHOWMS", "HIDEMS", "GETMS", "GETFINEMS", "POINTERMS",
                   "DELTAXMS", "DELTAYMS">>

\* target.go: which variants a machine has, and how wide and tall its text is.
Subtargets(machine) ==
  CASE machine = "ZX" -> {"48K", "128K", "PLUS3", "ESXDOS", "NEXT", "UNO"}
    [] machine = "ZX81" -> {"16K", "SD81B"}
    [] machine = "PC" -> {"TEXT", "CGA", "EGA", "VGA", "VGA256"}
    [] machine = "MSX2" -> {"5_6", "5_8", "6_6", "6_8", "7_6", "7_8",
                            "8_6", "8_8", "10_6", "10_8", "12_6", "12_8"}
    [] OTHER -> {}

Validate(o) == o.version \in {2, 3} /\ o.sub \in Subtargets(o.machine) \cup {""}

Cols(machine, sub) ==
  CASE machine = "PC" -> IF sub = "TEXT" THEN 80 ELSE 53
    [] machine = "MSX2" -> IF sub \in {"6_6", "7_6"} THEN 85
                           ELSE IF sub \in {"6_8", "7_8"} THEN 64
                           ELSE IF sub \in {"5_8", "8_8", "10_8", "12_8"} THEN 32 ELSE 42
    [] machine = "ZX81" /\ sub = "16K" -> 32
    [] machine \in {"C64", "CP4", "CPC"} -> 40
    [] machine = "CPM" -> 80
    [] machine \in {"HTML", "ST", "AMIGA"} -> 53
    [] machine = "PCW" -> 90
    [] OTHER -> 42

Rows(machine) ==
  CASE machine = "PCW" -> 32
    [] machine = "MSX2" -> 26
    [] machine \in {"ZX81", "ZX", "MSX"} -> 24
    [] OTHER -> 25

Worth(names, value) == [name \in names |-> value]

\* addExtra: a name on the command line is worth its position, the last of them;
\* one that is empty has a position but is none.
Extra(names) ==
  [name \in Range(names) \ {""} |->
     CHOOSE i \in DOMAIN names :
       names[i] = name /\ \A j \in DOMAIN names : names[j] = name => j <= i]

\* What is being compiled for is part of the table from the start.  The year,
\* month and day are the date's.
Predefined(o) ==
  Worth({"V" \o ToString(IF o.version >= 3 THEN 3 ELSE 2)}, 1)
    @@ Extra(o.extra)
    @@ [YEARHIGH |-> o.year \div 100, YEARLOW |-> o.year % 100,
        MONTH |-> o.month, DAY |-> o.day, ROWS |-> Rows(o.machine), COLS |-> Cols(o.machine, o.sub)]
    @@ Worth({o.machine} \cup (IF o.sub = "" THEN {} ELSE {o.sub, "MODE_" \o o.sub})
              \cup (IF o.bits \in {8, 16} THEN {"BIT" \o ToString(o.bits)} ELSE {}), 1)
    @@ Positions(SFXOperands, 1) @@ Positions(MouseOperands, 0)
    @@ [NOT_CREATED |-> 252, NON_CREATED |-> 252, WORN |-> 253, CARRIED |-> 254, HERE |-> 255]

\* What one table says, and another where it says nothing.
Over(table, under) ==
  [name \in DOMAIN table \cup DOMAIN under |->
     IF name \in DOMAIN table THEN table[name] ELSE under[name]]

symbols == Over(defined, Predefined(opts))

\* A value is an expression: its atoms, which are numbers or names, and the
\* operators between them.  A number, a name, or the underscore that stands for
\* the null word where the parser reads a value, is one of a single atom.
\* Parentheses and signs are left out.
Quotient(a, b) ==
  LET q == (IF a < 0 THEN -a ELSE a) \div (IF b < 0 THEN -b ELSE b)
  IN  IF (a < 0) = (b < 0) THEN q ELSE -q

AtomValue(atom, table) ==
  CASE atom.is = "number" -> atom.num
    [] atom.is = "null" -> 255
    [] OTHER -> table[atom.name]

Evaluable(e, table) ==
  /\ \A i \in DOMAIN e.atoms : e.atoms[i].is = "name" => e.atoms[i].name \in DOMAIN table
  /\ \A i \in DOMAIN e.ops :
       e.ops[i] \in {"/", "%"} => AtomValue(e.atoms[i + 1], table) # 0

\* sum holds the products added so far, and product the one being read, with
\* its sign.
Evaluate(e, table) ==
  LET Multiply(product, op, n) ==
        CASE op = "*" -> product * n
          [] op = "/" -> Quotient(product, n)
          [] op = "%" -> product - n * Quotient(product, n)
      Operate(acc, i) ==
        LET n == AtomValue(e.atoms[i + 1], table)
        IN  IF e.ops[i] \in {"+", "-"}
            THEN [sum |-> acc.sum + acc.sign * acc.product,
                  sign |-> IF e.ops[i] = "+" THEN 1 ELSE -1, product |-> n]
            ELSE [acc EXCEPT !.product = Multiply(@, e.ops[i], n)]
      read == FoldLeft(Operate,
                       [sum |-> 0, sign |-> 1, product |-> AtomValue(e.atoms[1], table)],
                       [i \in 1..Len(e.ops) |-> i])
  IN  read.sum + read.sign * read.product

-----------------------------------------------------------------------------
PreprocessorInit ==
  /\ opts \in {o \in Options : Validate(o)}
  /\ at = 0
  /\ last = [is |-> "nothing"]
  /\ inside = FALSE
  /\ open = 0
  /\ depth = 0
  /\ defined = <<>>
  /\ out = <<>>
  /\ linked = <<>>
  /\ settings = {}
  /\ reading = "reading"

Reads(line) ==
  /\ reading = "reading"
  /\ at < MaxLines
  /\ at' = at + 1
  /\ last' = line
  /\ UNCHANGED opts

Refuse ==
  /\ reading' = "refused"
  /\ UNCHANGED <<inside, open, depth, defined, out, linked, settings>>

\* A directive whose operand is not what it takes has none.
Operand(line) == line.name # ""

\* Resolve pulls the file in before anything else looks at the source, in a
\* branch that is not taken as in any other.  A file that does not exist is
\* named by "".
Include(line) ==
  /\ Reads(line) /\ line.is = "include"
  /\ IF Operand(line) /\ ~inside
     THEN inside' = TRUE /\ UNCHANGED <<open, depth, defined, out, linked, settings, reading>>
     ELSE Refuse

EndOfInclude(line) ==
  /\ Reads(line) /\ line.is = "back" /\ inside
  /\ inside' = FALSE
  /\ UNCHANGED <<open, depth, defined, out, linked, settings, reading>>

\* run: what is not the preprocessor's goes through.
Through(line) ==
  /\ Reads(line) /\ depth = 0 /\ line.is \notin Directives \cup Inclusion
  /\ out' = Append(out, line)
  /\ UNCHANGED <<inside, open, depth, defined, linked, settings, reading>>

Define(line) ==
  /\ Reads(line) /\ depth = 0 /\ line.is = "define"
  /\ IF /\ Operand(line)
        /\ \A i \in DOMAIN line.value.atoms : line.value.atoms[i].is # "null"
        /\ Evaluable(line.value, symbols)
        /\ line.name \notin DOMAIN symbols
     THEN /\ defined' = Over(Worth({line.name}, Evaluate(line.value, symbols)), defined)
          /\ UNCHANGED <<inside, open, depth, out, linked, settings, reading>>
     ELSE Refuse

ConditionHolds(line) == (line.is = "ifdef") = (line.name \in DOMAIN symbols)

If(line) ==
  /\ Reads(line) /\ depth = 0 /\ line.is \in Conditional
  /\ IF Operand(line)
     THEN /\ open' = open + 1
          /\ depth' = IF ConditionHolds(line) THEN 0 ELSE 1
          /\ UNCHANGED <<inside, defined, out, linked, settings, reading>>
     ELSE Refuse

\* Reaching #else means the branch above it was read.
Else(line) ==
  /\ Reads(line) /\ depth = 0 /\ line.is = "else"
  /\ IF open = 0 THEN Refuse
     ELSE depth' = 1 /\ UNCHANGED <<inside, open, defined, out, linked, settings, reading>>

Endif(line) ==
  /\ Reads(line) /\ depth = 0 /\ line.is = "endif"
  /\ IF open = 0 THEN Refuse
     ELSE open' = open - 1 /\ UNCHANGED <<inside, depth, defined, out, linked, settings, reading>>

Request(line) ==
  /\ Reads(line) /\ depth = 0
  /\ \/ /\ line.is \in External
        /\ IF Operand(line)
           THEN linked' = Append(linked, line)
                /\ UNCHANGED <<inside, open, depth, defined, out, settings, reading>>
           ELSE Refuse
     \/ /\ line.is \in Switch
        /\ settings' = settings \cup {line.is}
        /\ UNCHANGED <<inside, open, depth, defined, out, linked, reading>>
     \/ /\ line.is = "echo"
        /\ IF Operand(line)
           THEN UNCHANGED <<inside, open, depth, defined, out, linked, settings, reading>>
           ELSE Refuse

\* Mutant: what is nested in a dead branch is not counted.
SkipDead_Flat(line) ==
  /\ Reads(line) /\ depth > 0 /\ line.is \notin Inclusion
  /\ depth' = IF line.is \in {"endif", "else"} THEN 0 ELSE depth
  /\ open' = IF line.is = "endif" THEN open - 1 ELSE open
  /\ UNCHANGED <<inside, defined, out, linked, settings, reading>>

\* skipDead, one line of it.
SkipDead(line) ==
  /\ Reads(line) /\ depth > 0 /\ line.is \notin Inclusion
  /\ depth' = CASE line.is \in Conditional -> depth + 1
                [] line.is = "endif" -> depth - 1
                [] line.is = "else" /\ depth = 1 -> 0
                [] OTHER -> depth
  /\ open' = IF line.is = "endif" /\ depth = 1 THEN open - 1 ELSE open
  /\ UNCHANGED <<inside, defined, out, linked, settings, reading>>

\* The end of the source: no skipDead may be waiting for its #endif, and no
\* conditional may be open.
EndOfSource ==
  /\ reading = "reading"
  /\ ~inside
  /\ reading' = IF depth > 0 \/ open > 0 THEN "refused" ELSE "done"
  /\ UNCHANGED <<opts, at, last, inside, open, depth, defined, out, linked, settings>>

ReadLine(line) ==
  \/ Include(line) \/ EndOfInclude(line) \/ Through(line) \/ Define(line) \/ If(line)
  \/ Else(line) \/ Endif(line) \/ Request(line) \/ SkipDead(line)

PreprocessorNext == (\E line \in Lines : ReadLine(line)) \/ EndOfSource

PreprocessorSpec == PreprocessorInit /\ [][PreprocessorNext]_preprocessorVars

-----------------------------------------------------------------------------
\* How the counters stand for the stack: while a branch is skipped, the
\* innermost conditional that counts is the one being skipped, and those
\* counted since lie in the dead branch.
Nested(d) == IF d > 0 THEN d - 1 ELSE 0

StackFor(o, d) ==
  [i \in 1..(o + Nested(d)) |->
     IF i > o THEN "dead" ELSE IF i = o /\ d > 0 THEN "dropped" ELSE "taken"]

Noted == Range(linked) \cup {[is |-> s] : s \in settings}

C == INSTANCE Conditionals WITH
       given <- DOMAIN Predefined(opts),
       read <- at,
       line <- last,
       stack <- StackFor(open, depth),
       kept <- out,
       named <- DOMAIN defined,
       noted <- Noted,
       verdict <- reading

\* The lines that count are kept, the names they define defined and their
\* requests noted, and no others, whatever is nested in what (preproc.go: two
\* counters, open and skipDead's depth, do the work of a stack).
KeepsWhatCounts == C!Spec
=============================================================================
