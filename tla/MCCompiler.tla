------------------------------ MODULE MCCompiler ------------------------------
(***************************************************************************)
(* Small sources for the compiler.  An author writes to one of a few       *)
(* plans, which say what each line may be; "echo" stands for a line left   *)
(* out.                                                                    *)
(***************************************************************************)
EXTENDS RoundTrip

CONSTANT Plans          \* the plans, each a sequence of sets of lines

Of(atom) == [atoms |-> <<atom>>, ops |-> <<>>]
Num(n) == Of([is |-> "number", num |-> n])
Name(s) == Of([is |-> "name", name |-> s])
Null == Of([is |-> "null"])

Section(s) == {[is |-> "section", section |-> s]}
Process(n) == [is |-> "section", section |-> "PRO", number |-> Num(n)]
Underscore == {[is |-> "null"]}
Word(name, n, kind) == [is |-> "word", name |-> name, value |-> Num(n), kind |-> kind]
Text(n, text) == [is |-> "text", num |-> n, text |-> text]
Place(n) == [is |-> "location", num |-> n]
Way(name, n) == [is |-> "exit", name |-> name, to |-> Num(n)]
Skipped == [is |-> "echo", name |-> "x"]
LabelLine(name) == [is |-> "label", name |-> name]
HeadLine(v, n) == [is |-> "head", verb |-> v, noun |-> n]
AnyWord == [is |-> "null"]
WordOf(name) == [is |-> "word", name |-> name]
CondactLine(op, args) == [is |-> "condact", op |-> op, args |-> args]
To(name) == [is |-> "label", name |-> name, indirect |-> FALSE]
Value(e) == [is |-> "value", value |-> e, indirect |-> FALSE]
At(e) == [is |-> "value", value |-> e, indirect |-> TRUE]
Written(text) == [is |-> "text", text |-> text, indirect |-> FALSE]
Ifdef(s) == [is |-> "ifdef", name |-> s]
Ifndef(s) == [is |-> "ifndef", name |-> s]
ElseLine == [is |-> "else"]
EndifLine == [is |-> "endif"]
DefineLine(s, e) == [is |-> "define", name |-> s, value |-> e]

\* The words, by their capitals; ACUTE is an accented A, and SLASH has a comma in
\* it, as an identifier may.
MCLetters ==
  [n \in {"N", "LONGEST", "LONGEX", "ACUTE", "SLASH"} |->
     CASE n = "N" -> <<78>>
       [] n = "LONGEST" -> <<76, 79, 78, 71, 69, 83, 84>>
       [] n = "LONGEX" -> <<76, 79, 78, 71, 69, 88>>
       [] n = "ACUTE" -> <<193>>
       [] n = "SLASH" -> <<78, 44>>]

SKIP == 116
MES == 77
DONE == 22
PAUSE == 35
LET_ == 51
MCCondacts ==
  SKIP :> [params |-> <<NoWord>>, terminal |-> TRUE, literal |-> "none", skip |-> TRUE]
  @@ MES :> [params |-> <<NoWord>>, terminal |-> FALSE, literal |-> "user", skip |-> FALSE]
  @@ PAUSE :> [params |-> <<NoWord>>, terminal |-> FALSE, literal |-> "none", skip |-> FALSE]
  @@ LET_ :> [params |-> <<NoWord, NoWord>>, terminal |-> FALSE, literal |-> "none", skip |-> FALSE]
  @@ DONE :> [params |-> <<>>, terminal |-> TRUE, literal |-> "none", skip |-> FALSE]

MCTokens == <<<<0>>, <<66, 66, 66>>, <<65, 66>>, <<67, 128>>>>

Option(machine, sub, bits) ==
  [machine |-> machine, sub |-> sub, bits |-> bits, version |-> 2, language |-> "english",
   extra |-> <<>>, year |-> 2024, month |-> 5, day |-> 6]
Spectrum == Option("ZX", "48K", 8)
APC == [Option("PC", "VGA256", 16) EXCEPT !.extra = <<"A", "", "B", "A">>]
MCOptions == {Spectrum, APC, Option("ST", "", 16)}

Bare == <<Section("CTL"), Underscore, Section("VOC"), Section("STX"), Section("MTX"), Section("OTX"),
          Section("LTX"), Section("CON"), Section("OBJ"), {Process(0)}>>

L == LabelLine("L")
H == HeadLine(AnyWord, AnyWord)
Jump == CondactLine(SKIP, <<To("L")>>)
Say == CondactLine(MES, <<Written(<<65>>)>>)
SayMore == CondactLine(MES, <<Written(<<66>>)>>)
Done == CondactLine(DONE, <<>>)

\* Entries and jumps over two processes, or over one in two parts.
JumpPlan ==
  Bare \o <<{L, H}, {H, Jump, Skipped}, {Jump, L, Say}, {L, H}, {H, Jump, L, Skipped},
            {Process(0), Process(1), H, Jump}, {L, H, Skipped}, {H, Skipped}, {Jump, L, SayMore}>>
       \o <<Section("END")>>

\* Conditionals in one another, and the same name defined and asked for.
ConditionLines ==
  {Ifdef("A"), Ifndef("A"), ElseLine, EndifLine, DefineLine("A", Num(1)), H}
ConditionPlan == Bare \o <<{H}>> \o [i \in 1..6 |-> ConditionLines] \o <<Section("END")>>

\* A little world, and the program that runs in it.
Abab == <<65, 66, 65, 66, 65, 66>>
Accented == <<225, 35, 110>>
Greek == <<937>>
Object(n, place, flags) ==
  [is |-> "object", num |-> n, place |-> place, weight |-> Num(63), container |-> TRUE,
   wearable |-> FALSE, flags |-> flags, noun |-> [is |-> "null"], adjective |-> [is |-> "null"]]
Pause(n) == CondactLine(PAUSE, <<Value(Num(n))>>)
Set(arg) == CondactLine(LET_, <<arg, Value(Num(7))>>)

WorldPlan ==
  <<Section("CTL"), Underscore, Section("VOC"),
    {Word("N", 2, Verb)}, {Word("ACUTE", 9, Noun), Word("LONGEST", 2, Verb), Skipped},
    Section("STX"), {Text(0, Abab), Text(0, Greek)},
    Section("MTX"), {Text(0, Accented)},
    Section("OTX"), {Text(0, <<67, 67>>)}, {Text(1, Accented), Skipped},
    Section("LTX"), {Text(0, <<65, 66, 67>>), Text(0, <<65>>)},
    Section("CON"), {Place(0)}, {Way("N", 0), Skipped},
    Section("OBJ"), {Object(0, Null, {1, 16})}, {Object(1, Num(254), {2}), Skipped},
    {Process(1)}, {H}, {Pause(200), Set(At(Num(3)))}, {Done, Skipped}, {H}, {Set(Value(Num(3))), Skipped}, {Done},
    Section("END")>>

\* The same of one process, with nothing left to chance.
OnePlan ==
  <<Section("CTL"), Underscore, Section("VOC"), {Word("N", 2, Verb)},
    Section("STX"), {Text(0, Abab)}, Section("MTX"), {Text(0, Accented)}, Section("OTX"), {Text(0, <<67, 67>>)},
    Section("LTX"), {Text(0, <<65>>)}, Section("CON"), {Place(0)}, {Way("N", 0), Skipped},
    Section("OBJ"), {Object(0, Null, {1, 16})}, {Process(0)}, {H}, {Pause(200), Skipped}, {Done},
    Section("END")>>

\* Directives, sums, and what goes wrong.
Sum(ops) == [atoms |-> [i \in 1..(Len(ops) + 1) |->
                          IF i = 1 THEN [is |-> "name", name |-> "LAST_OBJECT"] ELSE [is |-> "number", num |-> i]],
             ops |-> ops]
NewWord(e) == [is |-> "word", name |-> "N", value |-> e, kind |-> Verb]
Include_(name) == [is |-> "include", name |-> name]
Back == [is |-> "back"]
Extern == [is |-> "extern", name |-> "F"]
Debug == [is |-> "debug"]
Nothing == [is |-> "extern", name |-> ""]

DirectivePlan ==
  <<{Include_("F"), Include_("")}, {Extern, Nothing}, {Back, Include_("F")}, {Debug, Ifdef(""), ElseLine},
    {DefineLine("A", Num(7)), DefineLine("HERE", Num(7)), DefineLine("A", Null)},
    {DefineLine("B", [atoms |-> <<[is |-> "name", name |-> "A"]>> \o [i \in 1..2 |-> [is |-> "number", num |-> 2]],
                      ops |-> ops]) : ops \in {<<"-", "*">>, <<"/", "+">>, <<"%", "-">>}}
      \cup {DefineLine("B", Name("C")), [is |-> "echo", name |-> ""], EndifLine}>>
  \o <<Section("CTL"), {[is |-> "null"], Word("N", 1, Verb), [is |-> "section", section |-> "VOC"]}, Section("VOC"),
       {NewWord(Name("B")), NewWord(Num(256))}>>
  \o [i \in 1..6 |-> Section(<<"STX", "MTX", "OTX", "LTX", "CON", "OBJ">>[i])]
  \o <<{Process(0), Process(255), Text(0, Abab), [is |-> "section", section |-> "MTX"]},
       {[is |-> "word", name |-> "N"], LabelLine("L"), Done, Text(0, Abab)},
       {LabelLine("L"), [is |-> "head", verb |-> WordOf("N"), noun |-> WordOf("N")], H},
       {CondactLine(SKIP, <<Value(Num(200))>>), CondactLine(0, <<>>), Done, Skipped}, Section("END")>>

\* Entries that are missing, or come twice, or lead nowhere.
WrongPlan ==
  <<Section("CTL"), Underscore, Section("VOC"), {Word("N", 2, Verb)}, Section("STX"), {Text(1, Abab), Skipped},
    Section("MTX"), {Text(0, Abab), Skipped}, {Text(1, Abab), Skipped}, {Text(2, Abab), Skipped},
    Section("OTX"), {Text(0, Abab), Skipped}, Section("LTX"), {Text(0, Abab)}, Section("CON"),
    {Place(0), Way("N", 0)}, {Way("N", 0), Way("SLASH", 0), Place(1)}, {Way("N", 0), Skipped},
    Section("OBJ"), {Object(0, Num(9), {}), Object(0, Num(253), {}), Skipped}, Section("END")>>

MCPlans == {DirectivePlan, WrongPlan, JumpPlan, ConditionPlan, WorldPlan, OnePlan}
LinkedPlans == {WorldPlan, OnePlan}
JustOnePlan == {OnePlan}

VARIABLE plan
mcVars == <<vars, plan>>

MCLines == UNION {UNION Range(p) : p \in MCPlans}

MCInit ==
  /\ Init /\ plan \in Plans
  /\ plan \notin LinkedPlans => opts = Spectrum
MCNext ==
  /\ UNCHANGED plan
  /\ \/ /\ at < Len(plan)
        /\ \E l \in plan[at + 1] : ReadLine(l)
        /\ UNCHANGED <<sectionVars, processVars, linkerVars>>
     \/ /\ at = Len(plan)
        /\ EndOfSource
        /\ UNCHANGED <<sectionVars, processVars, linkerVars>>
     \/ ParserNext /\ UNCHANGED <<preprocessorVars, linkerVars>>
     \/ /\ plan \in LinkedPlans
        /\ LinkerNext /\ UNCHANGED <<preprocessorVars, sectionVars, processVars>>
MCSpec == MCInit /\ [][MCNext]_mcVars
=============================================================================
