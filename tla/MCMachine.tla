----------------------------- MODULE MCMachine -----------------------------
(***************************************************************************)
(* MachineHistory on small adventures, each written the way the tables of  *)
(* the documented adventures are: a main loop that asks, calls the tables  *)
(* that answer and goes round, "take all", a clock, a farewell.            *)
(***************************************************************************)
EXTENDS MachineHistory, TLC

\* Condacts, entries and processes.
K(op, a) == [op |-> op, a |-> a, indirect |-> FALSE]
Through(op, a) == [op |-> op, a |-> a, indirect |-> TRUE]
On(verb, noun, condacts) == [verb |-> verb, noun |-> noun, condacts |-> condacts]
Always(condacts) == On(NoWord, NoWord, condacts)

Thing(place, noun) == [initial |-> place, weight |-> 1, container |-> FALSE,
                       wearable |-> FALSE, noun |-> noun, adjective |-> NoWord]

Adventure(objects, processes) ==
    [objects |-> objects, processes |-> processes,
     conns |-> (0 :> <<[word |-> 2, to |-> 1]>> @@ 1 :> <<[word |-> 3, to |-> 0]>>)]

\* Words: TAKE (20), SAY (21), ALL (200), LAMP (60), BALL (61), NORTH (2).
W(kind, value) == [kind |-> kind, value |-> value]
Take == W("verb", 20)
Speak == W("verb", 21)
Everything == W("noun", 200)
Lamp == W("noun", 60)
Ball == W("noun", 61)
North == W("noun", 2)
Line(said, quoted, reply) == [said |-> said, quoted |-> quoted, reply |-> reply]

MCLines == {Line(<<Take, Everything>>, <<>>, "other"), Line(<<North>>, <<>>, "no"),
            Line(<<Speak>>, <<Take, Lamp>>, "yes"), Line(<<W("unknown", 0)>>, <<>>, "other"),
            Line(<<Take, Everything, W("preposition", 3), Lamp, W("adjective", NoWord)>>, <<>>, "other")}

NoObjects == [n \in {} |-> 0]
Three == (0 :> Thing(0, 60) @@ 1 :> Thing(1, 61) @@ 2 :> Thing(0, 62))

\* The loop every adventure writes: ask, answer or complain, and go round.
Classic == Adventure(Three,
  << << Always(<<K("ABILITY", <<9, 9>>), K("PARSE", <<0>>), K("MESSAGE", <<2>>), K("REDO", <<>>)>>),
        Always(<<K("PLUS", <<31, 0>>), K("PROCESS", <<1>>), K("ISDONE", <<>>), K("REDO", <<>>)>>),
        Always(<<K("MOVE", <<FlagPlayer>>), K("RESTART", <<>>)>>),
        Always(<<K("SYSMESS", <<8>>), K("ANYKEY", <<>>), K("REDO", <<>>)>>) >>,
     << On(20, 200, <<K("DOALL", <<LocHere>>), K("PROCESS", <<2>>), K("DONE", <<>>)>>),
        On(21, NoWord, <<K("PARSE", <<1>>), K("NOTDONE", <<>>)>>),
        On(20, NoWord, <<K("AUTOG", <<>>), K("OK", <<>>)>>) >>,
     << Always(<<K("AUTOG", <<>>)>>), Always(<<K("PROCESS", <<9>>), K("ISNDONE", <<>>)>>) >> >>)

\* "Take all" that runs off the end of its table, over two entries, in a room where
\* things come and go meanwhile; and one over a place with nothing in it.
Four == (0 :> Thing(0, 60) @@ 1 :> Thing(0, 61) @@ 2 :> Thing(1, 62) @@ 3 :> Thing(0, 63))

Sweep == Adventure(Four,
  << << Always(<<K("PARSE", <<0>>), K("END", <<>>)>>),
        On(20, NoWord, <<K("PROCESS", <<1>>), K("REDO", <<>>)>>),
        On(21, NoWord, <<K("PROCESS", <<2>>), K("REDO", <<>>)>>),
        Always(<<K("QUIT", <<>>), K("END", <<>>)>>), Always(<<K("REDO", <<>>)>>) >>,
     << Always(<<K("DOALL", <<0>>), K("EQ", <<FlagDoallObj, 0>>), K("PLACE", <<2, 0>>),
                 K("CHANCE", <<50>>), K("PLACE", <<1, 1>>)>>),
        Always(<<K("CHANCE", <<50>>), K("WHATO", <<>>), K("PUTO", <<LocCarried>>),
                 K("CHANCE", <<50>>), K("DONE", <<>>)>>),
        On(NoWord, 63, <<K("MESSAGE", <<4>>)>>) >>,
     << Always(<<K("DOALL", <<LocWorn>>), K("DONE", <<>>)>>) >> >>)

\* A clock: the wait is bounded, and a table answers when it ran out.
Clock == Adventure(0 :> Thing(LocCarried, 60),
  << << Always(<<K("TIME", <<5, 0>>), K("PARSE", <<0>>), K("HASAT", <<87>>), K("RESTART", <<>>)>>),
        On(20, NoWord, <<K("LET", <<FlagTimeFlags, 200>>), K("ISDONE", <<>>), K("EXIT", <<1>>)>>),
        On(21, NoWord, <<K("EXIT", <<0>>)>>),
        On(2, NoWord, <<K("TIME", <<0, 0>>), K("PARSE", <<>>), K("REDO", <<>>)>>),
        Always(<<K("RESTART", <<>>)>>) >> >>)

\* Jumps, both kinds of indirection, and a condact nothing implements.
Jumps == Adventure(NoObjects,
  << << Always(<<K("LET", <<100, 101>>), K("ZERO", <<101>>), K("SKIP", <<1>>)>>),
        Always(<<K("OK", <<>>)>>),
        Always(<<Through("LET", <<100, 7>>), K("INDIR", <<101>>), K("LET", <<102, 0>>),
                 K("GT", <<102, 6>>), K("SKIP", <<253>>)>>),
        Always(<<K("OK", <<>>)>>) >> >>)

\* A number written by hand where a label belongs: SKIP to before the first entry.
BadSkip == Adventure(NoObjects, << << Always(<<K("SKIP", <<254>>)>>) >> >>)
Unwritten == Adventure(NoObjects, << << Always(<<K("CHANCE", <<50>>), K("WEAR", <<0>>)>>) >> >>)

MCDatabases == {Classic, Sweep, Clock, Jumps, BadSkip, Unwritten}
MCFlagNo == SystemFlags \cup {31, 100, 101, 102}

\* A loop in a loop: everything in the room, and for each thing all that is worn.
Nested == Adventure(Four,
  << << Always(<<K("DOALL", <<0>>), K("PROCESS", <<1>>)>>) >>,
     << Always(<<K("DOALL", <<LocWorn>>), K("DONE", <<>>)>>) >> >>)

NestedDatabases == {Nested}
=============================================================================
