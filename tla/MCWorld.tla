------------------------------ MODULE MCWorld ------------------------------
(***************************************************************************)
(* World on small adventures, one for each kind of condact, so that each   *)
(* explores every order of its own condacts.  Object numbers and rooms     *)
(* share the numbers 0..3, as they share a byte in the format.             *)
(***************************************************************************)
EXTENDS World, TLC

Thing(place, weight, container, noun, adjective) ==
    [initial |-> place, weight |-> weight, container |-> container,
     wearable |-> FALSE, noun |-> noun, adjective |-> adjective]

C(op, args) == [op |-> op, a |-> args]
Each(ops, argss) == {C(op, args) : op \in ops, args \in argss}

MCFlagNo == SystemFlags \cup {100, 101}

Still == [n \in 0..3 |-> <<>>]

\* Hands: two lamps that share a noun, one of them worn, and a bag; picked up,
\* dropped and meant, under limits that bite.
Hands ==
    [objects |-> (0 :> Thing(1, 2, FALSE, 60, 70) @@ 1 :> Thing(LocWorn, 3, FALSE, 60, 71)
                  @@ 2 :> Thing(1, 4, TRUE, 60, NoWord)),
     conns |-> Still,
     condacts |->
        Each({"GET", "DROP"}, {<<2>>, <<9>>})
        \cup Each({"AUTOG", "AUTOD", "WHATO", "DROPALL", "RESET"}, {<<>>})
        \cup Each({"GOTO"}, {<<1>>, <<2>>}) \cup Each({"ABILITY"}, {<<2, 6>>})
        \cup Each({"LET"}, {<<FlagNoun1, 60>>, <<FlagAdject1, 71>>, <<FlagAdject1, NoWord>>})]

\* Nests: three containers, one of them weightless, put inside one another.
Nests ==
    [objects |-> (0 :> Thing(1, 200, TRUE, 60, 70) @@ 1 :> Thing(1, 0, TRUE, 61, 70)
                  @@ 2 :> Thing(1, 40, TRUE, 62, NoWord)),
     conns |-> Still,
     condacts |->
        Each({"PLACE"}, {<<o, p>> : o \in 0..2, p \in {0, 1, 2, LocHere}})
        \cup Each({"GET", "CREATE"}, {<<2>>}) \cup Each({"SWAP"}, {<<0, 2>>, <<2, 2>>, <<9, 1>>})
        \cup Each({"PUTO"}, {<<LocHere>>, <<LocCarried>>})
        \cup Each({"REMOVE"}, {<<0>>}) \cup Each({"DESTROY"}, {<<1>>})
        \cup Each({"ABILITY"}, {<<2, 240>>})]

\* Scales: what is weighed into a flag.
Scales ==
    [objects |-> (0 :> Thing(LocWorn, 200, TRUE, 60, 70) @@ 1 :> Thing(1, 100, TRUE, 61, 70)),
     conns |-> Still,
     condacts |->
        Each({"PLACE"}, {<<1, 0>>, <<1, LocCarried>>, <<0, LocHere>>, <<0, 0>>})
        \cup Each({"WEIGH"}, {<<0, 100>>, <<1, 100>>, <<9, 101>>}) \cup Each({"WEIGHT"}, {<<101>>})
        \cup Each({"SETCO"}, {<<0>>, <<9>>})
        \cup Each({"PRESENT", "ABSENT", "WORN", "NOTWORN", "CARRIED", "NOTCARR"}, {<<1>>, <<9>>})
        \cup Each({"ISAT", "ISNOTAT"}, {<<1, LocHere>>, <<1, 0>>})]

\* Sums: flag arithmetic, over a set of values that is closed.
Sums ==
    [objects |-> (0 :> Thing(1, 2, FALSE, 60, 70)),
     conns |-> Still,
     condacts |->
        Each({"SET", "CLEAR"}, {<<100>>}) \cup Each({"RANDOM"}, {<<101>>})
        \cup Each({"PLUS", "LET"}, {<<100, 200>>, <<101, 200>>})
        \cup Each({"MINUS"}, {<<100, 100>>})
        \cup Each({"ADD", "SUB", "COPYFF", "COPYBF"}, {<<101, 100>>})
        \cup Each({"CHANCE"}, {<<50>>})
        \cup Each({"ZERO", "NOTZERO"}, {<<100>>}) \cup Each({"EQ", "NOTEQ", "GT", "LT"}, {<<100, 200>>})
        \cup Each({"SAME", "NOTSAME", "BIGGER", "SMALLER"}, {<<100, 101>>})]

\* Walk: moving about, bits and the flags of the clock, and what shows on screen.
Walk ==
    [objects |-> (0 :> Thing(1, 2, FALSE, 60, 70)),
     conns |-> (0 :> <<[word |-> 0, to |-> 1]>> @@ 1 :> <<[word |-> 2, to |-> 0],
                [word |-> 0, to |-> 2], [word |-> 0, to |-> 3]>> @@ 2 :> <<>>),
     condacts |->
        Each({"MOVE"}, {<<FlagPlayer>>, <<100>>}) \cup Each({"GOTO"}, {<<1>>, <<LocHere>>})
        \cup Each({"AT", "NOTAT", "ATGT", "ATLT"}, {<<1>>})
        \cup Each({"ADJECT1", "ADVERB", "PREP", "NOUN2", "ADJECT2"}, {<<0>>})
        \cup Each({"SETAT"}, {<<87, how>> : how \in 0..2}) \cup Each({"HASAT", "HASNAT"}, {<<87>>})
        \cup Each({"INPUT"}, {<<3, 5>>, <<8, 5>>}) \cup Each({"TIME"}, {<<3, 2>>})
        \cup Each({"ISDONE", "ISNDONE", "MESSAGE", "LISTOBJ", "NEWLINE", "CLS"}, {<<>>})
        \cup Each({"LISTAT", "PICTURE", "CREATE"}, {<<0>>})]

MCDatabases == {Hands, Nests, Scales, Sums, Walk}
=============================================================================
