----------------------------- MODULE MCSentence -----------------------------
(***************************************************************************)
(* Sentence with a vocabulary that has what makes filing hard: several     *)
(* nouns and a low one, two adjectives, one with the value that leaves its *)
(* slot empty, a word entered twice, two typed words of one spelling, a    *)
(* conjunction, and words it does not hold.                                *)
(***************************************************************************)
EXTENDS Sentence, TLC

Entry(word, kind, value) == [word |-> word, kind |-> kind, value |-> value]

MCVocabulary ==
    << Entry("TAKE", "verb", 20), Entry("LIGHT", "verb", 21), Entry("LIGHT", "noun", 62),
       Entry("NORTH", "noun", 2), Entry("LAMP", "noun", 60), Entry("CHAIN", "noun", 61),
       Entry("RED", "adjective", 3), Entry("WILD", "adjective", NoWord),
       Entry("SLOWL", "adverb", 4), Entry("WITH", "preposition", 5), Entry("AND", "other", 2) >>

\* "chainmail" is cut to what "chain" is; a lone quote and "xyzzy" are no words.
MCSpelling ==
    [take |-> "TAKE", light |-> "LIGHT", north |-> "NORTH", lamp |-> "LAMP",
     chain |-> "CHAIN", chainmail |-> "CHAIN", red |-> "RED", wild |-> "WILD",
     slowly |-> "SLOWL", with |-> "WITH", and |-> "AND", xyzzy |-> "XYZZY", quote |-> "(quote)"]

Short == {"take", "north", "lamp", "red", "xyzzy", Quote}

MCTyped ==
    {<<>>} \cup {<<v>> : v \in Short} \cup {<<v, w>> : v, w \in Short}
    \cup { <<"take", "red", "lamp", "with", "wild", "chain">>,
           <<"take", "lamp", "and", "chainmail", "and", "light">>,
           <<"wild", "red", "chain", "lamp", "slowly", "red">>,
           <<"light", Quote, "take", "lamp", Quote, "chain">>,
           <<"take", Quote, "north", "lamp">>,
           <<Quote, "red", Quote, Quote, "lamp", Quote>> }
=============================================================================
