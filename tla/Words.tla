------------------------------- MODULE Words -------------------------------
(***************************************************************************)
(* What a line of words means to the parser (internal/vm/parser.go), said  *)
(* without the scan: the first verb, the first two nouns, and so on.       *)
(* Sentence shows that the code's scan of the line, word by word, arrives  *)
(* at this; ProcessMachine uses it for what PARSE leaves in the flags.     *)
(* A word is what lookup makes of it: its kind in the vocabulary, and its  *)
(* value; a word the vocabulary does not hold has the kind "unknown".      *)
(***************************************************************************)
EXTENDS Integers, Sequences

Byte == 0..255
NoWord == 255

\* "other": a conjunction or a pronoun, known to the vocabulary and filed nowhere.
Kinds == {"verb", "noun", "adjective", "adverb", "preposition", "other", "unknown"}

Word == [kind : Kinds, value : Byte]

\* The word at least in the line of those of a set of positions.
First(S) == CHOOSE i \in S : \A j \in S : i <= j

\* The words of a kind that fill a slot.  One whose value is 255 leaves its slot
\* looking empty, so that the next of its kind takes it (place).
OfKind(words, kind) ==
    {i \in DOMAIN words : words[i].kind = kind /\ words[i].value # NoWord}

FirstOf(words, kind) ==
    LET all == OfKind(words, kind)
    IN  IF all = {} THEN NoWord ELSE words[First(all)].value

SecondOf(words, kind) ==
    LET all == OfKind(words, kind)
        rest == all \ {First(all)}
    IN  IF all = {} \/ rest = {} THEN NoWord ELSE words[First(rest)].value

Filed(words) ==
    [verb |-> FirstOf(words, "verb"), adverb |-> FirstOf(words, "adverb"),
     noun1 |-> FirstOf(words, "noun"), noun2 |-> SecondOf(words, "noun"),
     adject1 |-> FirstOf(words, "adjective"), adject2 |-> SecondOf(words, "adjective"),
     prep |-> FirstOf(words, "preposition")]

Slots == [verb : Byte, adverb : Byte, noun1 : Byte, noun2 : Byte,
          adject1 : Byte, adject2 : Byte, prep : Byte]

\* words reports whether anything at all in the line was known to it.
Understood(words) == \E i \in DOMAIN words : words[i].kind # "unknown"

\* A noun below twenty stands in for a missing verb.
FirstRealVerb == 20

WithVerb(slots) ==
    IF slots.verb = NoWord /\ slots.noun1 < FirstRealVerb
    THEN [slots EXCEPT !.verb = slots.noun1]
    ELSE slots

\* What a vocabulary, a sequence of [word, kind, value], makes of a word: its first
\* entry of that spelling, if there is one (lookup).
Meaning(vocabulary, word) ==
    LET entries == {i \in DOMAIN vocabulary : vocabulary[i].word = word}
        found == vocabulary[First(entries)]
    IN  IF entries = {} THEN [kind |-> "unknown", value |-> 0]
        ELSE [kind |-> found.kind, value |-> found.value]

\* A noun from fifty on is one that a later pronoun can stand for (remember).
FirstPronounable == 50
Pronounable(noun) == noun # NoWord /\ noun >= FirstPronounable
=============================================================================
