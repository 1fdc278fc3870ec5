------------------------------ MODULE Sentence ------------------------------
(***************************************************************************)
(* The parser's scan (internal/vm/parser.go: sentence, words, place,       *)
(* remember, splitQuoted), one word a step, and what lasts from one        *)
(* sentence to the next: the pronoun and the phrase in quotes.             *)
(* A quote is taken to stand apart from the words round it.                *)
(***************************************************************************)
EXTENDS Words, FiniteSets

CONSTANTS Vocabulary,   \* Machine.vocab: the entries in order
          Spelling,     \* each typed word as lookup compares it: its first five letters
          Typed         \* the lines a player types, sequences of words and quotes

ASSUME SentenceAssumption ==
    /\ Vocabulary \in Seq([word : STRING, kind : Kinds \ {"unknown"}, value : Byte])
    /\ Typed \subseteq Seq(DOMAIN Spelling)

VARIABLES slots,        \* the seven sentence flags
          found,        \* words' local: something was known
          pronoun,      \* FlagCPNoun and FlagCPAdject
          literal,      \* Machine.literal
          line,         \* the words being read
          at,           \* the next of them
          scanning,     \* whether words is at work
          was           \* history: what the scan under way found before it

vars == <<slots, found, pronoun, literal, line, at, scanning, was>>

Pronouns == [noun : Byte, adjective : Byte]

Means == [word \in DOMAIN Spelling |-> Meaning(Vocabulary, Spelling[word])]
Meant == [i \in DOMAIN line |-> Means[line[i]]]

-----------------------------------------------------------------------------
\* splitQuoted: the phrase from the first quote to the next, or to the line's end.
Quote == "quote"
Quotes(l) == {i \in DOMAIN l : l[i] = Quote}

\* Mutant: a phrase without its closing quote is no phrase.
SplitQuoted_Strict(l) ==
    LET open == First(Quotes(l))
        close == First(Quotes(l) \ {open})
    IN  IF Cardinality(Quotes(l)) < 2 THEN [rest |-> l, quoted |-> <<>>]
        ELSE [rest |-> SubSeq(l, 1, open - 1) \o SubSeq(l, close + 1, Len(l)),
              quoted |-> SubSeq(l, open + 1, close - 1)]

SplitQuoted(l) ==
    LET open == First(Quotes(l))
        close == First(Quotes(l) \ {open})
    IN  IF Quotes(l) = {} THEN [rest |-> l, quoted |-> <<>>]
        ELSE IF Quotes(l) = {open}
             THEN [rest |-> SubSeq(l, 1, open - 1), quoted |-> SubSeq(l, open + 1, Len(l))]
        ELSE [rest |-> SubSeq(l, 1, open - 1) \o SubSeq(l, close + 1, Len(l)),
              quoted |-> SubSeq(l, open + 1, close - 1)]

-----------------------------------------------------------------------------
\* words: empty the sentence and start on the words given.
Scan(words) ==
    /\ slots' = Filed(<<>>)
    /\ found' = FALSE
    /\ line' = words /\ at' = 1 /\ scanning' = TRUE
    /\ was' = [order |-> slots, understood |-> found, literal |-> literal]
    /\ UNCHANGED pronoun

\* PARSE 0 with a line, PARSE 1, and PARSE 0 when the clock ran out.
Hear == /\ ~scanning
        /\ \E l \in Typed : Scan(SplitQuoted(l).rest) /\ literal' = SplitQuoted(l).quoted

Overhear == ~scanning /\ Scan(literal) /\ UNCHANGED literal

Expire == ~scanning /\ Scan(<<>>) /\ UNCHANGED literal

\* The slots of each kind of word, in the order they are filled.
SlotsOf == [verb |-> <<"verb">>, adverb |-> <<"adverb">>, noun |-> <<"noun1", "noun2">>,
            adjective |-> <<"adject1", "adject2">>, preposition |-> <<"prep">>]

\* Mutant: the last word of a kind is the one that stays.
Placed_LastWins(s, w) ==
    IF w.kind \in DOMAIN SlotsOf
    THEN [s EXCEPT ![SlotsOf[w.kind][1]] = w.value] ELSE s

\* place: the first slot of the word's kind that is still empty.
Placed(s, w) ==
    LET names == SlotsOf[w.kind]
        empty == {i \in DOMAIN names : s[names[i]] = NoWord}
    IN  IF w.kind \in DOMAIN SlotsOf /\ empty # {}
        THEN [s EXCEPT ![names[First(empty)]] = w.value] ELSE s

\* Mutant: the scan goes two words at a time.
ReadWord_Skips ==
    /\ scanning /\ at <= Len(line)
    /\ at' = at + 2
    /\ slots' = Placed(slots, Meant[at])
    /\ found' = (found \/ Meant[at].kind # "unknown")
    /\ UNCHANGED <<pronoun, literal, line, scanning, was>>

\* Mutant: a word nobody knows is looked at for ever.
ReadWord_Stuck ==
    /\ scanning /\ at <= Len(line)
    /\ at' = IF Meant[at].kind = "unknown" THEN at ELSE at + 1
    /\ slots' = Placed(slots, Meant[at])
    /\ found' = (found \/ Meant[at].kind # "unknown")
    /\ UNCHANGED <<pronoun, literal, line, scanning, was>>

\* The body of words' loop.
ReadWord ==
    /\ scanning /\ at <= Len(line)
    /\ at' = at + 1
    /\ slots' = Placed(slots, Meant[at])
    /\ found' = (found \/ Meant[at].kind # "unknown")
    /\ UNCHANGED <<pronoun, literal, line, scanning, was>>

\* remember.
Remembered(s, p) ==
    IF Pronounable(s.noun1) THEN [noun |-> s.noun1, adjective |-> s.adject1] ELSE p

\* What follows the loop.
EndScan ==
    /\ scanning /\ at > Len(line)
    /\ slots' = WithVerb(slots)
    /\ pronoun' = Remembered(slots', pronoun)
    /\ scanning' = FALSE
    /\ UNCHANGED <<found, literal, line, at, was>>

\* A new game clears every flag and not the phrase (reset).
Blank == [name \in DOMAIN Filed(<<>>) |-> 0]

Forget ==
    /\ ~scanning
    /\ slots' = Blank
    /\ pronoun' = [noun |-> 0, adjective |-> 0]
    /\ UNCHANGED <<found, literal, line, at, scanning, was>>

Init ==
    /\ slots = Blank /\ found = FALSE
    /\ pronoun = [noun |-> 0, adjective |-> 0] /\ literal = <<>>
    /\ line = <<>> /\ at = 1 /\ scanning = FALSE
    /\ was = [order |-> Blank, understood |-> FALSE, literal |-> <<>>]

Next == Hear \/ Overhear \/ Expire \/ ReadWord \/ EndScan \/ Forget

\* A scan that has begun goes on: words waits for nobody.
Spec == Init /\ [][Next]_vars /\ WF_vars(ReadWord \/ EndScan)

-----------------------------------------------------------------------------
\* The slots and the pronoun are bytes, and the scan is somewhere in its line.
SentenceTypeOK ==
    /\ slots \in Slots
    /\ found \in BOOLEAN /\ scanning \in BOOLEAN
    /\ pronoun \in Pronouns
    /\ at \in 1..(Len(line) + 1)
    /\ \A i \in DOMAIN line : line[i] \in DOMAIN Spelling
    /\ \A i \in DOMAIN literal : literal[i] \in DOMAIN Spelling

\* At every word of the scan the slots hold what the words read so far mean: the
\* first of each kind, and the second noun and adjective (words, place).
ScanIsFiled ==
    scanning => /\ slots = Filed(SubSeq(Meant, 1, at - 1))
                /\ found = Understood(SubSeq(Meant, 1, at - 1))

\* What the parser has done so far: nothing, until words returns.
Promise == INSTANCE Parser WITH
    order <- IF scanning THEN was.order ELSE slots,
    understood <- IF scanning THEN was.understood ELSE found,
    literal <- IF scanning THEN was.literal ELSE literal

\* The scan does what the parser promises: the order is the words outside the
\* first pair of quotes, each in the slot of its kind, whatever the words in
\* between; the phrase is the words inside, kept until the next line; and the noun
\* a pronoun stands for is that of the last sentence that named a thing
\* (parser.go:6).
ImplementsParser == Promise!Spec

\* No sentence is left half read, whatever words are in it (words).
ScansEnd == scanning ~> ~scanning
=============================================================================
