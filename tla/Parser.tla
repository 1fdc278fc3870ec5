------------------------------- MODULE Parser -------------------------------
(***************************************************************************)
(* What the parser promises the tables (internal/vm/parser.go, the comment *)
(* on top): a line becomes an order at once.  The order is the words that  *)
(* are not in quotes, filed by kind; the phrase in quotes is kept for      *)
(* PARSE 1; a noun worth a pronoun is remembered beyond its sentence.      *)
(* Sentence, which scans the line word by word, implements this.           *)
(***************************************************************************)
EXTENDS Words, FiniteSets

CONSTANTS Means,        \* what each typed word means to the adventure
          Typed         \* the lines a player types, sequences of words and quotes

VARIABLES order,        \* the seven flags of the sentence
          understood,   \* whether anything in it was known
          pronoun,      \* flags 46 and 47
          literal       \* the phrase kept for PARSE 1

promised == <<order, understood, pronoun, literal>>

Quote == "quote"

Meanings(words) == [i \in DOMAIN words |-> Means[words[i]]]

-----------------------------------------------------------------------------
\* A word is quoted when there is just one quote in front of it; the quotes of the
\* first pair belong neither to the phrase nor to the order.
QuotesBefore(line, i) == Cardinality({j \in 1..(i - 1) : line[j] = Quote})

\* The words at some of a line's positions, in their order: the k-th has k - 1 before it.
Taken(line, positions) ==
    [k \in 1..Cardinality(positions) |->
       line[CHOOSE i \in positions : Cardinality({j \in positions : j < i}) = k - 1]]

Phrase(line) ==
    Taken(line, {i \in DOMAIN line : QuotesBefore(line, i) = 1 /\ line[i] # Quote})

Said(line) ==
    Taken(line, {i \in DOMAIN line : \/ QuotesBefore(line, i) = 0 /\ line[i] # Quote
                                     \/ QuotesBefore(line, i) >= 2})

-----------------------------------------------------------------------------
Remembered(slots, p) ==
    IF Pronounable(slots.noun1) THEN [noun |-> slots.noun1, adjective |-> slots.adject1]
    ELSE p

Understand(words) ==
    /\ order' = WithVerb(Filed(Meanings(words)))
    /\ understood' = Understood(Meanings(words))
    /\ pronoun' = Remembered(order', pronoun)

\* A line is typed; PARSE 1 reads the phrase; a wait runs out with nothing typed.
Hear(line) == Understand(Said(line)) /\ literal' = Phrase(line)
Overhear == Understand(literal) /\ UNCHANGED literal
Expire == Understand(<<>>) /\ UNCHANGED literal

\* A new game sets every flag to nought; the phrase is not a flag.
Blank == [verb |-> 0, adverb |-> 0, noun1 |-> 0, noun2 |-> 0,
          adject1 |-> 0, adject2 |-> 0, prep |-> 0]
NobodyYet == [noun |-> 0, adjective |-> 0]

Forget == order' = Blank /\ pronoun' = NobodyYet /\ UNCHANGED <<understood, literal>>

Init == order = Blank /\ understood = FALSE /\ pronoun = NobodyYet /\ literal = <<>>

Next == Overhear \/ Expire \/ Forget \/ \E line \in Typed : Hear(line)

Spec == Init /\ [][Next]_promised
=============================================================================
