---------------------------- MODULE SentenceProofs ----------------------------
(***************************************************************************)
(* The parser's scan files a line as the line is meant, whatever the       *)
(* vocabulary and whatever is typed: filling the first empty slot, word by *)
(* word, comes to the first and the second word of each kind.              *)
(***************************************************************************)
EXTENDS Sentence, SequenceTheorems, FiniteSetTheorems, WellFoundedInduction, TLAPS

-----------------------------------------------------------------------------
\* The least of a set of positions.
LEMMA FirstIsLeast ==
  ASSUME NEW S \in SUBSET Nat, S # {}
  PROVE  First(S) \in S /\ \A j \in S : First(S) <= j
<1> DEFINE Below == OpToRel(<, Nat)
<1>1. PICK least \in S : \A j \in S : <<j, least>> \notin Below
  <2> HIDE DEF Below
  <2>1. IsWellFoundedOn(Below, Nat)
    BY NatLessThanWellFounded DEF Below
  <2> QED
    BY <2>1, WFMin
<1>2. \A j \in S : least <= j
  <2> TAKE j \in S
  <2>1. j \in Nat /\ least \in Nat /\ ~(j < least)
    BY <1>1 DEF OpToRel
  <2> QED
    BY <2>1
<1> QED
  BY <1>2 DEF First

LEMMA LeastIsFirst ==
  ASSUME NEW S \in SUBSET Nat, NEW i \in S, \A j \in S : i <= j
  PROVE  First(S) = i
<1>1. First(S) \in S /\ First(S) <= i /\ i <= First(S)
  BY FirstIsLeast
<1>2. First(S) \in Nat /\ i \in Nat
  BY <1>1
<1> QED
  BY <1>1, <1>2

\* One position more, past all the others.
LEMMA OnePositionMore ==
  ASSUME NEW n \in Nat, NEW S \in SUBSET (1..n)
  PROVE  /\ S = {} => First(S \cup {n + 1}) = n + 1
         /\ S # {} => First(S) \in S /\ First(S \cup {n + 1}) = First(S)
<1>1. S \cup {n + 1} \in SUBSET Nat /\ S \in SUBSET Nat
  OBVIOUS
<1>2. CASE S = {}
  BY <1>1, <1>2, LeastIsFirst
<1>3. CASE S # {}
  <2>1. First(S) \in S /\ \A j \in S : First(S) <= j
    BY <1>1, <1>3, FirstIsLeast
  <2>2. \A j \in S \cup {n + 1} : First(S) <= j
    <3>1. First(S) \in 1..n
      BY <2>1
    <3> QED
      BY <2>1, <3>1
  <2> QED
    BY <1>1, <1>3, <2>1, <2>2, LeastIsFirst
<1> QED
  BY <1>2, <1>3

-----------------------------------------------------------------------------
\* One word more.
LEMMA WordsOfKind ==
  ASSUME NEW words \in Seq(Word), NEW w \in Word, NEW kind
  PROVE  /\ Len(words) \in Nat
         /\ OfKind(words, kind) \in SUBSET (1..Len(words))
         /\ w.kind = kind /\ w.value # NoWord =>
              OfKind(Append(words, w), kind) = OfKind(words, kind) \cup {Len(words) + 1}
         /\ ~(w.kind = kind /\ w.value # NoWord) =>
              OfKind(Append(words, w), kind) = OfKind(words, kind)
         /\ \A i \in OfKind(words, kind) : /\ Append(words, w)[i] = words[i]
                                           /\ words[i].value # NoWord
         /\ Append(words, w)[Len(words) + 1] = w
<1> DEFINE more == Append(words, w)
<1>1. /\ Len(words) \in Nat /\ DOMAIN words = 1..Len(words)
      /\ DOMAIN more = 1..(Len(words) + 1) /\ more[Len(words) + 1] = w
      /\ \A i \in 1..Len(words) : more[i] = words[i]
  OBVIOUS
<1> HIDE DEF more
<1>2. OfKind(words, kind) \in SUBSET (1..Len(words))
  BY <1>1 DEF OfKind
<1>3. w.kind = kind /\ w.value # NoWord => OfKind(more, kind) = OfKind(words, kind) \cup {Len(words) + 1}
  BY <1>1 DEF OfKind
<1>4. ~(w.kind = kind /\ w.value # NoWord) => OfKind(more, kind) = OfKind(words, kind)
  BY <1>1 DEF OfKind
<1>5. \A i \in OfKind(words, kind) : more[i] = words[i] /\ words[i].value # NoWord
  BY <1>1 DEF OfKind
<1> QED
  BY <1>1, <1>2, <1>3, <1>4, <1>5 DEF more

LEMMA FirstOfMore ==
  ASSUME NEW words \in Seq(Word), NEW w \in Word, NEW kind
  PROVE  FirstOf(Append(words, w), kind) =
           IF w.kind = kind /\ FirstOf(words, kind) = NoWord THEN w.value ELSE FirstOf(words, kind)
<1> DEFINE S == OfKind(words, kind)
           more == Append(words, w)
           n == Len(words)
<1>1. /\ n \in Nat /\ S \in SUBSET (1..n)
      /\ w.kind = kind /\ w.value # NoWord => OfKind(more, kind) = S \cup {n + 1}
      /\ ~(w.kind = kind /\ w.value # NoWord) => OfKind(more, kind) = S
      /\ \A i \in S : more[i] = words[i] /\ words[i].value # NoWord
      /\ more[n + 1] = w
  BY WordsOfKind
<1>2. /\ S = {} => First(S \cup {n + 1}) = n + 1
      /\ S # {} => First(S) \in S /\ First(S \cup {n + 1}) = First(S)
  BY <1>1, OnePositionMore
<1>3. /\ FirstOf(words, kind) = IF S = {} THEN NoWord ELSE words[First(S)].value
      /\ FirstOf(more, kind) =
           IF OfKind(more, kind) = {} THEN NoWord ELSE more[First(OfKind(more, kind))].value
  BY DEF FirstOf
<1> HIDE DEF S, more, n
<1> QED
  BY <1>1, <1>2, <1>3 DEF more

LEMMA SecondOfMore ==
  ASSUME NEW words \in Seq(Word), NEW w \in Word, NEW kind
  PROVE  SecondOf(Append(words, w), kind) =
           IF /\ w.kind = kind
              /\ FirstOf(words, kind) # NoWord /\ SecondOf(words, kind) = NoWord
           THEN w.value ELSE SecondOf(words, kind)
<1> DEFINE S == OfKind(words, kind)
           R == S \ {First(S)}
           more == Append(words, w)
           T == OfKind(more, kind)
           n == Len(words)
<1>1. /\ n \in Nat /\ S \in SUBSET (1..n)
      /\ w.kind = kind /\ w.value # NoWord => T = S \cup {n + 1}
      /\ ~(w.kind = kind /\ w.value # NoWord) => T = S
      /\ \A i \in S : more[i] = words[i] /\ words[i].value # NoWord
      /\ more[n + 1] = w
  BY WordsOfKind
<1>2. /\ S = {} => First(S \cup {n + 1}) = n + 1
      /\ S # {} => First(S) \in S /\ First(S \cup {n + 1}) = First(S)
  BY <1>1, OnePositionMore
<1>3. /\ R = {} => First(R \cup {n + 1}) = n + 1
      /\ R # {} => First(R) \in R /\ First(R \cup {n + 1}) = First(R)
  BY <1>1, OnePositionMore
<1>4. /\ FirstOf(words, kind) = IF S = {} THEN NoWord ELSE words[First(S)].value
      /\ SecondOf(words, kind) = IF S = {} \/ R = {} THEN NoWord ELSE words[First(R)].value
      /\ SecondOf(more, kind) =
           IF T = {} \/ T \ {First(T)} = {} THEN NoWord ELSE more[First(T \ {First(T)})].value
  BY DEF FirstOf, SecondOf
<1>5. CASE ~(w.kind = kind /\ w.value # NoWord)
  <2>1. T = S
    BY <1>1, <1>5
  <2>2. SecondOf(more, kind) = SecondOf(words, kind)
    <3>1. T \ {First(T)} = R
      BY <2>1
    <3>2. R # {} => First(R) \in S
      BY <1>3
    <3>3. SecondOf(more, kind) = IF S = {} \/ R = {} THEN NoWord ELSE more[First(R)].value
      BY <2>1, <3>1, <1>4
    <3>4. R # {} => more[First(R)] = words[First(R)]
      BY <3>2, <1>1
    <3> HIDE DEF S, R, T, more, n
    <3> QED
      BY <3>3, <3>4, <1>4
  <2> QED
    BY <1>5, <2>2
<1>6. CASE w.kind = kind /\ w.value # NoWord
  <2>1. T = S \cup {n + 1} /\ n + 1 \notin S
    BY <1>1, <1>6
  <2>2. CASE S = {}
    <3>1. T \ {First(T)} = {}
      BY <2>1, <2>2, <1>2
    <3> QED
      BY <3>1, <2>2, <1>4
  <2>3. CASE S # {}
    <3>1. First(T) = First(S) /\ First(S) \in S
      BY <2>1, <2>3, <1>2
    <3>2. T \ {First(T)} = R \cup {n + 1}
      BY <2>1, <3>1
    <3>3. FirstOf(words, kind) # NoWord
      BY <2>3, <1>1, <1>4, <3>1
    <3>4. SecondOf(more, kind) = more[First(R \cup {n + 1})].value
      BY <1>4, <2>1, <3>2
    <3>5. CASE R = {}
      BY <3>3, <3>4, <3>5, <1>1, <1>3, <1>4, <1>6
    <3>6. CASE R # {}
      <4>1. First(R) \in S /\ First(R \cup {n + 1}) = First(R)
        BY <3>6, <1>3
      <4>2. SecondOf(words, kind) = words[First(R)].value /\ words[First(R)].value # NoWord
        BY <4>1, <3>6, <2>3, <1>1, <1>4
      <4> QED
        BY <4>1, <4>2, <3>4, <1>1
    <3> QED
      BY <3>5, <3>6
  <2> QED
    BY <2>2, <2>3
<1> QED
  BY <1>5, <1>6

-----------------------------------------------------------------------------
\* Filing.
LEMMA SlotValues ==
  ASSUME NEW words \in Seq(Word), NEW kind
  PROVE  /\ FirstOf(words, kind) \in Byte /\ SecondOf(words, kind) \in Byte
         /\ FirstOf(words, kind) = NoWord => SecondOf(words, kind) = NoWord
<1> DEFINE S == OfKind(words, kind)
           R == S \ {First(S)}
<1>1. Len(words) \in Nat /\ DOMAIN words = 1..Len(words) /\ NoWord \in Byte
  BY DEF NoWord, Byte
<1>2. \A i \in DOMAIN words : words[i].value \in Byte
  <2>1. \A i \in DOMAIN words : words[i] \in Word
    OBVIOUS
  <2> QED
    BY <2>1 DEF Word
<1>3. S \in SUBSET (1..Len(words)) /\ \A i \in S : words[i].value # NoWord
  BY <1>1 DEF OfKind
<1>4. /\ S # {} => First(S) \in S
      /\ R # {} => First(R) \in R
  <2>1. S \in SUBSET Nat /\ R \in SUBSET Nat
    BY <1>3
  <2> QED
    BY <2>1, FirstIsLeast
<1>5. /\ FirstOf(words, kind) = IF S = {} THEN NoWord ELSE words[First(S)].value
      /\ SecondOf(words, kind) = IF S = {} \/ R = {} THEN NoWord ELSE words[First(R)].value
  BY DEF FirstOf, SecondOf
<1>6. R \subseteq S
  OBVIOUS
<1> HIDE DEF S, R
<1> QED
  BY <1>1, <1>2, <1>3, <1>4, <1>5, <1>6

LEMMA FiledIsSlots ==
  ASSUME NEW words \in Seq(Word)
  PROVE  Filed(words) \in Slots
BY SlotValues DEF Filed, Slots

\* The first empty of one slot and of two.
LEMMA FirstEmpty ==
  /\ First({1}) = 1 /\ First({2}) = 2 /\ First({1, 2}) = 1
<1>1. \A i \in {1} : 1 <= i
  OBVIOUS
<1>2. \A i \in {2} : 2 <= i
  OBVIOUS
<1>3. \A i \in {1, 2} : 1 <= i
  OBVIOUS
<1>4. {1} \in SUBSET Nat /\ {2} \in SUBSET Nat /\ {1, 2} \in SUBSET Nat
  OBVIOUS
<1> QED
  BY <1>1, <1>2, <1>3, <1>4, LeastIsFirst

LEMMA PlacedInOne ==
  ASSUME NEW s \in Slots, NEW w \in Word, NEW name \in DOMAIN s,
         w.kind \in DOMAIN SlotsOf, SlotsOf[w.kind] = <<name>>
  PROVE  Placed(s, w) = IF s[name] = NoWord THEN [s EXCEPT ![name] = w.value] ELSE s
<1> DEFINE empty == {i \in DOMAIN SlotsOf[w.kind] : s[SlotsOf[w.kind][i]] = NoWord}
<1>1. empty = IF s[name] = NoWord THEN {1} ELSE {}
  OBVIOUS
<1>2. Placed(s, w) = IF empty # {} THEN [s EXCEPT ![SlotsOf[w.kind][First(empty)]] = w.value] ELSE s
  BY DEF Placed
<1>3. SlotsOf[w.kind][1] = name
  OBVIOUS
<1> HIDE DEF empty
<1>4. CASE s[name] = NoWord
  BY <1>1, <1>2, <1>3, <1>4, FirstEmpty
<1>5. CASE s[name] # NoWord
  BY <1>1, <1>2, <1>5
<1> QED
  BY <1>4, <1>5

LEMMA PlacedInTwo ==
  ASSUME NEW s \in Slots, NEW w \in Word, NEW one \in DOMAIN s, NEW two \in DOMAIN s,
         w.kind \in DOMAIN SlotsOf, SlotsOf[w.kind] = <<one, two>>
  PROVE  Placed(s, w) = IF s[one] = NoWord THEN [s EXCEPT ![one] = w.value]
                        ELSE IF s[two] = NoWord THEN [s EXCEPT ![two] = w.value] ELSE s
<1> DEFINE empty == {i \in DOMAIN SlotsOf[w.kind] : s[SlotsOf[w.kind][i]] = NoWord}
<1>1. empty = IF s[one] = NoWord THEN (IF s[two] = NoWord THEN {1, 2} ELSE {1})
              ELSE IF s[two] = NoWord THEN {2} ELSE {}
  OBVIOUS
<1>2. Placed(s, w) = IF empty # {} THEN [s EXCEPT ![SlotsOf[w.kind][First(empty)]] = w.value] ELSE s
  BY DEF Placed
<1>3. SlotsOf[w.kind][1] = one /\ SlotsOf[w.kind][2] = two
  OBVIOUS
<1> HIDE DEF empty
<1>4. CASE s[one] = NoWord
  <2>1. empty # {} /\ First(empty) = 1
    BY <1>1, <1>4, FirstEmpty
  <2> QED
    BY <1>2, <1>3, <1>4, <2>1
<1>5. CASE s[one] # NoWord /\ s[two] = NoWord
  <2>1. empty # {} /\ First(empty) = 2
    BY <1>1, <1>5, FirstEmpty
  <2> QED
    BY <1>2, <1>3, <1>5, <2>1
<1>6. CASE s[one] # NoWord /\ s[two] # NoWord
  BY <1>1, <1>2, <1>6
<1> QED
  BY <1>4, <1>5, <1>6

\* A word more is filed where the scan puts it.
LEMMA FiledWordByWord ==
  ASSUME NEW words \in Seq(Word), NEW w \in Word
  PROVE  Filed(Append(words, w)) = Placed(Filed(words), w)
<1> DEFINE s == Filed(words)
           t == Filed(Append(words, w))
<1>1. /\ s \in Slots
      /\ DOMAIN s = {"verb", "adverb", "noun1", "noun2", "adject1", "adject2", "prep"}
  BY FiledIsSlots DEF Filed
<1>2. /\ s.verb = FirstOf(words, "verb") /\ s.adverb = FirstOf(words, "adverb")
      /\ s.noun1 = FirstOf(words, "noun") /\ s.noun2 = SecondOf(words, "noun")
      /\ s.adject1 = FirstOf(words, "adjective") /\ s.adject2 = SecondOf(words, "adjective")
      /\ s.prep = FirstOf(words, "preposition")
  BY DEF Filed
<1>3. \A kind : FirstOf(Append(words, w), kind) =
          IF w.kind = kind /\ FirstOf(words, kind) = NoWord THEN w.value ELSE FirstOf(words, kind)
  BY FirstOfMore
<1>4. \A kind : SecondOf(Append(words, w), kind) =
          IF w.kind = kind /\ FirstOf(words, kind) # NoWord /\ SecondOf(words, kind) = NoWord
          THEN w.value ELSE SecondOf(words, kind)
  BY SecondOfMore
<1>5. \A kind : FirstOf(words, kind) = NoWord => SecondOf(words, kind) = NoWord
  BY SlotValues
<1>6. t = [verb |-> FirstOf(Append(words, w), "verb"), adverb |-> FirstOf(Append(words, w), "adverb"),
           noun1 |-> FirstOf(Append(words, w), "noun"), noun2 |-> SecondOf(Append(words, w), "noun"),
           adject1 |-> FirstOf(Append(words, w), "adjective"),
           adject2 |-> SecondOf(Append(words, w), "adjective"),
           prep |-> FirstOf(Append(words, w), "preposition")]
  BY DEF Filed
<1>7. s = [verb |-> s.verb, adverb |-> s.adverb, noun1 |-> s.noun1, noun2 |-> s.noun2,
           adject1 |-> s.adject1, adject2 |-> s.adject2, prep |-> s.prep]
  BY DEF Filed
<1>8. /\ SlotsOf["verb"] = <<"verb">> /\ SlotsOf["adverb"] = <<"adverb">>
      /\ SlotsOf["preposition"] = <<"prep">>
      /\ SlotsOf["noun"] = <<"noun1", "noun2">> /\ SlotsOf["adjective"] = <<"adject1", "adject2">>
      /\ DOMAIN SlotsOf = {"verb", "adverb", "noun", "adjective", "preposition"}
  BY DEF SlotsOf
<1> HIDE DEF s, t
<1>9. CASE w.kind = "verb"
  <2>1. t = IF s.verb = NoWord THEN [s EXCEPT !.verb = w.value] ELSE s
    BY <1>2, <1>3, <1>4, <1>6, <1>7, <1>9
  <2> QED
    BY <2>1, <1>1, <1>8, <1>9, PlacedInOne DEF s, t
<1>10. CASE w.kind = "adverb"
  <2>1. t = IF s.adverb = NoWord THEN [s EXCEPT !.adverb = w.value] ELSE s
    BY <1>2, <1>3, <1>4, <1>6, <1>7, <1>10
  <2> QED
    BY <2>1, <1>1, <1>8, <1>10, PlacedInOne DEF s, t
<1>11. CASE w.kind = "preposition"
  <2>1. t = IF s.prep = NoWord THEN [s EXCEPT !.prep = w.value] ELSE s
    BY <1>2, <1>3, <1>4, <1>6, <1>7, <1>11
  <2> QED
    BY <2>1, <1>1, <1>8, <1>11, PlacedInOne DEF s, t
<1>12. CASE w.kind = "noun"
  <2>1. t = IF s.noun1 = NoWord THEN [s EXCEPT !.noun1 = w.value]
            ELSE IF s.noun2 = NoWord THEN [s EXCEPT !.noun2 = w.value] ELSE s
    BY <1>2, <1>3, <1>4, <1>5, <1>6, <1>7, <1>12
  <2> QED
    BY <2>1, <1>1, <1>8, <1>12, PlacedInTwo DEF s, t
<1>13. CASE w.kind = "adjective"
  <2>1. t = IF s.adject1 = NoWord THEN [s EXCEPT !.adject1 = w.value]
            ELSE IF s.adject2 = NoWord THEN [s EXCEPT !.adject2 = w.value] ELSE s
    BY <1>2, <1>3, <1>4, <1>5, <1>6, <1>7, <1>13
  <2> QED
    BY <2>1, <1>1, <1>8, <1>13, PlacedInTwo DEF s, t
<1>14. CASE w.kind \in {"other", "unknown"}
  <2>1. t = s
    BY <1>2, <1>3, <1>4, <1>6, <1>7, <1>14
  <2>2. w.kind \notin DOMAIN SlotsOf
    BY <1>8, <1>14
  <2> QED
    BY <2>1, <2>2 DEF Placed, s, t
<1> QED
  BY <1>9, <1>10, <1>11, <1>12, <1>13, <1>14 DEF Word, Kinds

-----------------------------------------------------------------------------
\* The invariant: what is typed are words, and the slots are what they have meant so far.
Tokens == DOMAIN Spelling

SentenceInv ==
  /\ SentenceTypeOK
  /\ line \in Seq(Tokens) /\ literal \in Seq(Tokens)
  /\ ScanIsFiled

LEMMA MeaningsAreWords ==
  ASSUME NEW word
  PROVE  Meaning(Vocabulary, word) \in Word
<1> DEFINE entries == {i \in DOMAIN Vocabulary : Vocabulary[i].word = word}
<1>1. \A i \in DOMAIN Vocabulary : Vocabulary[i].kind \in Kinds /\ Vocabulary[i].value \in Byte
  <2> DEFINE Entries == [word : STRING, kind : Kinds \ {"unknown"}, value : Byte]
  <2>1. \A entry \in Entries : entry.kind \in Kinds /\ entry.value \in Byte
    OBVIOUS
  <2>2. Vocabulary \in Seq(Entries)
    BY SentenceAssumption
  <2> HIDE DEF Entries
  <2>3. \A i \in DOMAIN Vocabulary : Vocabulary[i] \in Entries
    BY <2>2
  <2> QED
    BY <2>1, <2>3
<1>2. entries \in SUBSET Nat /\ entries \subseteq DOMAIN Vocabulary
  BY SentenceAssumption
<1>3. entries # {} => First(entries) \in DOMAIN Vocabulary
  BY <1>2, FirstIsLeast
<1>4. Meaning(Vocabulary, word) =
        IF entries = {} THEN [kind |-> "unknown", value |-> 0]
        ELSE [kind |-> Vocabulary[First(entries)].kind, value |-> Vocabulary[First(entries)].value]
  BY DEF Meaning
<1> HIDE DEF entries
<1>5. [kind |-> "unknown", value |-> 0] \in Word
  BY DEF Word, Kinds, Byte
<1> QED
  BY <1>1, <1>3, <1>4, <1>5 DEF Word

LEMMA MeantIsWords ==
  ASSUME line \in Seq(Tokens)
  PROVE  Meant \in Seq(Word) /\ Len(Meant) = Len(line) /\ Len(line) \in Nat
<1>1. \A token \in Tokens : Means[token] \in Word
  BY MeaningsAreWords DEF Means, Tokens
<1>2. \A i \in 1..Len(line) : line[i] \in Tokens
  OBVIOUS
<1>3. DOMAIN line = 1..Len(line) /\ Len(line) \in Nat
  OBVIOUS
<1>4. \A i \in 1..Len(line) : Means[line[i]] \in Word
  BY <1>1, <1>2
<1>5. Meant = [i \in 1..Len(line) |-> Means[line[i]]]
  BY <1>3 DEF Meant
<1> QED
  BY <1>3, <1>4, <1>5

\* The quotes of a line cut it into sequences of words.
LEMMA CutStaysIn ==
  ASSUME NEW S, NEW s \in Seq(S), NEW m \in Nat \ {0}, NEW n \in Int, n <= Len(s)
  PROVE  SubSeq(s, m, n) \in Seq(S)
<1>1. \A i \in m..n : s[i] \in S
  OBVIOUS
<1> QED
  BY <1>1, SubSeqProperties

LEMMA SplitIsWords ==
  ASSUME NEW l \in Seq(Tokens)
  PROVE  SplitQuoted(l).rest \in Seq(Tokens) /\ SplitQuoted(l).quoted \in Seq(Tokens)
<1> DEFINE open == First(Quotes(l))
           close == First(Quotes(l) \ {open})
<1>1. Len(l) \in Nat /\ Quotes(l) \in SUBSET (1..Len(l))
  BY DEF Quotes
<1>2. Quotes(l) # {} => open \in 1..Len(l)
  <2>1. Quotes(l) \in SUBSET Nat
    BY <1>1
  <2> QED
    BY <1>1, <2>1, FirstIsLeast
<1>3. Quotes(l) \ {open} # {} => close \in 1..Len(l)
  <2>1. Quotes(l) \ {open} \in SUBSET Nat
    BY <1>1
  <2> QED
    BY <1>1, <2>1, FirstIsLeast
<1>4. SplitQuoted(l) =
        IF Quotes(l) = {} THEN [rest |-> l, quoted |-> <<>>]
        ELSE IF Quotes(l) = {open}
             THEN [rest |-> SubSeq(l, 1, open - 1), quoted |-> SubSeq(l, open + 1, Len(l))]
        ELSE [rest |-> SubSeq(l, 1, open - 1) \o SubSeq(l, close + 1, Len(l)),
              quoted |-> SubSeq(l, open + 1, close - 1)]
  BY DEF SplitQuoted
<1> HIDE DEF open, close
<1>5. CASE Quotes(l) = {}
  BY <1>4, <1>5
<1>6. CASE Quotes(l) # {}
  <2>1. /\ SubSeq(l, 1, open - 1) \in Seq(Tokens) /\ SubSeq(l, open + 1, Len(l)) \in Seq(Tokens)
    <3>1. open - 1 \in Int /\ open - 1 <= Len(l) /\ open + 1 \in Nat \ {0} /\ Len(l) \in Int
      BY <1>1, <1>2, <1>6
    <3> QED
      BY <3>1, CutStaysIn
  <2>2. CASE Quotes(l) = {open}
    BY <1>4, <1>6, <2>1, <2>2
  <2>3. CASE Quotes(l) # {open}
    <3>1. close \in 1..Len(l)
      BY <1>3, <1>6, <2>3
    <3>2. close - 1 \in Int /\ close - 1 <= Len(l) /\ close + 1 \in Nat \ {0}
      BY <3>1, <1>1
    <3>3. open + 1 \in Nat \ {0}
      BY <1>2, <1>6
    <3>4. SubSeq(l, close + 1, Len(l)) \in Seq(Tokens)
      BY <1>1, <3>2, CutStaysIn
    <3>5. SubSeq(l, open + 1, close - 1) \in Seq(Tokens)
      BY <3>2, <3>3, CutStaysIn
    <3> QED
      BY <1>4, <1>6, <2>1, <2>3, <3>4, <3>5
  <2> QED
    BY <2>2, <2>3
<1> QED
  BY <1>5, <1>6

-----------------------------------------------------------------------------
LEMMA NothingFiled ==
  /\ Filed(<<>>) \in Slots /\ ~Understood(<<>>)
  /\ Blank \in Slots
<1>1. <<>> \in Seq(Word)
  OBVIOUS
<1>2. Filed(<<>>) \in Slots
  BY <1>1, FiledIsSlots
<1>3. ~Understood(<<>>)
  BY DEF Understood
<1>4. Blank = [verb |-> 0, adverb |-> 0, noun1 |-> 0, noun2 |-> 0, adject1 |-> 0, adject2 |-> 0, prep |-> 0]
  BY DEF Blank, Filed
<1> QED
  BY <1>2, <1>3, <1>4 DEF Slots, Byte

LEMMA SentenceStarts == Init => SentenceInv
<1> SUFFICES ASSUME Init PROVE SentenceInv
  OBVIOUS
<1>1. SentenceTypeOK
  <2>1. slots \in Slots /\ pronoun \in Pronouns
    BY NothingFiled DEF Init, Pronouns, Byte
  <2>2. at \in 1..(Len(line) + 1) /\ DOMAIN line = {} /\ DOMAIN literal = {}
    BY DEF Init
  <2> QED
    BY <2>1, <2>2 DEF Init, SentenceTypeOK
<1> QED
  BY <1>1 DEF Init, SentenceInv, ScanIsFiled

LEMMA ScanBegins ==
  ASSUME SentenceInv, NEW words \in Seq(Tokens), Scan(words), literal' \in Seq(Tokens)
  PROVE  SentenceInv'
<1>1. /\ slots' = Filed(<<>>) /\ found' = FALSE /\ line' = words /\ at' = 1 /\ scanning' = TRUE
      /\ pronoun' = pronoun
  BY DEF Scan
<1>2. Len(words) \in Nat
  OBVIOUS
<1>3. SentenceTypeOK'
  <2>1. pronoun' \in Pronouns
    BY <1>1 DEF SentenceInv, SentenceTypeOK
  <2>2. at' \in 1..(Len(line') + 1)
    BY <1>1, <1>2
  <2>3. \A i \in DOMAIN line' : line'[i] \in DOMAIN Spelling
    BY <1>1 DEF Tokens
  <2>4. \A i \in DOMAIN literal' : literal'[i] \in DOMAIN Spelling
    BY DEF Tokens
  <2> QED
    BY <1>1, <2>1, <2>2, <2>3, <2>4, NothingFiled DEF SentenceTypeOK
<1>4. SubSeq(Meant', 1, at' - 1) = <<>>
  BY <1>1, SubSeqEmpty
<1>5. ScanIsFiled'
  <2>1. Understood(<<>>) = FALSE
    BY NothingFiled DEF Understood
  <2> QED
    BY <1>1, <1>4, <2>1 DEF ScanIsFiled
<1> QED
  BY <1>1, <1>3, <1>5 DEF SentenceInv

\* What has been read, and a word more.
LEMMA OneWordMore ==
  ASSUME NEW words \in Seq(Word), NEW i \in 1..Len(words)
  PROVE  /\ SubSeq(words, 1, i - 1) \in Seq(Word) /\ words[i] \in Word
         /\ SubSeq(words, 1, i) = Append(SubSeq(words, 1, i - 1), words[i])
<1>1. Len(words) \in Nat /\ words[i] \in Word
  OBVIOUS
<1>2. SubSeq(words, 1, i - 1) \in Seq(Word)
  BY <1>1, CutStaysIn
<1>3. SubSeq(words, 1, i) = Append(SubSeq(words, 1, i - 1), words[i])
  OBVIOUS
<1> QED
  BY <1>1, <1>2, <1>3

LEMMA UnderstoodMore ==
  ASSUME NEW words \in Seq(Word), NEW w \in Word
  PROVE  Understood(Append(words, w)) = (Understood(words) \/ w.kind # "unknown")
<1> DEFINE more == Append(words, w)
<1>1. /\ Len(words) \in Nat /\ DOMAIN words = 1..Len(words)
      /\ DOMAIN more = 1..(Len(words) + 1) /\ more[Len(words) + 1] = w
      /\ \A i \in 1..Len(words) : more[i] = words[i]
  OBVIOUS
<1> HIDE DEF more
<1>2. Understood(more) <=> Understood(words) \/ w.kind # "unknown"
  BY <1>1 DEF Understood
<1> QED
  BY <1>2 DEF more, Understood

LEMMA WordIsRead ==
  ASSUME SentenceInv, ReadWord
  PROVE  SentenceInv'
<1>1. /\ scanning /\ at <= Len(line) /\ at' = at + 1
      /\ slots' = Placed(slots, Meant[at])
      /\ found' = (found \/ Meant[at].kind # "unknown")
      /\ UNCHANGED <<pronoun, literal, line, scanning>>
  BY DEF ReadWord
<1>2. line \in Seq(Tokens) /\ literal \in Seq(Tokens) /\ at \in 1..Len(line)
  <2>1. line \in Seq(Tokens) /\ literal \in Seq(Tokens) /\ at \in 1..(Len(line) + 1)
    BY DEF SentenceInv, SentenceTypeOK
  <2>2. Len(line) \in Nat
    BY <2>1
  <2> QED
    BY <1>1, <2>1, <2>2
<1>3. Meant \in Seq(Word) /\ Len(Meant) = Len(line) /\ Len(line) \in Nat
  BY <1>2, MeantIsWords
<1> DEFINE read == SubSeq(Meant, 1, at - 1)
<1>4. /\ read \in Seq(Word) /\ Meant[at] \in Word
      /\ SubSeq(Meant, 1, at) = Append(read, Meant[at])
  BY <1>2, <1>3, OneWordMore
<1>5. slots = Filed(read) /\ found = Understood(read)
  BY <1>1 DEF SentenceInv, ScanIsFiled
<1>6. Meant' = Meant /\ at' - 1 = at
  BY <1>1, <1>2 DEF Meant
<1> HIDE DEF read
<1>7. slots' = Filed(Append(read, Meant[at])) /\ found' = Understood(Append(read, Meant[at]))
  <2>1. slots' = Filed(Append(read, Meant[at]))
    BY <1>1, <1>4, <1>5, FiledWordByWord
  <2>2. Understood(Append(read, Meant[at])) = (Understood(read) \/ Meant[at].kind # "unknown")
    BY <1>4, UnderstoodMore
  <2>3. found' = Understood(Append(read, Meant[at]))
    BY <1>1, <1>5, <2>2, Zenon
  <2> QED
    BY <2>1, <2>3
<1>8. ScanIsFiled'
  BY <1>4, <1>6, <1>7 DEF ScanIsFiled
<1>9. slots' \in Slots
  <2>1. Append(read, Meant[at]) \in Seq(Word)
    BY <1>4
  <2> QED
    BY <2>1, <1>7, FiledIsSlots
<1>10. SentenceTypeOK'
  <2>1. at' \in 1..(Len(line') + 1)
    BY <1>1, <1>2, <1>3
  <2>2. found' \in BOOLEAN
    BY <1>1, <1>7 DEF Understood
  <2> QED
    BY <1>1, <1>9, <2>1, <2>2 DEF SentenceInv, SentenceTypeOK
<1> QED
  BY <1>1, <1>2, <1>8, <1>10 DEF SentenceInv

LEMMA VerbIsASlot ==
  ASSUME NEW s \in Slots
  PROVE  WithVerb(s) \in Slots
<1>1. s.noun1 \in Byte
  BY DEF Slots
<1>2. [s EXCEPT !.verb = s.noun1] \in Slots
  BY <1>1 DEF Slots
<1> QED
  BY <1>2 DEF WithVerb

LEMMA ScanIsOver ==
  ASSUME SentenceInv, EndScan
  PROVE  SentenceInv'
<1>1. /\ slots' = WithVerb(slots) /\ pronoun' = Remembered(slots', pronoun) /\ scanning' = FALSE
      /\ UNCHANGED <<found, literal, line, at>>
  BY DEF EndScan
<1>2. slots' \in Slots
  BY <1>1, VerbIsASlot DEF SentenceInv, SentenceTypeOK
<1>3. pronoun' \in Pronouns
  BY <1>1, <1>2 DEF SentenceInv, SentenceTypeOK, Remembered, Pronouns, Slots
<1> QED
  BY <1>1, <1>2, <1>3 DEF SentenceInv, SentenceTypeOK, ScanIsFiled

LEMMA SentenceKeeps == SentenceInv /\ [Next]_vars => SentenceInv'
<1> SUFFICES ASSUME SentenceInv, [Next]_vars PROVE SentenceInv'
  OBVIOUS
<1>1. CASE Hear
  <2>1. PICK l \in Typed : Scan(SplitQuoted(l).rest) /\ literal' = SplitQuoted(l).quoted
    BY <1>1 DEF Hear
  <2>2. l \in Seq(Tokens)
    BY SentenceAssumption DEF Tokens
  <2> QED
    BY <2>1, <2>2, SplitIsWords, ScanBegins
<1>2. CASE Overhear
  BY <1>2, ScanBegins DEF Overhear, SentenceInv
<1>3. CASE Expire
  <2>1. <<>> \in Seq(Tokens)
    OBVIOUS
  <2> QED
    BY <1>3, <2>1, ScanBegins DEF Expire, SentenceInv
<1>4. CASE Forget
  <2>1. pronoun' \in Pronouns /\ slots' \in Slots /\ ~scanning'
    BY <1>4, NothingFiled DEF Forget, Pronouns, Byte
  <2> QED
    BY <1>4, <2>1 DEF Forget, SentenceInv, SentenceTypeOK, ScanIsFiled
<1>5. CASE UNCHANGED vars
  BY <1>5 DEF vars, SentenceInv, SentenceTypeOK, ScanIsFiled, Meant
<1> QED
  BY <1>1, <1>2, <1>3, <1>4, <1>5, WordIsRead, ScanIsOver DEF Next

-----------------------------------------------------------------------------
\* Whatever the vocabulary, at every word of a scan the slots hold what the words read so
\* far mean: the first verb, the first two nouns and adjectives, each in its slot, with a
\* word worth 255 leaving its slot to the next (words, place).
THEOREM ScansFileWhatIsMeant == Spec => []ScanIsFiled
<1>1. SentenceInv => ScanIsFiled
  BY DEF SentenceInv
<1> QED
  BY <1>1, SentenceStarts, SentenceKeeps, PTL DEF Spec

\* The slots and the pronoun are bytes, and the scan is somewhere in its line.
THEOREM SentenceTypes == Spec => []SentenceTypeOK
<1>1. SentenceInv => SentenceTypeOK
  BY DEF SentenceInv
<1> QED
  BY <1>1, SentenceStarts, SentenceKeeps, PTL DEF Spec

-----------------------------------------------------------------------------
\* The scan does what the parser promises.  First, the quotes: counting the words at some
\* positions gives what cutting the line at them does.

LEMMA CountingIsCounting ==
  ASSUME NEW S
  PROVE  Promise!Cardinality(S) = Cardinality(S)
BY DEF Promise!Cardinality, Cardinality

\* Positions numbered in their order are taken in that order.
InOrder(l, positions, e, words) ==
  /\ \A k \in 1..Len(words) : e[k] \in positions
  /\ \A i \in positions : \E k \in 1..Len(words) : e[k] = i
  /\ \A j, k \in 1..Len(words) : j < k => e[j] < e[k]
  /\ \A k \in 1..Len(words) : words[k] = l[e[k]]

LEMMA TakenInOrder ==
  ASSUME NEW l, NEW words \in Seq(Tokens), NEW e, NEW S \in SUBSET Nat,
         InOrder(l, S, e, words)
  PROVE  Promise!Taken(l, S) = words
<1> USE DEF InOrder
<1> DEFINE Before(i) == {j \in S : j < i}
           m == Len(words)
<1>1. m \in Nat /\ \A k \in 1..m : e[k] \in Nat
  <2>1. m \in Nat
    OBVIOUS
  <2>2. \A k \in 1..m : e[k] \in Nat
    OBVIOUS
  <2> QED
    BY <2>1, <2>2
<1>2. ASSUME NEW n \in 0..m, NEW T, \A i : i \in T <=> \E k \in 1..n : e[k] = i
      PROVE  IsFiniteSet(T) /\ Cardinality(T) = n
  <2> DEFINE f == [k \in 1..n |-> e[k]]
  <2>1. \A k \in 1..n : k \in 1..m
    OBVIOUS
  <2>2. f \in [1..n -> T]
    BY <1>2
  <2>3. \A j, k \in 1..n : f[j] = f[k] => j = k
    <3> SUFFICES ASSUME NEW j \in 1..n, NEW k \in 1..n, e[j] = e[k] PROVE j = k
      OBVIOUS
    <3>1. j \in 1..m /\ k \in 1..m /\ e[j] \in Nat /\ e[k] \in Nat
      BY <1>1, <2>1
    <3>2. ~(j < k) /\ ~(k < j)
      BY <3>1
    <3> QED
      BY <3>1, <3>2
  <2>4. \A i \in T : \E k \in 1..n : f[k] = i
    BY <1>2
  <2> HIDE DEF f
  <2>5. f \in Bijection(1..n, T)
    BY <2>2, <2>3, <2>4 DEF Bijection, Injection, IsInjective, Surjection
  <2>6. n \in Nat /\ ExistsBijection(1..n, T)
    BY <2>5 DEF ExistsBijection
  <2> QED
    BY <2>6, FS_NatBijection, FS_CountingElements
<1>3. Cardinality(S) = m
  <2>1. m \in 0..m
    OBVIOUS
  <2>2. \A i : i \in S <=> \E k \in 1..m : e[k] = i
    OBVIOUS
  <2> QED
    BY <1>2, <2>1, <2>2
<1>4. ASSUME NEW k \in 1..m
      PROVE  Cardinality(Before(e[k])) = k - 1
  <2>1. k - 1 \in 0..m
    OBVIOUS
  <2>2. \A i : i \in Before(e[k]) <=> \E h \in 1..(k - 1) : e[h] = i
    <3>1. ASSUME NEW i \in Before(e[k])
          PROVE  \E h \in 1..(k - 1) : e[h] = i
      <4>1. PICK h \in 1..m : e[h] = i
        OBVIOUS
      <4>2. e[h] < e[k] /\ e[h] \in Nat /\ e[k] \in Nat
        BY <1>1, <4>1
      <4>3. h < k
        BY <4>2
      <4> QED
        BY <4>1, <4>3
    <3>2. ASSUME NEW h \in 1..(k - 1)
          PROVE  e[h] \in Before(e[k])
      <4>1. h \in 1..m /\ h < k
        OBVIOUS
      <4> QED
        BY <4>1
    <3> QED
      BY <3>1, <3>2
  <2> HIDE DEF Before
  <2> QED
    BY <1>2, <2>1, <2>2
<1>5. ASSUME NEW k \in 1..m
      PROVE  (CHOOSE i \in S : Cardinality(Before(i)) = k - 1) = e[k]
  <2>1. \A i \in S : Cardinality(Before(i)) = k - 1 => i = e[k]
    <3> SUFFICES ASSUME NEW i \in S, Cardinality(Before(i)) = k - 1 PROVE i = e[k]
      OBVIOUS
    <3>1. PICK h \in 1..m : e[h] = i
      OBVIOUS
    <3> HIDE DEF Before
    <3>2. h - 1 = k - 1
      BY <1>4, <3>1
    <3> QED
      BY <3>1, <3>2
  <2> HIDE DEF Before
  <2>2. e[k] \in S /\ Cardinality(Before(e[k])) = k - 1
    BY <1>4
  <2> QED
    BY <2>1, <2>2
<1>6. Promise!Taken(l, S)
        = [k \in 1..Cardinality(S) |-> l[CHOOSE i \in S : Cardinality(Before(i)) = k - 1]]
  <2>1. \A T : Promise!Cardinality(T) = Cardinality(T)
    BY CountingIsCounting
  <2>2. Promise!Taken(l, S)
          = [k \in 1..Promise!Cardinality(S) |->
               l[CHOOSE i \in S : Promise!Cardinality(Before(i)) = k - 1]]
    BY DEF Promise!Taken
  <2>3. \A k : (CHOOSE i \in S : Promise!Cardinality(Before(i)) = k - 1)
               = (CHOOSE i \in S : Cardinality(Before(i)) = k - 1)
    BY <2>1, Zenon
  <2> HIDE DEF Before
  <2>4. Promise!Cardinality(S) = Cardinality(S)
    BY <2>1
  <2>5. \A k \in 1..Cardinality(S) :
          l[CHOOSE i \in S : Promise!Cardinality(Before(i)) = k - 1]
            = l[CHOOSE i \in S : Cardinality(Before(i)) = k - 1]
    BY <2>3, Zenon
  <2> QED
    BY <2>2, <2>4, <2>5
<1> HIDE DEF Before
<1>7. Promise!Taken(l, S) = [k \in 1..m |-> l[e[k]]]
  BY <1>3, <1>5, <1>6
<1>8. words = [k \in 1..m |-> words[k]]
  OBVIOUS
<1> QED
  BY <1>7, <1>8

\* A run of positions is the part of the line it cuts out.
LEMMA TakenRun ==
  ASSUME NEW l \in Seq(Tokens), NEW a \in Nat \ {0}, NEW b \in Nat,
         a <= b + 1, b <= Len(l)
  PROVE  Promise!Taken(l, a..b) = SubSeq(l, a, b)
<1> DEFINE m == b - a + 1
           e == [k \in 1..m |-> a + k - 1]
<1>1. m \in Nat /\ a..b \in SUBSET Nat
  OBVIOUS
<1>2. /\ \A k \in 1..m : e[k] \in a..b
      /\ \A i \in a..b : \E k \in 1..m : e[k] = i
      /\ \A j, k \in 1..m : j < k => e[j] < e[k]
  <2>1. \A k \in 1..m : e[k] = a + k - 1
    OBVIOUS
  <2>2. \A i \in a..b : i - a + 1 \in 1..m /\ e[i - a + 1] = i
    BY <2>1
  <2> HIDE DEF e
  <2>3. \A k \in 1..m : e[k] \in a..b
    BY <2>1
  <2>4. \A j, k \in 1..m : j < k => e[j] < e[k]
    BY <2>1
  <2> QED
    BY <2>2, <2>3, <2>4
<1>3. \A i \in a..b : l[i] \in Tokens
  OBVIOUS
<1>4. /\ SubSeq(l, a, b) \in Seq(Tokens)
      /\ Len(SubSeq(l, a, b)) = m
      /\ \A k \in 1..m : SubSeq(l, a, b)[k] = l[a + k - 1]
  BY <1>3, SubSeqProperties
<1>5. \A k \in 1..m : l[e[k]] = l[a + k - 1]
  OBVIOUS
<1> HIDE DEF e, m
<1>6. \A k \in 1..m : SubSeq(l, a, b)[k] = l[e[k]]
  BY <1>4, <1>5
<1> DEFINE words == SubSeq(l, a, b)
<1>7. words \in Seq(Tokens) /\ Len(words) = m /\ \A k \in 1..m : words[k] = l[e[k]]
  BY <1>4, <1>6
<1> HIDE DEF words
<1>8. InOrder(l, a..b, e, words)
  BY <1>2, <1>7 DEF InOrder
<1>9. Promise!Taken(l, a..b) = words
  BY <1>1, <1>7, <1>8, TakenInOrder
<1> QED
  BY <1>9 DEF words

\* And two runs, of two such parts.
LEMMA TakenTwoRuns ==
  ASSUME NEW l \in Seq(Tokens), NEW open \in 1..Len(l), NEW close \in 1..Len(l), open < close,
         NEW S, \A i : i \in S <=> i \in 1..(open - 1) \/ i \in (close + 1)..Len(l)
  PROVE  Promise!Taken(l, S) = SubSeq(l, 1, open - 1) \o SubSeq(l, close + 1, Len(l))
<1> DEFINE m == (open - 1) + (Len(l) - close)
           e == [k \in 1..m |-> IF k < open THEN k ELSE k - open + 1 + close]
           one == SubSeq(l, 1, open - 1)
           two == SubSeq(l, close + 1, Len(l))
<1>1. Len(l) \in Nat /\ m \in Nat /\ S \in SUBSET Nat
  OBVIOUS
<1>2. /\ \A k \in 1..m : e[k] \in S
      /\ \A i \in S : \E k \in 1..m : e[k] = i
      /\ \A j, k \in 1..m : j < k => e[j] < e[k]
  <2>1. \A k \in 1..m : e[k] = IF k < open THEN k ELSE k - open + 1 + close
    OBVIOUS
  <2>2. \A i \in 1..(open - 1) : i \in 1..m /\ e[i] = i
    OBVIOUS
  <2>3. \A i \in (close + 1)..Len(l) : /\ i - close - 1 + open \in 1..m
                                       /\ e[i - close - 1 + open] = i
    <3>1. \A i \in (close + 1)..Len(l) : i - close - 1 + open \in 1..m
      OBVIOUS
    <3> HIDE DEF e
    <3> QED
      BY <2>1, <3>1
  <2> HIDE DEF e
  <2>4. \A k \in 1..m : e[k] \in S
    BY <2>1
  <2>5. \A j, k \in 1..m : j < k => e[j] < e[k]
    BY <2>1
  <2>6. \A i \in S : \E k \in 1..m : e[k] = i
    <3> HIDE DEF m
    <3> QED
      BY <2>2, <2>3
  <2> QED
    BY <2>4, <2>5, <2>6
<1>4. /\ \A i \in 1..(open - 1) : l[i] \in Tokens
      /\ \A i \in (close + 1)..Len(l) : l[i] \in Tokens
  OBVIOUS
<1>5. /\ one \in Seq(Tokens) /\ Len(one) = open - 1
      /\ \A k \in 1..(open - 1) : one[k] = l[k]
  <2>1. /\ one \in Seq(Tokens) /\ Len(one) = IF 1 <= open - 1 THEN open - 1 - 1 + 1 ELSE 0
        /\ \A k \in 1..(open - 1 - 1 + 1) : one[k] = l[1 + k - 1]
    BY <1>4, SubSeqProperties
  <2> HIDE DEF one
  <2> QED
    BY <2>1
<1>6. /\ two \in Seq(Tokens) /\ Len(two) = Len(l) - close
      /\ \A k \in 1..(Len(l) - close) : two[k] = l[close + k]
  <2>1. /\ two \in Seq(Tokens)
        /\ Len(two) = IF close + 1 <= Len(l) THEN Len(l) - (close + 1) + 1 ELSE 0
        /\ \A k \in 1..(Len(l) - (close + 1) + 1) : two[k] = l[(close + 1) + k - 1]
    BY <1>1, <1>4, SubSeqProperties
  <2> HIDE DEF two
  <2>2. Len(l) - (close + 1) + 1 = Len(l) - close
    BY <1>1
  <2>3. Len(two) = Len(l) - close
    BY <1>1, <2>1
  <2>4. \A k \in 1..(Len(l) - close) : (close + 1) + k - 1 = close + k
    BY <1>1
  <2> QED
    BY <2>1, <2>2, <2>3, <2>4
<1> HIDE DEF one, two
<1>7. /\ one \o two \in Seq(Tokens) /\ Len(one \o two) = m
      /\ \A k \in 1..m : (one \o two)[k] = IF k <= open - 1 THEN one[k] ELSE two[k - (open - 1)]
  <2>1. /\ one \o two \in Seq(Tokens) /\ Len(one \o two) = Len(one) + Len(two)
        /\ \A k \in 1..(Len(one) + Len(two)) :
             (one \o two)[k] = IF k <= Len(one) THEN one[k] ELSE two[k - Len(one)]
    BY <1>5, <1>6, ConcatProperties
  <2>2. Len(one) + Len(two) = m
    BY <1>5, <1>6
  <2> QED
    BY <1>5, <2>1, <2>2
<1>8. \A k \in 1..m : (one \o two)[k] = l[e[k]]
  <2> SUFFICES ASSUME NEW k \in 1..m PROVE (one \o two)[k] = l[e[k]]
    OBVIOUS
  <2>1. CASE k < open
    BY <1>1, <1>5, <1>7, <2>1
  <2>2. CASE ~(k < open)
    <3>1. k - (open - 1) \in 1..(Len(l) - close) /\ ~(k <= open - 1)
      BY <1>1, <2>2
    <3>2. two[k - (open - 1)] = l[close + (k - (open - 1))]
      BY <1>6, <3>1
    <3>3. e[k] = close + (k - (open - 1))
      BY <1>1, <2>2
    <3> QED
      BY <1>7, <3>1, <3>2, <3>3
  <2> QED
    BY <2>1, <2>2
<1> HIDE DEF e, m
<1> DEFINE words == one \o two
<1>9. words \in Seq(Tokens) /\ Len(words) = m /\ \A k \in 1..m : words[k] = l[e[k]]
  BY <1>7, <1>8
<1> HIDE DEF words
<1>10. Promise!Taken(l, S) = words
  <2> HIDE DEF e, m
  <2>1. InOrder(l, S, e, words)
    BY <1>2, <1>9 DEF InOrder
  <2> QED
    BY <1>1, <1>9, <2>1, TakenInOrder
<1> QED
  BY <1>10 DEF words, one, two

\* Nothing is taken from no positions.
LEMMA TakenNowhere ==
  ASSUME NEW l \in Seq(Tokens)
  PROVE  Promise!Taken(l, {}) = <<>>
<1>1. <<>> \in Seq(Tokens) /\ Len(<<>>) = 0 /\ {} \in SUBSET Nat
  OBVIOUS
<1>2. InOrder(l, {}, <<>>, <<>>)
  BY DEF InOrder
<1> QED
  BY <1>1, <1>2, TakenInOrder

\* How many quotes stand before a position: none, one, or more.
LEMMA CountsQuotes ==
  ASSUME NEW l \in Seq(Tokens), NEW i \in DOMAIN l
  PROVE  /\ Promise!QuotesBefore(l, i) \in Nat
         /\ Promise!QuotesBefore(l, i) = 0 <=> \A j \in Quotes(l) : ~(j < i)
         /\ Promise!QuotesBefore(l, i) = 1 <=>
              \E j \in Quotes(l) : j < i /\ \A h \in Quotes(l) : h < i => h = j
<1> DEFINE B == {j \in 1..(i - 1) : l[j] = Quote}
<1>1. i \in 1..Len(l) /\ Len(l) \in Nat
  OBVIOUS
<1>2. \A j : j \in B <=> j \in Quotes(l) /\ j < i
  BY <1>1 DEF Quotes
<1>3. IsFiniteSet(B) /\ Cardinality(B) \in Nat
  <2>1. IsFiniteSet(1..(i - 1)) /\ B \in SUBSET (1..(i - 1))
    <3>1. i - 1 \in Int
      BY <1>1
    <3> QED
      BY <3>1, FS_Interval
  <2>2. IsFiniteSet(B)
    BY <2>1, FS_Subset
  <2> QED
    BY <2>2, FS_CardinalityType
<1>4. Promise!QuotesBefore(l, i) = Cardinality(B)
  BY CountingIsCounting DEF Promise!QuotesBefore, Promise!Quote, Quote
<1> HIDE DEF B
<1>5. Cardinality(B) = 0 <=> B = {}
  BY <1>3, FS_EmptySet
<1>6. Cardinality(B) = 1 <=> \E j : B = {j}
  BY <1>3, FS_Singleton
<1>7. (\E j : B = {j}) <=> \E j \in Quotes(l) : j < i /\ \A h \in Quotes(l) : h < i => h = j
  <2>1. ASSUME NEW j, B = {j}
        PROVE  j \in Quotes(l) /\ j < i /\ \A h \in Quotes(l) : h < i => h = j
    BY <1>2, <2>1
  <2>2. ASSUME NEW j \in Quotes(l), j < i, \A h \in Quotes(l) : h < i => h = j
        PROVE  B = {j}
    BY <1>2, <2>2
  <2> QED
    BY <2>1, <2>2
<1> QED
  BY <1>2, <1>3, <1>4, <1>5, <1>6, <1>7

\* Splitting a line at its quotes gives the promised order and phrase.
LEMMA SplitIsPromised ==
  ASSUME NEW l \in Seq(Tokens)
  PROVE  /\ Promise!Said(l) = SplitQuoted(l).rest
         /\ Promise!Phrase(l) = SplitQuoted(l).quoted
<1> DEFINE Q == Quotes(l)
           open == First(Q)
           close == First(Q \ {open})
           n == Len(l)
           Before(i) == Promise!QuotesBefore(l, i)
           Inside == {i \in DOMAIN l : Before(i) = 1 /\ l[i] # Promise!Quote}
           Outside == {i \in DOMAIN l : \/ Before(i) = 0 /\ l[i] # Promise!Quote
                                        \/ Before(i) >= 2}
<1>1. n \in Nat /\ DOMAIN l = 1..n /\ Q \in SUBSET (1..n) /\ Q \in SUBSET Nat
  <2>1. n \in Nat /\ DOMAIN l = 1..n
    OBVIOUS
  <2>2. Q \in SUBSET (1..n)
    BY <2>1 DEF Quotes
  <2> QED
    BY <2>1, <2>2
<1>2. Promise!Phrase(l) = Promise!Taken(l, Inside) /\ Promise!Said(l) = Promise!Taken(l, Outside)
  BY DEF Promise!Phrase, Promise!Said
<1>3. \A i \in 1..n : l[i] # Promise!Quote <=> i \notin Q
  BY <1>1 DEF Quotes, Quote, Promise!Quote
<1>4. \A i \in 1..n : /\ Before(i) \in Nat
                      /\ Before(i) = 0 <=> \A j \in Q : ~(j < i)
                      /\ Before(i) = 1 <=> \E j \in Q : j < i /\ \A h \in Q : h < i => h = j
  BY <1>1, CountsQuotes
<1>5. /\ \A i \in Inside : i \in 1..n
      /\ \A i \in Outside : i \in 1..n
      /\ \A i \in 1..n : i \in Inside <=> Before(i) = 1 /\ i \notin Q
      /\ \A i \in 1..n : i \in Outside <=> (Before(i) = 0 /\ i \notin Q) \/ Before(i) >= 2
  BY <1>1, <1>3
<1>6. Q # {} => open \in Q /\ \A j \in Q : open <= j
  BY <1>1, FirstIsLeast
<1>7. Q \ {open} # {} => close \in Q \ {open} /\ \A j \in Q \ {open} : close <= j
  <2>1. Q \ {open} \in SUBSET Nat
    BY <1>1
  <2> QED
    BY <2>1, FirstIsLeast
<1>8. SplitQuoted(l) =
        IF Q = {} THEN [rest |-> l, quoted |-> <<>>]
        ELSE IF Q = {open}
             THEN [rest |-> SubSeq(l, 1, open - 1), quoted |-> SubSeq(l, open + 1, n)]
        ELSE [rest |-> SubSeq(l, 1, open - 1) \o SubSeq(l, close + 1, n),
              quoted |-> SubSeq(l, open + 1, close - 1)]
  BY DEF SplitQuoted
<1> HIDE DEF Q, open, close, Before, Inside, Outside
<1>9. CASE Q = {}
  <2>1. \A i \in 1..n : Before(i) = 0
    BY <1>4, <1>9
  <2>2. Inside = {}
    BY <1>5, <1>9, <2>1
  <2>3. Outside = 1..n
    BY <1>5, <1>9, <2>1
  <2>4. Promise!Taken(l, Outside) = SubSeq(l, 1, n)
    <3>1. 1 \in Nat \ {0} /\ n \in Nat /\ 1 <= n + 1 /\ n <= Len(l)
      BY <1>1
    <3>2. Promise!Taken(l, 1..n) = SubSeq(l, 1, n)
      BY <3>1, TakenRun, Zenon
    <3> QED
      BY <2>3, <3>2
  <2>5. SubSeq(l, 1, n) = l
    OBVIOUS
  <2>6. Promise!Taken(l, Inside) = <<>>
    BY <2>2, TakenNowhere
  <2> QED
    BY <1>2, <1>8, <1>9, <2>4, <2>5, <2>6
<1>10. CASE Q = {open}
  <2>1. open \in 1..n
    BY <1>1, <1>10
  <2>2. \A i \in 1..n : Before(i) = IF i <= open THEN 0 ELSE 1
    BY <1>1, <1>4, <1>10, <2>1
  <2>3. Inside = (open + 1)..n /\ Outside = 1..(open - 1)
    <3>1. \A i \in 1..n : i \in Inside <=> i \in (open + 1)..n
      BY <1>1, <1>5, <1>10, <2>1, <2>2
    <3>2. \A i \in 1..n : i \in Outside <=> i \in 1..(open - 1)
      BY <1>1, <1>5, <1>10, <2>1, <2>2
    <3>3. /\ \A i \in (open + 1)..n : i \in 1..n
          /\ \A i \in 1..(open - 1) : i \in 1..n
      BY <1>1, <2>1
    <3>4. Inside = (open + 1)..n
      BY <1>5, <3>1, <3>3
    <3>5. Outside = 1..(open - 1)
      BY <1>5, <3>2, <3>3
    <3> QED
      BY <3>4, <3>5
  <2>4. Promise!Taken(l, Outside) = SubSeq(l, 1, open - 1)
    <3>1. 1 \in Nat \ {0} /\ open - 1 \in Nat /\ 1 <= open - 1 + 1 /\ open - 1 <= Len(l)
      BY <1>1, <2>1
    <3>2. Promise!Taken(l, 1..(open - 1)) = SubSeq(l, 1, open - 1)
      BY <3>1, TakenRun, Zenon
    <3> QED
      BY <2>3, <3>2
  <2>5. Promise!Taken(l, Inside) = SubSeq(l, open + 1, n)
    <3>1. open + 1 \in Nat \ {0} /\ n \in Nat /\ open + 1 <= n + 1 /\ n <= Len(l)
      BY <1>1, <2>1
    <3>2. Promise!Taken(l, (open + 1)..n) = SubSeq(l, open + 1, n)
      BY <3>1, TakenRun, Zenon
    <3> QED
      BY <2>3, <3>2
  <2>6. SplitQuoted(l) = [rest |-> SubSeq(l, 1, open - 1), quoted |-> SubSeq(l, open + 1, n)]
    BY <1>8, <1>10, Zenon
  <2>7. /\ SplitQuoted(l).rest = SubSeq(l, 1, open - 1)
        /\ SplitQuoted(l).quoted = SubSeq(l, open + 1, n)
    <3> DEFINE before == SubSeq(l, 1, open - 1)
               after == SubSeq(l, open + 1, n)
    <3>1. SplitQuoted(l) = [rest |-> before, quoted |-> after]
      BY <2>6
    <3> HIDE DEF before, after
    <3>2. SplitQuoted(l).rest = before /\ SplitQuoted(l).quoted = after
      BY <3>1
    <3> QED
      BY <3>2 DEF before, after
  <2> QED
    BY <1>2, <2>4, <2>5, <2>7, Zenon
<1>11. CASE Q # {} /\ Q # {open}
  <2>1. /\ open \in 1..n /\ close \in 1..n /\ open < close
        /\ open \in Q /\ close \in Q
        /\ \A j \in Q : j = open \/ close <= j
    <3>1. open \in Q /\ close \in Q \ {open} /\ \A j \in Q \ {open} : close <= j
      BY <1>6, <1>7, <1>11
    <3>2. open <= close /\ open # close /\ open \in 1..n /\ close \in 1..n
      BY <1>1, <1>6, <1>11, <3>1
    <3> QED
      BY <3>1, <3>2
  <2>2. \A i \in 1..n : i <= open => Before(i) = 0
    BY <1>1, <1>4, <2>1
  <2>3. \A i \in 1..n : open < i /\ i <= close => Before(i) = 1
    <3> SUFFICES ASSUME NEW i \in 1..n, open < i, i <= close PROVE Before(i) = 1
      OBVIOUS
    <3>1. \A h \in Q : h < i => h = open
      BY <1>1, <2>1
    <3> QED
      BY <1>4, <2>1, <3>1
  <2>4. \A i \in 1..n : close < i => Before(i) >= 2
    <3> SUFFICES ASSUME NEW i \in 1..n, close < i PROVE Before(i) >= 2
      OBVIOUS
    <3>1. Before(i) # 0
      BY <1>4, <2>1
    <3>2. Before(i) # 1
      <4>1. open < i /\ open # close
        BY <2>1
      <4> QED
        BY <1>4, <2>1, <4>1
    <3> QED
      BY <1>4, <3>1, <3>2
  <2>5. \A i \in (open + 1)..(close - 1) : i \in 1..n /\ i \notin Q
    BY <1>1, <2>1
  <2>6. Inside = (open + 1)..(close - 1)
    <3>1. \A i \in 1..n : i \in Inside => i \in (open + 1)..(close - 1)
      BY <1>1, <1>5, <2>1, <2>2, <2>3, <2>4
    <3>2. \A i \in (open + 1)..(close - 1) : i \in Inside
      BY <1>1, <1>5, <2>1, <2>3, <2>5
    <3> QED
      BY <1>5, <3>1, <3>2
  <2>7. \A i : i \in Outside <=> i \in 1..(open - 1) \/ i \in (close + 1)..n
    <3>1. \A i \in 1..n : i \in Outside => i \in 1..(open - 1) \/ i \in (close + 1)..n
      <4> SUFFICES ASSUME NEW i \in 1..n, i \in Outside
                   PROVE  i \in 1..(open - 1) \/ i \in (close + 1)..n
        OBVIOUS
      <4>1. CASE i <= open
        <5>1. i # open
          BY <1>5, <2>1, <2>2, <4>1
        <5> QED
          BY <2>1, <4>1, <5>1
      <4>2. CASE open < i /\ i <= close
        BY <1>5, <2>3, <4>2
      <4>3. CASE close < i
        BY <1>1, <2>1, <4>3
      <4> QED
        BY <2>1, <4>1, <4>2, <4>3
    <3>2. \A i \in 1..(open - 1) : i \in Outside
      <4>1. \A i \in 1..(open - 1) : i \in 1..n /\ i <= open /\ i \notin Q
        BY <1>1, <2>1
      <4> QED
        BY <1>5, <2>2, <4>1
    <3>3. \A i \in (close + 1)..n : i \in Outside
      BY <1>1, <1>5, <2>1, <2>4
    <3> QED
      BY <1>5, <3>1, <3>2, <3>3
  <2>8. Promise!Taken(l, Outside) = SubSeq(l, 1, open - 1) \o SubSeq(l, close + 1, n)
    BY <2>1, <2>7, TakenTwoRuns
  <2>9. Promise!Taken(l, Inside) = SubSeq(l, open + 1, close - 1)
    <3>1. /\ open + 1 \in Nat \ {0} /\ close - 1 \in Nat
          /\ open + 1 <= close - 1 + 1 /\ close - 1 <= Len(l)
      BY <1>1, <2>1
    <3> QED
      BY <2>6, <3>1, TakenRun
  <2>10. SplitQuoted(l) =
            [rest |-> SubSeq(l, 1, open - 1) \o SubSeq(l, close + 1, n),
             quoted |-> SubSeq(l, open + 1, close - 1)]
    BY <1>8, <1>11
  <2>11. /\ SplitQuoted(l).rest = SubSeq(l, 1, open - 1) \o SubSeq(l, close + 1, n)
         /\ SplitQuoted(l).quoted = SubSeq(l, open + 1, close - 1)
    <3> DEFINE around == SubSeq(l, 1, open - 1) \o SubSeq(l, close + 1, n)
               between == SubSeq(l, open + 1, close - 1)
    <3>1. SplitQuoted(l) = [rest |-> around, quoted |-> between]
      BY <2>10
    <3> HIDE DEF around, between
    <3>2. SplitQuoted(l).rest = around /\ SplitQuoted(l).quoted = between
      BY <3>1
    <3> QED
      BY <3>2 DEF around, between
  <2> QED
    BY <1>2, <2>8, <2>9, <2>11, Zenon
<1> QED
  BY <1>9, <1>10, <1>11

-----------------------------------------------------------------------------
\* The parser and its promise mean the same by the words they share.
LEMMA SameFiling ==
  ASSUME NEW words
  PROVE  Promise!Filed(words) = Filed(words)
<1>1. \A S : Promise!First(S) = First(S)
  BY DEF Promise!First, First
<1>2. \A kind : Promise!OfKind(words, kind) = OfKind(words, kind)
  BY DEF Promise!OfKind, OfKind, Promise!NoWord, NoWord
<1>3. \A kind : Promise!FirstOf(words, kind) = FirstOf(words, kind)
  BY <1>1, <1>2 DEF Promise!FirstOf, FirstOf, Promise!NoWord, NoWord
<1>4. \A kind : Promise!SecondOf(words, kind) = SecondOf(words, kind)
  BY <1>1, <1>2 DEF Promise!SecondOf, SecondOf, Promise!NoWord, NoWord
<1> QED
  BY <1>3, <1>4 DEF Promise!Filed, Filed

LEMMA SameMeaning ==
  /\ \A words : Promise!Understood(words) = Understood(words)
  /\ \A s : Promise!WithVerb(s) = WithVerb(s)
  /\ \A s, p : Promise!Remembered(s, p) = Remembered(s, p)
  /\ Promise!Meanings(line) = Meant
  /\ Promise!Blank = Blank
<1>1. \A words : Promise!Understood(words) = Understood(words)
  BY DEF Promise!Understood, Understood
<1>2. \A s : Promise!WithVerb(s) = WithVerb(s)
  BY DEF Promise!WithVerb, WithVerb, Promise!NoWord, NoWord, Promise!FirstRealVerb, FirstRealVerb
<1>3. \A s, p : Promise!Remembered(s, p) = Remembered(s, p)
  BY DEF Promise!Remembered, Remembered, Promise!Pronounable, Pronounable, Promise!NoWord, NoWord,
         Promise!FirstPronounable, FirstPronounable
<1>4. Promise!Meanings(line) = Meant
  BY DEF Promise!Meanings, Meant
<1>5. Promise!Blank = Blank
  BY DEF Promise!Blank, Blank, Filed
<1> QED
  BY <1>1, <1>2, <1>3, <1>4, <1>5

\* The invariant: what is being read is a line that was typed, the phrase kept from
\* an earlier one, or nothing.
SourceOfScan ==
  \/ \E l \in Typed : line = SplitQuoted(l).rest /\ literal = SplitQuoted(l).quoted
  \/ literal = was.literal /\ line \in {literal, <<>>}

RefinementInv ==
  /\ SentenceInv
  /\ scanning => SourceOfScan

LEMMA RefinementStarts == Init => RefinementInv /\ Promise!Init
<1> SUFFICES ASSUME Init PROVE RefinementInv /\ Promise!Init
  OBVIOUS
<1>1. RefinementInv
  BY SentenceStarts DEF Init, RefinementInv
<1>2. Promise!Init
  BY SameMeaning DEF Init, Promise!Init, Promise!NobodyYet
<1> QED
  BY <1>1, <1>2

LEMMA SourceIsKept == RefinementInv /\ [Next]_vars => RefinementInv'
<1> SUFFICES ASSUME RefinementInv, [Next]_vars PROVE (scanning => SourceOfScan)'
  BY SentenceKeeps DEF RefinementInv
<1>1. CASE Hear
  BY <1>1 DEF Hear, Scan, SourceOfScan
<1>2. CASE Overhear
  BY <1>2 DEF Overhear, Scan, SourceOfScan
<1>3. CASE Expire
  BY <1>3 DEF Expire, Scan, SourceOfScan
<1>4. CASE ReadWord
  BY <1>4 DEF ReadWord, RefinementInv, SourceOfScan
<1>5. CASE EndScan \/ Forget
  BY <1>5 DEF EndScan, Forget
<1>6. CASE UNCHANGED vars
  BY <1>6 DEF vars, RefinementInv, SourceOfScan
<1> QED
  BY <1>1, <1>2, <1>3, <1>4, <1>5, <1>6 DEF Next

\* The end of a scan is the promised step.
LEMMA ScanIsPromised ==
  ASSUME RefinementInv, EndScan
  PROVE  Promise!Next
<1>1. /\ scanning /\ at > Len(line) /\ scanning' = FALSE
      /\ slots' = WithVerb(slots) /\ pronoun' = Remembered(slots', pronoun)
      /\ UNCHANGED <<found, literal, line, at, was>>
  BY DEF EndScan
<1>2. /\ line \in Seq(Tokens) /\ literal \in Seq(Tokens) /\ at \in 1..(Len(line) + 1)
      /\ slots = Filed(SubSeq(Meant, 1, at - 1)) /\ found = Understood(SubSeq(Meant, 1, at - 1))
  BY <1>1 DEF RefinementInv, SentenceInv, SentenceTypeOK, ScanIsFiled
<1>3. Meant \in Seq(Word) /\ Len(Meant) = Len(line) /\ Len(line) \in Nat
  BY <1>2, MeantIsWords
<1>4. SubSeq(Meant, 1, at - 1) = Meant
  <2>1. at - 1 = Len(Meant)
    BY <1>1, <1>2, <1>3
  <2> HIDE DEF Meant
  <2>2. SubSeq(Meant, 1, Len(Meant)) = Meant
    BY <1>3
  <2> QED
    BY <2>1, <2>2
<1>5. Promise!Understand(line)
  <2>1. slots' = WithVerb(Filed(Meant)) /\ found' = Understood(Meant)
    BY <1>1, <1>2, <1>4
  <2> QED
    BY <1>1, <2>1, SameFiling, SameMeaning DEF Promise!Understand
<1>6. CASE \E l \in Typed : line = SplitQuoted(l).rest /\ literal = SplitQuoted(l).quoted
  <2>1. PICK l \in Typed : line = SplitQuoted(l).rest /\ literal = SplitQuoted(l).quoted
    BY <1>6
  <2>2. line = Promise!Said(l) /\ literal = Promise!Phrase(l)
    <3>1. l \in Seq(Tokens)
      BY SentenceAssumption DEF Tokens
    <3> QED
      BY <2>1, <3>1, SplitIsPromised
  <2>3. Promise!Hear(l)
    BY <1>1, <1>5, <2>2 DEF Promise!Hear
  <2> QED
    BY <2>3 DEF Promise!Next
<1>7. CASE literal = was.literal /\ line = literal
  <2>1. Promise!Overhear
    BY <1>1, <1>5, <1>7 DEF Promise!Overhear
  <2> QED
    BY <2>1 DEF Promise!Next
<1>8. CASE literal = was.literal /\ line = <<>>
  <2>1. Promise!Expire
    BY <1>1, <1>5, <1>8 DEF Promise!Expire
  <2> QED
    BY <2>1 DEF Promise!Next
<1> QED
  BY <1>1, <1>6, <1>7, <1>8 DEF RefinementInv, SourceOfScan

LEMMA SentenceSteps == RefinementInv /\ [Next]_vars => [Promise!Next]_Promise!promised
<1> SUFFICES ASSUME RefinementInv, [Next]_vars PROVE [Promise!Next]_Promise!promised
  OBVIOUS
<1>1. CASE Hear \/ Overhear \/ Expire
  <2>1. /\ ~scanning /\ scanning'
        /\ was' = [order |-> slots, understood |-> found, literal |-> literal]
        /\ UNCHANGED pronoun
    BY <1>1 DEF Hear, Overhear, Expire, Scan
  <2> QED
    BY <2>1 DEF Promise!promised
<1>2. CASE ReadWord
  BY <1>2 DEF ReadWord, Promise!promised
<1>3. CASE EndScan
  BY <1>3, ScanIsPromised
<1>4. CASE Forget
  <2>1. Promise!Forget
    BY <1>4, SameMeaning DEF Forget, Promise!Forget, Promise!NobodyYet
  <2> QED
    BY <2>1 DEF Promise!Next
<1>5. CASE UNCHANGED vars
  BY <1>5 DEF vars, Promise!promised
<1> QED
  BY <1>1, <1>2, <1>3, <1>4, <1>5 DEF Next

\* THE SCAN KEEPS THE PARSER'S PROMISE: read word by word, each line is the order
\* and the phrase that the parser says it is, whatever is typed and whatever the
\* vocabulary holds; and a sentence is not seen by the tables until it is read to
\* its end (parser.go:6).
THEOREM SentenceRefines == Spec => ImplementsParser
<1>1. Init => RefinementInv /\ Promise!Init
  BY RefinementStarts
<1>2. RefinementInv /\ [Next]_vars => RefinementInv' /\ [Promise!Next]_Promise!promised
  BY SourceIsKept, SentenceSteps
<1> QED
  BY <1>1, <1>2, PTL DEF Spec, ImplementsParser, Promise!Spec
=============================================================================
