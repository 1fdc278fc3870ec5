---------------------------- MODULE CompilerProofs ----------------------------
(***************************************************************************)
(* For every source and every target: two counters are enough, that is,    *)
(* the preprocessor implements Conditionals; and where a SKIP lands and    *)
(* what text a condact says, which the parser numbers while the source is  *)
(* read, some of them before what they number is there.                    *)
(***************************************************************************)
EXTENDS Compiler, SequenceTheorems, TLAPS

-----------------------------------------------------------------------------
\* The stack that o open conditionals and a depth of d stand for.

LEMMA StackFacts ==
  ASSUME NEW o \in Nat, NEW d \in Nat
  PROVE  /\ Nested(d) \in Nat
         /\ StackFor(o, d) \in Seq(C!Branches)
         /\ Len(StackFor(o, d)) = o + Nested(d)
         /\ DOMAIN StackFor(o, d) = 1..(o + Nested(d))
         /\ \A i \in 1..(o + Nested(d)) :
              StackFor(o, d)[i] = IF i > o THEN "dead"
                                  ELSE IF i = o /\ d > 0 THEN "dropped" ELSE "taken"
<1>1. Nested(d) \in Nat
  BY DEF Nested
<1>2. o + Nested(d) \in Nat
  BY <1>1
<1>3. StackFor(o, d) \in [1..(o + Nested(d)) -> C!Branches]
  BY <1>2 DEF StackFor, C!Branches
<1>4. StackFor(o, d) \in Seq(C!Branches) /\ Len(StackFor(o, d)) = o + Nested(d)
  BY <1>2, <1>3
<1> QED
  BY <1>1, <1>2, <1>4 DEF StackFor

\* What the sequence says at each place settles it.
LEMMA StackIs ==
  ASSUME NEW o \in Nat, NEW d \in Nat, NEW s \in Seq(C!Branches),
         Len(s) = o + Nested(d),
         \A i \in 1..(o + Nested(d)) :
           s[i] = IF i > o THEN "dead" ELSE IF i = o /\ d > 0 THEN "dropped" ELSE "taken"
  PROVE  StackFor(o, d) = s
<1> DEFINE t == StackFor(o, d)
<1>1. t \in Seq(C!Branches) /\ Len(t) = Len(s)
  BY StackFacts
<1>2. \A i \in 1..Len(t) : t[i] = s[i]
  BY StackFacts
<1> HIDE DEF t
<1>3. t = s
  BY <1>1, <1>2, SeqEqual
<1> QED
  BY <1>3 DEF t

\* A conditional opened where lines count is one more, taken or dropped.
LEMMA StackOpened ==
  ASSUME NEW o \in Nat, NEW d \in {0, 1}
  PROVE  StackFor(o + 1, d) = Append(StackFor(o, 0), IF d = 0 THEN "taken" ELSE "dropped")
<1> DEFINE t == StackFor(o, 0)
           b == IF d = 0 THEN "taken" ELSE "dropped"
           s == Append(t, b)
<1>1. Nested(0) = 0 /\ Nested(d) = 0 /\ b \in C!Branches
  BY DEF Nested, C!Branches
<1>2. t \in Seq(C!Branches) /\ Len(t) = o + Nested(0)
  BY StackFacts
<1>3. \A i \in 1..(o + Nested(0)) : t[i] = "taken"
  <2>1. ASSUME NEW i \in 1..(o + Nested(0))
        PROVE  t[i] = IF i > o THEN "dead" ELSE IF i = o /\ 0 > 0 THEN "dropped" ELSE "taken"
    BY StackFacts
  <2> QED
    BY <1>1, <2>1
<1> HIDE DEF t, b
<1>5. /\ s \in Seq(C!Branches)
      /\ Len(s) = Len(t) + 1
      /\ \A i \in 1..Len(t) : s[i] = t[i]
      /\ s[Len(t) + 1] = b
  BY <1>1, <1>2, AppendProperties
<1>6. Len(t) = o
  BY <1>1, <1>2
<1> HIDE DEF s
<1>7. \A i \in 1..(o + 1) : s[i] = IF i = o + 1 THEN b ELSE "taken"
  BY <1>1, <1>3, <1>5, <1>6
<1>8. Len(s) = o + 1 + Nested(d)
  BY <1>1, <1>5, <1>6
<1>9. \A i \in 1..(o + 1 + Nested(d)) :
        s[i] = IF i > o + 1 THEN "dead" ELSE IF i = o + 1 /\ d > 0 THEN "dropped" ELSE "taken"
  BY <1>1, <1>7 DEF b
<1>10. StackFor(o + 1, d) = s
  BY <1>5, <1>8, <1>9, StackIs
<1> QED
  BY <1>10 DEF s, t, b

\* One lying in a dead branch is one more that counts for nothing.
LEMMA StackDeepened ==
  ASSUME NEW o \in Nat, NEW d \in Nat, d > 0
  PROVE  StackFor(o, d + 1) = Append(StackFor(o, d), "dead")
<1> DEFINE t == StackFor(o, d)
           s == Append(t, "dead")
<1>1. Nested(d) \in Nat /\ Nested(d + 1) = Nested(d) + 1 /\ "dead" \in C!Branches
  BY DEF Nested, C!Branches
<1>2. t \in Seq(C!Branches) /\ Len(t) = o + Nested(d)
  BY StackFacts
<1>3. \A i \in 1..(o + Nested(d)) :
        t[i] = IF i > o THEN "dead" ELSE IF i = o /\ d > 0 THEN "dropped" ELSE "taken"
  BY StackFacts
<1> HIDE DEF t
<1>4. /\ s \in Seq(C!Branches)
      /\ Len(s) = Len(t) + 1
      /\ \A i \in 1..Len(t) : s[i] = t[i]
      /\ s[Len(t) + 1] = "dead"
  BY <1>1, <1>2, AppendProperties
<1> HIDE DEF s
<1>5. \A i \in 1..(o + Nested(d + 1)) :
        s[i] = IF i > o THEN "dead" ELSE IF i = o /\ d + 1 > 0 THEN "dropped" ELSE "taken"
  <2> SUFFICES ASSUME NEW i \in 1..(o + Nested(d) + 1)
               PROVE  s[i] = IF i > o THEN "dead" ELSE IF i = o /\ d > 0 THEN "dropped" ELSE "taken"
    BY <1>1
  <2>0. i \in Nat /\ Nested(d) \in Nat
    BY <1>1
  <2>1. CASE i = Len(t) + 1
    <3>1. i > o
      BY <1>2, <2>0, <2>1
    <3> QED
      BY <1>4, <2>1, <3>1
  <2>2. CASE i # Len(t) + 1
    <3>1. i \in 1..(o + Nested(d)) /\ i \in 1..Len(t)
      BY <1>2, <2>0, <2>2
    <3> QED
      BY <1>3, <1>4, <3>1
  <2> QED
    BY <2>1, <2>2
<1>6. Len(s) = o + Nested(d + 1)
  BY <1>1, <1>2, <1>4
<1>7. StackFor(o, d + 1) = s
  BY <1>4, <1>5, <1>6, StackIs
<1> QED
  BY <1>7 DEF s, t

\* The last one goes, and how the others stand does not change.
LEMMA StackShortened ==
  ASSUME NEW o \in Nat, NEW d \in Nat, NEW p \in Nat, NEW e \in Nat,
         p + Nested(e) = o + Nested(d) - 1,
         \A i \in 1..(p + Nested(e)) :
           StackFor(o, d)[i] = IF i > p THEN "dead"
                               ELSE IF i = p /\ e > 0 THEN "dropped" ELSE "taken"
  PROVE  StackFor(p, e) = SubSeq(StackFor(o, d), 1, Len(StackFor(o, d)) - 1)
<1> DEFINE t == StackFor(o, d)
           n == Len(t) - 1
           s == SubSeq(t, 1, n)
<1>1. Nested(d) \in Nat /\ Nested(e) \in Nat
  BY DEF Nested
<1>2. t \in Seq(C!Branches) /\ Len(t) = o + Nested(d)
  BY StackFacts
<1>3. \A i \in 1..(p + Nested(e)) :
        t[i] = IF i > p THEN "dead" ELSE IF i = p /\ e > 0 THEN "dropped" ELSE "taken"
  OBVIOUS
<1> HIDE DEF t
<1>4. n \in Nat /\ n = p + Nested(e) /\ n < Len(t)
  BY <1>1, <1>2
<1> HIDE DEF n
<1>5. \A i \in 1..n : t[i] \in C!Branches
  BY <1>2, <1>4
<1>6. /\ s \in Seq(C!Branches)
      /\ Len(s) = IF 1 <= n THEN n - 1 + 1 ELSE 0
      /\ \A i \in 1..(n - 1 + 1) : s[i] = t[1 + i - 1]
  BY <1>4, <1>5, SubSeqProperties
<1> HIDE DEF s
<1>7. Len(s) = p + Nested(e) /\ \A i \in 1..n : s[i] = t[i]
  BY <1>4, <1>6
<1>8. \A i \in 1..(p + Nested(e)) :
        s[i] = IF i > p THEN "dead" ELSE IF i = p /\ e > 0 THEN "dropped" ELSE "taken"
  BY <1>3, <1>4, <1>7
<1>9. StackFor(p, e) = s
  BY <1>6, <1>7, <1>8, StackIs
<1> QED
  BY <1>9 DEF s, t, n

\* The three ways a conditional is closed.
LEMMA StackClosed ==
  ASSUME NEW o \in Nat, NEW d \in Nat
  PROVE  /\ o > 0 /\ d \in {0, 1} =>
              StackFor(o - 1, 0) = SubSeq(StackFor(o, d), 1, Len(StackFor(o, d)) - 1)
         /\ d > 1 =>
              StackFor(o, d - 1) = SubSeq(StackFor(o, d), 1, Len(StackFor(o, d)) - 1)
<1>1. ASSUME o > 0, d \in {0, 1}
      PROVE  StackFor(o - 1, 0) = SubSeq(StackFor(o, d), 1, Len(StackFor(o, d)) - 1)
  <2>1. PICK p \in Nat : p = o - 1
    BY <1>1
  <2>2. Nested(d) = 0 /\ Nested(0) = 0
    BY <1>1 DEF Nested
  <2>3. \A i \in 1..(o + Nested(d)) :
          StackFor(o, d)[i] = IF i > o THEN "dead"
                              ELSE IF i = o /\ d > 0 THEN "dropped" ELSE "taken"
    BY StackFacts
  <2>4. \A i \in 1..(p + Nested(0)) :
          StackFor(o, d)[i] = IF i > p THEN "dead"
                              ELSE IF i = p /\ 0 > 0 THEN "dropped" ELSE "taken"
    BY <2>1, <2>2, <2>3
  <2>5. p + Nested(0) = o + Nested(d) - 1
    BY <2>1, <2>2
  <2>6. StackFor(p, 0) = SubSeq(StackFor(o, d), 1, Len(StackFor(o, d)) - 1)
    BY <2>4, <2>5, StackShortened
  <2> QED
    BY <2>1, <2>6
<1>2. ASSUME d > 1
      PROVE  StackFor(o, d - 1) = SubSeq(StackFor(o, d), 1, Len(StackFor(o, d)) - 1)
  <2>1. PICK e \in Nat : e = d - 1
    BY <1>2
  <2>2. Nested(d) \in Nat /\ Nested(e) = Nested(d) - 1 /\ Nested(e) \in Nat
    BY <1>2, <2>1 DEF Nested
  <2>3. \A i \in 1..(o + Nested(d)) :
          StackFor(o, d)[i] = IF i > o THEN "dead"
                              ELSE IF i = o /\ d > 0 THEN "dropped" ELSE "taken"
    BY StackFacts
  <2>4. \A i \in 1..(o + Nested(e)) :
          StackFor(o, d)[i] = IF i > o THEN "dead"
                              ELSE IF i = o /\ e > 0 THEN "dropped" ELSE "taken"
    BY <1>2, <2>1, <2>2, <2>3
  <2>5. o + Nested(e) = o + Nested(d) - 1
    BY <2>2
  <2>6. StackFor(o, e) = SubSeq(StackFor(o, d), 1, Len(StackFor(o, d)) - 1)
    BY <2>4, <2>5, StackShortened
  <2> QED
    BY <2>1, <2>6
<1> QED
  BY <1>1, <1>2

\* #else turns the innermost conditional, if it counts.
LEMMA StackTurned ==
  ASSUME NEW o \in Nat, NEW d \in Nat, o > 0
  PROVE  LET t == StackFor(o, d)
             e == IF d = 0 THEN 1 ELSE IF d = 1 THEN 0 ELSE d
         IN  t # <<>> /\ StackFor(o, e) = [t EXCEPT ![Len(t)] = C!Other(@)]
<1> DEFINE t == StackFor(o, d)
           e == IF d = 0 THEN 1 ELSE IF d = 1 THEN 0 ELSE d
           b == C!Other(t[Len(t)])
           s == [t EXCEPT ![Len(t)] = b]
<1>1. Nested(d) \in Nat /\ Nested(e) = Nested(d) /\ (d < 2 => Nested(d) = 0) /\ (d >= 2 => Nested(d) > 0)
  BY DEF Nested
<1>2. t \in Seq(C!Branches) /\ Len(t) = o + Nested(d)
  BY StackFacts
<1>3. \A i \in 1..(o + Nested(d)) :
        t[i] = IF i > o THEN "dead" ELSE IF i = o /\ d > 0 THEN "dropped" ELSE "taken"
  BY StackFacts
<1> HIDE DEF t
<1>4. Len(t) \in 1..Len(t)
  BY <1>1, <1>2
<1>5. t[Len(t)] = IF d = 0 THEN "taken" ELSE IF d = 1 THEN "dropped" ELSE "dead"
  BY <1>1, <1>2, <1>3, <1>4
<1>6. b = (IF d = 0 THEN "dropped" ELSE IF d = 1 THEN "taken" ELSE "dead") /\ b \in C!Branches
  BY <1>5 DEF C!Other, C!Branches
<1> HIDE DEF b
<1>7. /\ s \in Seq(C!Branches)
      /\ Len(s) = Len(t)
      /\ \A i \in 1..Len(t) : s[i] = IF i = Len(t) THEN b ELSE t[i]
  BY <1>2, <1>4, <1>6, ExceptSeq
<1> HIDE DEF s
<1>8. e \in Nat
  OBVIOUS
<1>9. \A i \in 1..(o + Nested(e)) :
        s[i] = IF i > o THEN "dead" ELSE IF i = o /\ e > 0 THEN "dropped" ELSE "taken"
  <2> SUFFICES ASSUME NEW i \in 1..(o + Nested(d))
               PROVE  s[i] = IF i > o THEN "dead" ELSE IF i = o /\ e > 0 THEN "dropped" ELSE "taken"
    BY <1>1
  <2>1. CASE i = Len(t)
    BY <1>1, <1>2, <1>6, <1>7, <2>1
  <2>2. CASE i # Len(t)
    BY <1>1, <1>2, <1>3, <1>7, <2>2
  <2> QED
    BY <2>1, <2>2
<1> HIDE DEF e
<1>10. StackFor(o, e) = s
  BY <1>1, <1>2, <1>7, <1>8, <1>9, StackIs
<1>11. t # <<>>
  BY <1>1, <1>2
<1> QED
  BY <1>10, <1>11 DEF s, t, e, b

\* Nothing is open, and nothing skipped, when the stack is empty.
LEMMA StackEmpty ==
  ASSUME NEW o \in Nat, NEW d \in Nat, d > 0 => o > 0
  PROVE  StackFor(o, d) = <<>> <=> o = 0
<1>1. Nested(d) \in Nat /\ (o = 0 => Nested(d) = 0)
  BY DEF Nested
<1>2. StackFor(o, d) \in Seq(C!Branches) /\ Len(StackFor(o, d)) = o + Nested(d)
  BY StackFacts
<1>3. StackFor(o, d) = <<>> <=> Len(StackFor(o, d)) = 0
  BY <1>2, EmptySeq
<1> QED
  BY <1>1, <1>2, <1>3

-----------------------------------------------------------------------------
\* The invariant: the conditional being skipped is one of those open.
CountersOK ==
  /\ open \in Nat
  /\ depth \in Nat
  /\ depth > 0 => open > 0
  /\ linked \in Seq(Lines)

LEMMA CountersStart ==
  ASSUME PreprocessorInit
  PROVE  CountersOK
BY DEF PreprocessorInit, CountersOK

\* No line is read that leaves a branch skipped with no conditional open.
LEMMA CountersStep ==
  ASSUME CountersOK, [PreprocessorNext]_preprocessorVars
  PROVE  CountersOK'
<1> USE DEF CountersOK
<1>1. CASE UNCHANGED preprocessorVars
  BY <1>1 DEF preprocessorVars
<1>2. CASE EndOfSource
  BY <1>2 DEF EndOfSource
<1>3. ASSUME NEW read \in Lines, Include(read) \/ EndOfInclude(read) \/ Through(read)
      PROVE  CountersOK'
  BY <1>3 DEF Include, EndOfInclude, Through, Refuse
<1>4. ASSUME NEW read \in Lines, Define(read) \/ If(read) \/ Else(read) \/ Endif(read)
      PROVE  CountersOK'
  <2>1. CASE Define(read)
    BY <2>1 DEF Define, Refuse
  <2>2. CASE If(read)
    BY <2>2 DEF If, Refuse
  <2>3. CASE Else(read)
    BY <2>3 DEF Else, Refuse
  <2>4. CASE Endif(read)
    BY <2>4 DEF Endif, Refuse
  <2> QED
    BY <1>4, <2>1, <2>2, <2>3, <2>4
<1>5. ASSUME NEW read \in Lines, Request(read)
      PROVE  CountersOK'
  <2>1. Append(linked, read) \in Seq(Lines)
    BY AppendProperties
  <2> QED
    BY <1>5, <2>1 DEF Request, Refuse
<1>6. ASSUME NEW read \in Lines, SkipDead(read)
      PROVE  CountersOK'
  BY <1>6 DEF SkipDead, Conditional
<1> QED
  BY <1>1, <1>2, <1>3, <1>4, <1>5, <1>6 DEF PreprocessorNext, ReadLine

\* THE COUNTERS ARE SOUND: a branch is skipped only inside a conditional that is
\* open, in every source (preproc.go, skipDead).
THEOREM CountersAreSound == PreprocessorSpec => []CountersOK
<1>1. PreprocessorInit => CountersOK
  BY CountersStart
<1>2. CountersOK /\ [PreprocessorNext]_preprocessorVars => CountersOK'
  BY CountersStep
<1> QED
  BY <1>1, <1>2, PTL DEF PreprocessorSpec

-----------------------------------------------------------------------------
\* A line counts when none is being skipped.
LEMMA LiveIsReading ==
  ASSUME CountersOK
  PROVE  C!Live <=> depth = 0
<1>1. DOMAIN StackFor(open, depth) = 1..(open + Nested(depth))
  BY StackFacts DEF CountersOK
<1>2. \A i \in 1..(open + Nested(depth)) :
        StackFor(open, depth)[i] = IF i > open THEN "dead"
                                   ELSE IF i = open /\ depth > 0 THEN "dropped" ELSE "taken"
  BY StackFacts DEF CountersOK
<1>3. CASE depth = 0
  <2>1. Nested(depth) = 0
    BY <1>3 DEF Nested
  <2> QED
    BY <1>1, <1>2, <1>3, <2>1 DEF C!Live, CountersOK
<1>4. CASE depth > 0
  <2>1. open \in 1..(open + Nested(depth))
    BY <1>4 DEF Nested, CountersOK
  <2> QED
    BY <1>1, <1>2, <1>4, <2>1 DEF C!Live
<1> QED
  BY <1>3, <1>4 DEF CountersOK

\* The names a source may ask for are those it was given and those it defined.
LEMMA SymbolNames == DOMAIN symbols = DOMAIN Predefined(opts) \cup DOMAIN defined
BY DEF symbols, Over

-----------------------------------------------------------------------------
\* The refinement, one action at a time.

LEMMA InitRefines ==
  ASSUME PreprocessorInit
  PROVE  C!Init
<1> USE DEF PreprocessorInit
<1>1. StackFor(open, depth) = <<>>
  BY StackEmpty
<1>2. DOMAIN defined = {}
  OBVIOUS
<1>3. Noted = {}
  BY DEF Noted, Range
<1> QED
  BY <1>1, <1>2, <1>3 DEF C!Init

LEMMA ThroughRefines ==
  ASSUME CountersOK, NEW read \in Lines, Through(read)
  PROVE  C!Keep(read)
<1>1. C!Live
  BY LiveIsReading DEF Through
<1>2. read.is \notin C!Consumed
  BY DEF Through, C!Consumed, C!Conditional, C!Requests, C!Silent,
         Directives, Inclusion, Conditional, External, Switch
<1>3. UNCHANGED <<open, depth, defined, linked, settings, reading>> /\ out' = Append(out, read)
  BY DEF Through
<1> QED
  BY <1>1, <1>2, <1>3 DEF C!Keep, Noted

LEMMA RefuseRefines ==
  ASSUME CountersOK, NEW read \in Lines, Refuse,
         \/ depth = 0 /\ read.is \in C!Consumed \ {"else", "endif"}
         \/ depth = 0 /\ open = 0 /\ read.is \in {"else", "endif"}
         \/ read.is = "include"
  PROVE  C!Refuse(read)
<1>1. C!Live <=> depth = 0
  BY LiveIsReading
<1>2. open = 0 => StackFor(open, depth) = <<>>
  BY StackEmpty DEF CountersOK
<1>3. UNCHANGED <<open, depth, out, defined, linked, settings>> /\ reading' = "refused"
  BY DEF Refuse
<1> QED
  BY <1>1, <1>2, <1>3 DEF C!Refuse, Noted

LEMMA DefineRefines ==
  ASSUME CountersOK, NEW read \in Lines, Define(read)
  PROVE  C!Define(read) \/ C!Refuse(read)
<1>1. C!Live /\ depth = 0 /\ read.is = "define"
  BY LiveIsReading DEF Define
<1>2. CASE Refuse
  BY <1>1, <1>2, RefuseRefines DEF C!Consumed
<1>3. CASE ~Refuse
  <2> DEFINE worth == Worth({read.name}, Evaluate(read.value, symbols))
  <2>1. /\ defined' = Over(worth, defined)
        /\ UNCHANGED <<open, depth, out, linked, settings, reading>>
    BY <1>3 DEF Define
  <2>2. DOMAIN worth = {read.name}
    BY DEF Worth
  <2> HIDE DEF worth
  <2>3. DOMAIN defined' = DOMAIN defined \cup {read.name}
    BY <2>1, <2>2 DEF Over
  <2> QED
    BY <1>1, <2>1, <2>3 DEF C!Define, Noted
<1> QED
  BY <1>2, <1>3

LEMMA IfRefines ==
  ASSUME CountersOK, NEW read \in Lines, If(read)
  PROVE  C!Open(read) \/ C!Refuse(read)
<1>1. C!Live /\ depth = 0 /\ read.is \in Conditional
  BY LiveIsReading DEF If
<1>2. CASE Refuse
  BY <1>1, <1>2, RefuseRefines DEF C!Consumed, C!Conditional, Conditional
<1>3. CASE ~Refuse
  <2>1. /\ open' = open + 1
        /\ depth' = IF ConditionHolds(read) THEN 0 ELSE 1
        /\ UNCHANGED <<opts, defined, out, linked, settings, reading>>
    BY <1>3 DEF If, Reads
  <2>2. ConditionHolds(read) <=> C!Holds(read)
    BY SymbolNames DEF ConditionHolds, C!Holds
  <2>3. \A d \in {0, 1} :
          StackFor(open + 1, d) = Append(StackFor(open, 0), IF d = 0 THEN "taken" ELSE "dropped")
    BY StackOpened DEF CountersOK
  <2>4. depth' \in {0, 1} /\ (depth' = 0 <=> C!Holds(read))
    BY <2>1, <2>2
  <2>5. StackFor(open, depth)'
          = Append(StackFor(open, depth), IF C!Holds(read) THEN "taken" ELSE "dropped")
    BY <1>1, <2>1, <2>3, <2>4
  <2> QED
    BY <1>1, <2>1, <2>5 DEF C!Open, C!Conditional, Conditional, Noted
<1> QED
  BY <1>2, <1>3

LEMMA ElseRefines ==
  ASSUME CountersOK, NEW read \in Lines, Else(read)
  PROVE  C!Else(read) \/ C!Refuse(read)
<1>1. depth = 0 /\ read.is = "else"
  BY DEF Else
<1>2. CASE open = 0
  BY <1>1, <1>2, RefuseRefines DEF Else
<1>3. CASE open # 0
  <2>1. depth' = 1 /\ UNCHANGED <<open, defined, out, linked, settings, reading>>
    BY <1>3 DEF Else
  <2>2. /\ StackFor(open, depth) # <<>>
        /\ StackFor(open, IF depth = 0 THEN 1 ELSE IF depth = 1 THEN 0 ELSE depth)
             = [StackFor(open, depth) EXCEPT ![Len(StackFor(open, depth))] = C!Other(@)]
    <3>1. open \in Nat /\ depth \in Nat /\ open > 0
      BY <1>3 DEF CountersOK
    <3> QED
      BY <3>1, StackTurned
  <2> QED
    BY <1>1, <2>1, <2>2 DEF C!Else, Noted
<1> QED
  BY <1>2, <1>3

LEMMA EndifRefines ==
  ASSUME CountersOK, NEW read \in Lines, Endif(read)
  PROVE  C!Endif(read) \/ C!Refuse(read)
<1>1. depth = 0 /\ read.is = "endif"
  BY DEF Endif
<1>2. CASE open = 0
  BY <1>1, <1>2, RefuseRefines DEF Endif
<1>3. CASE open # 0
  <2>1. open' = open - 1 /\ UNCHANGED <<depth, defined, out, linked, settings, reading>>
    BY <1>3 DEF Endif
  <2>2. StackFor(open - 1, 0) = SubSeq(StackFor(open, depth), 1, Len(StackFor(open, depth)) - 1)
    <3>1. open > 0 /\ depth \in {0, 1}
      BY <1>1, <1>3 DEF CountersOK
    <3> QED
      BY <3>1, StackClosed DEF CountersOK
  <2>3. StackFor(open, depth) # <<>>
    BY <1>3, StackEmpty DEF CountersOK
  <2> QED
    BY <1>1, <2>1, <2>2, <2>3 DEF C!Endif, Noted
<1> QED
  BY <1>2, <1>3

LEMMA RequestRefines ==
  ASSUME CountersOK, NEW read \in Lines, Request(read)
  PROVE  C!Note(read) \/ C!Pass(read) \/ C!Refuse(read)
<1>1. C!Live /\ depth = 0
  BY LiveIsReading DEF Request
<1>2. CASE read.is \in External /\ Refuse
  BY <1>1, <1>2, RefuseRefines DEF C!Consumed, C!Requests, External
<1>3. CASE read.is = "echo" /\ Refuse
  BY <1>1, <1>3, RefuseRefines DEF C!Consumed, C!Silent
<1>4. CASE read.is \in External /\ ~Refuse
  <2>1. linked' = Append(linked, read) /\ UNCHANGED <<open, depth, defined, out, settings, reading>>
    BY <1>4 DEF Request, External, Switch
  <2>2. Range(Append(linked, read)) = Range(linked) \cup {read}
    BY AppendProperties DEF CountersOK, Range
  <2> QED
    BY <1>1, <1>4, <2>1, <2>2 DEF C!Note, C!Requests, External, Noted
<1>5. CASE read.is \in Switch
  <2>1. settings' = settings \cup {read.is} /\ UNCHANGED <<open, depth, defined, out, linked, reading>>
    BY <1>5 DEF Request, External, Switch
  <2>2. read = [is |-> read.is]
    BY <1>5, PreprocessorAssumption
  <2>3. {[is |-> s] : s \in settings \cup {read.is}} = {[is |-> s] : s \in settings} \cup {read}
    BY <2>2
  <2> QED
    BY <1>1, <1>5, <2>1, <2>3 DEF C!Note, C!Requests, Switch, Noted
<1>6. CASE read.is = "echo" /\ ~Refuse
  BY <1>6 DEF Request, External, Switch, C!Pass, C!Silent, Noted
<1> QED
  BY <1>2, <1>3, <1>4, <1>5, <1>6 DEF Request

\* The lines of a branch that is not taken.
LEMMA SkipDeadRefines ==
  ASSUME CountersOK, NEW read \in Lines, SkipDead(read)
  PROVE  \/ C!Keep(read) \/ C!Define(read) \/ C!Note(read) \/ C!Pass(read)
         \/ C!Open(read) \/ C!Else(read) \/ C!Endif(read)
<1>1. /\ open \in Nat /\ depth \in Nat /\ depth > 0 /\ open > 0
      /\ ~C!Live
      /\ StackFor(open, depth) # <<>>
  BY LiveIsReading, StackEmpty DEF SkipDead, CountersOK
<1>2. /\ UNCHANGED <<defined, out, linked, settings, reading>>
      /\ Noted' = Noted
  BY DEF SkipDead, Noted
<1>3. /\ depth' = CASE read.is \in Conditional -> depth + 1
                    [] read.is = "endif" -> depth - 1
                    [] read.is = "else" /\ depth = 1 -> 0
                    [] OTHER -> depth
      /\ open' = IF read.is = "endif" /\ depth = 1 THEN open - 1 ELSE open
  BY DEF SkipDead
<1>4. CASE read.is \in Conditional
  <2>1. depth' = depth + 1 /\ open' = open
    BY <1>3, <1>4 DEF Conditional
  <2>2. StackFor(open, depth + 1) = Append(StackFor(open, depth), "dead")
    BY <1>1, StackDeepened
  <2> QED
    BY <1>1, <1>2, <1>4, <2>1, <2>2 DEF C!Open, C!Conditional, Conditional
<1>5. CASE read.is = "else"
  <2>1. /\ depth' = IF depth = 0 THEN 1 ELSE IF depth = 1 THEN 0 ELSE depth
        /\ open' = open
    BY <1>1, <1>3, <1>5 DEF Conditional
  <2>2. StackFor(open, IF depth = 0 THEN 1 ELSE IF depth = 1 THEN 0 ELSE depth)
          = [StackFor(open, depth) EXCEPT ![Len(StackFor(open, depth))] = C!Other(@)]
    BY <1>1, StackTurned
  <2> QED
    BY <1>1, <1>2, <1>5, <2>1, <2>2 DEF C!Else
<1>6. CASE read.is = "endif"
  <2>1. depth' = depth - 1 /\ open' = IF depth = 1 THEN open - 1 ELSE open
    BY <1>3, <1>6 DEF Conditional
  <2>2. StackFor(open', depth')
          = SubSeq(StackFor(open, depth), 1, Len(StackFor(open, depth)) - 1)
    <3>1. CASE depth = 1
      <4>1. StackFor(open - 1, 0) = SubSeq(StackFor(open, depth), 1, Len(StackFor(open, depth)) - 1)
        BY <1>1, <3>1, StackClosed
      <4>2. depth' = 0 /\ open' = open - 1
        BY <2>1, <3>1
      <4> QED
        BY <4>1, <4>2
    <3>2. CASE depth > 1
      <4>1. StackFor(open, depth - 1) = SubSeq(StackFor(open, depth), 1, Len(StackFor(open, depth)) - 1)
        BY <1>1, <3>2, StackClosed
      <4>2. depth' = depth - 1 /\ open' = open
        BY <1>1, <2>1, <3>2
      <4> QED
        BY <4>1, <4>2
    <3> QED
      BY <1>1, <3>1, <3>2
  <2> QED
    BY <1>1, <1>2, <1>6, <2>2 DEF C!Endif
<1>7. CASE read.is \notin Conditional \cup {"else", "endif"}
  <2>1. StackFor(open, depth)' = StackFor(open, depth)
    BY <1>3, <1>7
  <2>2. \/ read.is = "define" \/ read.is \in C!Requests \/ read.is = "echo"
        \/ read.is \notin C!Consumed
    BY <1>7 DEF SkipDead, Inclusion, C!Consumed, C!Conditional, C!Requests, C!Silent, Conditional
  <2> QED
    BY <1>1, <1>2, <2>1, <2>2 DEF C!Keep, C!Define, C!Note, C!Pass, C!Silent
<1> QED
  BY <1>4, <1>5, <1>6, <1>7

LEMMA InclusionRefines ==
  ASSUME CountersOK, NEW read \in Lines, Include(read) \/ EndOfInclude(read)
  PROVE  C!Pass(read) \/ C!Refuse(read)
<1>1. CASE read.is = "include" /\ Refuse
  BY <1>1, RefuseRefines
<1>2. CASE /\ read.is \in {"include", "back"}
           /\ UNCHANGED <<open, depth, defined, out, linked, settings, reading>>
  BY <1>2 DEF C!Pass, C!Silent, Noted
<1> QED
  BY <1>1, <1>2 DEF Include, EndOfInclude

\* Every step is one of a stack's.
LEMMA StepRefines ==
  ASSUME CountersOK, [PreprocessorNext]_preprocessorVars
  PROVE  [C!Next]_C!vars
<1>1. CASE UNCHANGED preprocessorVars
  BY <1>1 DEF preprocessorVars, C!vars, Noted
<1>2. CASE EndOfSource
  <2>1. StackFor(open, depth) = <<>> <=> ~(depth > 0 \/ open > 0)
    BY StackEmpty DEF CountersOK
  <2> QED
    BY <1>2, <2>1 DEF EndOfSource, C!Next, C!Finish, Noted
<1>3. ASSUME NEW read \in Lines, ReadLine(read)
      PROVE  C!Next
  <2>1. Reads(read)
    BY <1>3 DEF ReadLine, Include, EndOfInclude, Through, Define, If, Else, Endif, Request, SkipDead
  <2>2. \/ C!Keep(read) \/ C!Define(read) \/ C!Note(read) \/ C!Pass(read)
        \/ C!Open(read) \/ C!Else(read) \/ C!Endif(read) \/ C!Refuse(read)
    BY <1>3, InclusionRefines, ThroughRefines, DefineRefines, IfRefines, ElseRefines, EndifRefines,
       RequestRefines, SkipDeadRefines DEF ReadLine
  <2> QED
    BY <2>1, <2>2 DEF Reads, C!Next, C!ReadLine
<1> QED
  BY <1>1, <1>2, <1>3 DEF PreprocessorNext

\* TWO COUNTERS DO THE WORK OF A STACK: what the preprocessor keeps, defines,
\* notes and refuses is what Conditionals says, for every source and every
\* target (preproc.go: open and skipDead's depth).
THEOREM PreprocessorRefines == PreprocessorSpec => KeepsWhatCounts
<1>1. PreprocessorInit => CountersOK /\ C!Init
  BY CountersStart, InitRefines
<1>2. CountersOK /\ [PreprocessorNext]_preprocessorVars => CountersOK' /\ [C!Next]_C!vars
  BY CountersStep, StepRefines
<1> QED
  BY <1>1, <1>2, PTL DEF PreprocessorSpec, KeepsWhatCounts, C!Spec

-----------------------------------------------------------------------------
\* The shapes of things.

IsList(s) == \E S : s \in Seq(S)

CondactShape(c) ==
  /\ c = [op |-> c.op, line |-> c.line, args |-> c.args]
  /\ IsList(c.args)
  /\ \A i \in DOMAIN c.args :
       c.args[i] = [value |-> c.args[i].value, indirect |-> c.args[i].indirect,
                    written |-> c.args[i].written]
  /\ c.op \in DOMAIN Condacts
  /\ Condacts[c.op].skip => c.args # <<>>

BlockShape(b) == IsList(b) /\ \A c \in DOMAIN b : CondactShape(b[c])

Fields == {"null", "words", "system", "user", "objects", "locations", "conns", "processes"}

SourceOK ==
  /\ out \in Seq(Lines)
  /\ cursor \in 0..Len(out)
  /\ Fields \subseteq DOMAIN db
  /\ IsList(db.system) /\ IsList(db.user)
  /\ IsList(db.processes) /\ \A p \in DOMAIN db.processes : IsList(db.processes[p])

ProcessOK ==
  /\ process \in -1..MaxProcess
  /\ IsList(opened)
  /\ process \in Range(opened) \cup {-1}
  /\ mode \in {"between", "heads", "block"}
  /\ IsList(entries) /\ IsList(heads) /\ IsList(pending)
  /\ IsList(blocks) /\ \A b \in DOMAIN blocks : BlockShape(blocks[b])
  /\ BlockShape(block)
  /\ mode = "between" => heads = <<>> /\ block = <<>>
  /\ mode # "between" => heads # <<>>

-----------------------------------------------------------------------------
\* Lists.

LEMMA ListFacts ==
  ASSUME NEW s, IsList(s)
  PROVE  /\ Len(s) \in Nat /\ DOMAIN s = 1..Len(s)
         /\ s = <<>> <=> Len(s) = 0
         /\ \A i \in DOMAIN s : i \in Nat /\ i >= 1 /\ i <= Len(s)
BY DEF IsList

LEMMA ListAppend ==
  ASSUME NEW s, IsList(s), NEW e
  PROVE  /\ IsList(Append(s, e)) /\ Append(s, e) # <<>>
         /\ Len(Append(s, e)) = Len(s) + 1
         /\ DOMAIN Append(s, e) = 1..(Len(s) + 1)
         /\ \A i \in 1..Len(s) : Append(s, e)[i] = s[i]
         /\ Append(s, e)[Len(s) + 1] = e
<1>1. PICK S : s \in Seq(S)
  BY DEF IsList
<1>2. s \in Seq(S \cup {e})
  BY <1>1
<1>3. Append(s, e) \in Seq(S \cup {e})
  BY <1>2
<1> QED
  BY <1>2, <1>3 DEF IsList

LEMMA ListConcat ==
  ASSUME NEW s, IsList(s), NEW t, IsList(t)
  PROVE  /\ IsList(s \o t)
         /\ Len(s \o t) = Len(s) + Len(t)
         /\ DOMAIN (s \o t) = 1..(Len(s) + Len(t))
         /\ \A i \in 1..(Len(s) + Len(t)) :
              (s \o t)[i] = IF i <= Len(s) THEN s[i] ELSE t[i - Len(s)]
<1>1. PICK S : s \in Seq(S)
  BY DEF IsList
<1>2. PICK T : t \in Seq(T)
  BY DEF IsList
<1>3. s \in Seq(S \cup T) /\ t \in Seq(S \cup T)
  BY <1>1, <1>2
<1>4. s \o t \in Seq(S \cup T)
  BY <1>3
<1> QED
  BY <1>3, <1>4 DEF IsList

LEMMA ListMade ==
  ASSUME NEW n \in Nat, NEW f, f = [i \in 1..n |-> f[i]]
  PROVE  IsList(f) /\ Len(f) = n /\ DOMAIN f = 1..n
<1> DEFINE S == {f[i] : i \in 1..n}
<1>1. f \in [1..n -> S]
  OBVIOUS
<1>2. f \in Seq(S) /\ Len(f) = n
  BY <1>1
<1> QED
  BY <1>1, <1>2 DEF IsList

LEMMA EmptyList == IsList(<<>>) /\ Len(<<>>) = 0 /\ DOMAIN <<>> = {}
<1>1. <<>> \in Seq({})
  OBVIOUS
<1> QED
  BY <1>1 DEF IsList

\* t goes on where s ends.
Extends(t, s) == IsList(t) /\ \A i \in DOMAIN s : i \in DOMAIN t /\ t[i] = s[i]

LEMMA AppendExtends ==
  ASSUME NEW s, IsList(s), NEW e
  PROVE  Extends(Append(s, e), s) /\ Extends(s, s)
BY ListFacts, ListAppend DEF Extends

-----------------------------------------------------------------------------
\* The sections before the processes file texts, and leave the processes alone.

LEMMA SectionsKeep ==
  ASSUME SourceOK, SectionsNext, out' = out
  PROVE  /\ SourceOK'
         /\ cursor' \in {cursor, cursor + 1}
         /\ db'.processes = db.processes
         /\ Extends(db'.user, db.user) /\ Extends(db'.system, db.system)
<1>1. cursor' = cursor \/ (cursor' = cursor + 1 /\ cursor # Len(out))
  BY DEF SourceEnds, SectionsNext, OpenSection, Control, Vocabulary, TextEntry, LocationEntry, Exit,
     ObjectEntry, CloseObjects, Misplaced, Walks
<1>2. \/ db' = db
      \/ \E f \in Fields \ {"processes", "user", "system"} : \E v : db' = [db EXCEPT ![f] = v]
      \/ \E e : db' = [db EXCEPT !["system"] = Append(db.system, e)]
      \/ \E e : db' = [db EXCEPT !["user"] = Append(db.user, e)]
  <2>1. CASE OpenSection \/ LocationEntry \/ CloseObjects \/ Misplaced
    BY <2>1 DEF OpenSection, LocationEntry, CloseObjects, Misplaced, RefuseSource
  <2>2. CASE Control
    BY <2>2 DEF Control, Fields
  <2>3. CASE Vocabulary
    <3>1. db' = db \/ \E v : db' = [db EXCEPT !["words"] = v]
      BY <2>3, Zenon DEF Vocabulary, RefuseSource
    <3> QED
      BY <3>1 DEF Fields
  <2>4. CASE TextEntry
    <3>1. \/ db' = db
          \/ db' = [db EXCEPT !["system"] = Append(db.system, line.text)]
          \/ db' = [db EXCEPT !["user"] = Append(db.user, line.text)]
          \/ \E v : db' = [db EXCEPT !["objects"] = v]
          \/ \E v : db' = [db EXCEPT !["locations"] = v]
      <4>1. CASE UNCHANGED db
        BY <4>1
      <4>2. CASE ~UNCHANGED db
        <5>1. /\ section \in 3..6
              /\ db' = CASE In("STX") -> [db EXCEPT !.system = Append(@, line.text)]
                         [] In("MTX") -> [db EXCEPT !.user = Append(@, line.text)]
                         [] In("OTX") -> [db EXCEPT !.objects = Append(@, [text |-> line.text] @@ Blank)]
                         [] In("LTX") -> [db EXCEPT !.locations = Append(@, line.text)]
          BY <2>4, <4>2, Zenon DEF TextEntry, RefuseSource
        <5> DEFINE o == Append(db.objects, [text |-> line.text] @@ Blank)
                   t == line.text
        <5>2. section = 3 => db' = [db EXCEPT !["system"] = Append(db.system, t)]
          BY <5>1 DEF In, Order
        <5>3. section = 4 => db' = [db EXCEPT !["user"] = Append(db.user, t)]
          BY <5>1 DEF In, Order
        <5>4. section = 5 => db' = [db EXCEPT !["objects"] = o]
          BY <5>1 DEF In, Order
        <5>5. section = 6 => db' = [db EXCEPT !["locations"] = Append(db.locations, t)]
          BY <5>1 DEF In, Order
        <5> HIDE DEF o
        <5>6. section \in 3..6
          BY <5>1
        <5> QED
          BY <5>2, <5>3, <5>4, <5>5, <5>6
      <4> QED
        BY <4>1, <4>2
    <3> QED
      BY <3>1 DEF Fields
  <2>5. CASE Exit
    <3>1. db' = db \/ \E v : db' = [db EXCEPT !["conns"] = v]
      BY <2>5 DEF Exit, RefuseSource
    <3> QED
      BY <3>1 DEF Fields
  <2>6. CASE ObjectEntry
    <3>1. db' = db \/ \E v : db' = [db EXCEPT !["objects"] = v]
      BY <2>6 DEF ObjectEntry, RefuseSource
    <3> QED
      BY <3>1 DEF Fields
  <2> QED
    BY <2>1, <2>2, <2>3, <2>4, <2>5, <2>6 DEF SectionsNext
<1>3. ASSUME NEW f \in Fields \ {"processes", "user", "system"}, NEW v, db' = [db EXCEPT ![f] = v]
      PROVE  /\ DOMAIN db' = DOMAIN db
             /\ db'.processes = db.processes /\ db'.user = db.user /\ db'.system = db.system
  BY <1>3 DEF SourceOK, Fields
<1>4. ASSUME NEW f \in {"user", "system"}, NEW e, db' = [db EXCEPT ![f] = Append(db[f], e)]
      PROVE  /\ DOMAIN db' = DOMAIN db /\ db'.processes = db.processes
             /\ Extends(db'.user, db.user) /\ Extends(db'.system, db.system)
             /\ IsList(db'.user) /\ IsList(db'.system)
  <2>1. IsList(db[f])
    BY DEF SourceOK
  <2>2. DOMAIN db' = DOMAIN db /\ \A g \in Fields : db'[g] = IF g = f THEN Append(db[f], e) ELSE db[g]
    BY <1>4 DEF SourceOK
  <2>3. db'.processes = db.processes
    BY <2>2 DEF Fields
  <2>4. \A g \in {"user", "system"} : Extends(db'[g], db[g]) /\ IsList(db'[g])
    <3>1. Extends(Append(db[f], e), db[f]) /\ IsList(Append(db[f], e))
      BY <2>1, AppendExtends, ListAppend
    <3>2. \A g \in {"user", "system"} : Extends(db[g], db[g]) /\ IsList(db[g])
      BY AppendExtends DEF SourceOK
    <3> QED
      BY <2>2, <3>1, <3>2 DEF Fields
  <2> QED
    BY <2>2, <2>3, <2>4
<1>5. Extends(db.user, db.user) /\ Extends(db.system, db.system)
  BY AppendExtends DEF SourceOK
<1>6. /\ DOMAIN db' = DOMAIN db /\ db'.processes = db.processes
      /\ Extends(db'.user, db.user) /\ Extends(db'.system, db.system)
      /\ IsList(db'.user) /\ IsList(db'.system)
  <2>1. CASE db' = db
    BY <1>5, <2>1 DEF SourceOK
  <2>2. CASE \E f \in Fields \ {"processes", "user", "system"} : \E v : db' = [db EXCEPT ![f] = v]
    BY <1>3, <1>5, <2>2 DEF SourceOK
  <2>3. CASE \E e : db' = [db EXCEPT !["system"] = Append(db.system, e)]
    BY <1>4, <2>3
  <2>4. CASE \E e : db' = [db EXCEPT !["user"] = Append(db.user, e)]
    BY <1>4, <2>4
  <2> QED
    BY <1>2, <2>1, <2>2, <2>3, <2>4
<1>7. cursor' \in 0..Len(out)
  BY <1>1 DEF SourceOK
<1> QED
  BY <1>1, <1>6, <1>7 DEF SourceOK
-----------------------------------------------------------------------------
\* The blocks that are over, and the one being read.

TextIsFiled(c) ==
  (c.args # <<>> /\ c.args[1].written.is = "text") =>
     LET table == Existing(Condacts[c.op].literal)
     IN  /\ c.args[1].value + 1 \in DOMAIN table
         /\ table[c.args[1].value + 1] = c.args[1].written.text

AllBlocks == Append(blocks, block)

\* What waits for a label is a SKIP that names it.
Waiting(b, c) == {w \in Range(pending) : w.block = b /\ w.condact = c}

PendingOK ==
  \A w \in Range(pending) :
    /\ w.block \in DOMAIN AllBlocks
    /\ w.condact \in DOMAIN AllBlocks[w.block]
    /\ AllBlocks[w.block][w.condact].args # <<>>
    /\ AllBlocks[w.block][w.condact].args[1].written.is = "label"

TextsOK ==
  \A b \in DOMAIN AllBlocks : \A c \in DOMAIN AllBlocks[b] :
    \A k : k = AllBlocks[b][c] => TextIsFiled(k)

FilingOK == SourceOK /\ ProcessOK /\ PendingOK /\ TextsOK
FilingInv == (parsing = "reading" => FilingOK) /\ TextsAreFiled

LEMMA BlocksFacts ==
  ASSUME ProcessOK
  PROVE  /\ IsList(AllBlocks) /\ DOMAIN AllBlocks = 1..(Len(blocks) + 1)
         /\ Len(AllBlocks) = Len(blocks) + 1 /\ Len(blocks) \in Nat
         /\ \A b \in 1..Len(blocks) : AllBlocks[b] = blocks[b]
         /\ AllBlocks[Len(blocks) + 1] = block
         /\ \A b \in DOMAIN AllBlocks : BlockShape(AllBlocks[b])
<1>1. IsList(blocks) /\ BlockShape(block) /\ \A b \in DOMAIN blocks : BlockShape(blocks[b])
  BY DEF ProcessOK
<1> QED
  BY <1>1, ListAppend, ListFacts DEF AllBlocks

\* What is filed stays filed as the tables grow.
LEMMA TextStaysFiled ==
  ASSUME NEW c, NEW user, NEW system, user = db.user, system = db.system,
         Extends(db'.user, user), Extends(db'.system, system), TextIsFiled(c)
  PROVE  TextIsFiled(c)'
BY DEF TextIsFiled, Existing, Extends

LEMMA Refused ==
  ASSUME RefuseProcess
  PROVE  parsing' = "refused" /\ UNCHANGED <<db, processVars>>
BY DEF RefuseProcess, RefuseSource

\* What an operand that is a text or a label is worth.
LEMMA OperandOfText ==
  ASSUME NEW def, NEW kind, NEW arg, arg.is = "text"
  PROVE  OperandValue(def, kind, arg) = TextNumber(def.literal)
BY DEF OperandValue

LEMMA OperandOfLabel ==
  ASSUME NEW def, NEW kind, NEW arg, arg.is = "label", IsOperand(def, kind, arg)
  PROVE  /\ def.skip
         /\ arg.name \in DOMAIN labels =>
              /\ CanJump(process, Len(entries), labels[arg.name])
              /\ OperandValue(def, kind, arg) = JumpTo(Len(entries), labels[arg.name])
<1>1. def.skip /\ (arg.name \in DOMAIN labels => CanJump(process, Len(entries), labels[arg.name]))
  BY DEF IsOperand
<1>2. OperandValue(def, kind, arg) = IF arg.name \in DOMAIN labels
                                    THEN JumpTo(Len(entries), labels[arg.name]) ELSE 0
  BY DEF OperandValue
<1> QED
  BY <1>1, <1>2

\* The condact a line writes, and what waits for its label.
LEMMA CondactWritten ==
  ASSUME SourceOK, ProcessOK, Condact, parsing' # "refused", out' = out
  PROVE  \E k :
    LET name == k.args[1].written.name
        names == k.args # <<>> /\ k.args[1].written.is = "label"
    IN
    /\ block' = Append(block, k) /\ CondactShape(k) /\ TextIsFiled(k)'
    /\ k.line = cursor
    /\ IsList(db'.user) /\ IsList(db'.system)
    /\ Extends(db'.user, db.user) /\ Extends(db'.system, db.system)
    /\ DOMAIN db' = DOMAIN db /\ db'.processes = db.processes
    /\ mode # "between" /\ mode' = "block" /\ process >= 0
    /\ UNCHANGED <<parsing, process, opened, entries, heads, blocks, labels>>
    /\ names /\ name \in DOMAIN labels =>
         CanJump(process, Len(entries), labels[name])
           /\ k.args[1].value = JumpTo(Len(entries), labels[name])
    /\ IF names /\ name \notin DOMAIN labels
       THEN pending' = Append(pending,
              [name |-> name, process |-> process, from |-> Len(entries),
               block |-> Len(blocks) + 1, condact |-> Len(block) + 1])
       ELSE pending' = pending
<1>1. line \in Lines /\ line.is = "condact" /\ ~SourceEnds
  <2>1. line.is = "condact" /\ ~SourceEnds
    BY DEF Condact, InProcess, InProcesses, Walks
  <2>2. cursor + 1 \in DOMAIN out
    BY <2>1 DEF SourceOK, SourceEnds
  <2> QED
    BY <2>1, <2>2 DEF SourceOK, line
<1>2. ~RefuseProcess
  BY Refused
<1>3. PICK op, args, def : op = line.op /\ args = line.args /\ def = Condacts[line.op]
  OBVIOUS
<1> DEFINE V(i) == OperandValue(def, def.params[i], args[i])
<1>4. PICK value, k :
        /\ value = [i \in DOMAIN args |-> V(i)]
        /\ k = [op |-> op, line |-> cursor, args |->
                  [i \in DOMAIN args |-> [value |-> value[i], indirect |-> args[i].indirect,
                                          written |-> args[i]]]]
  OBVIOUS
<1>5. /\ op \in DOMAIN Condacts /\ def = Condacts[op]
      /\ Len(args) = Len(def.params)
      /\ \A i \in DOMAIN args : IsOperand(def, def.params[i], args[i])
      /\ block' = Append(block, k)
      /\ db' = IF args # <<>> /\ args[1].is = "text"
               THEN IF def.literal = "user"
                    THEN [db EXCEPT !.user = Append(@, args[1].text)]
                    ELSE [db EXCEPT !.system = Append(@, args[1].text)]
               ELSE db
      /\ pending' = IF args # <<>> /\ args[1].is = "label" /\ args[1].name \notin DOMAIN labels
                    THEN Append(pending,
                           [name |-> args[1].name, process |-> process,
                            from |-> Len(entries), block |-> Len(blocks) + 1,
                            condact |-> Len(block) + 1])
                    ELSE pending
      /\ mode # "between" /\ mode' = "block" /\ process >= 0
      /\ UNCHANGED <<parsing, process, opened, entries, heads, blocks, labels>>
  <2>1. /\ op \in DOMAIN Condacts
        /\ Len(args) = Len(def.params)
        /\ \A i \in DOMAIN args : IsOperand(def, def.params[i], args[i])
        /\ block' = Append(block, [op |-> op, line |-> cursor, args |->
                      [i \in DOMAIN args |->
                         [value |-> V(i), indirect |-> args[i].indirect, written |-> args[i]]]])
        /\ db' = IF args # <<>> /\ args[1].is = "text"
               THEN IF def.literal = "user"
                    THEN [db EXCEPT !.user = Append(@, args[1].text)]
                    ELSE [db EXCEPT !.system = Append(@, args[1].text)]
               ELSE db
        /\ pending' = IF args # <<>> /\ args[1].is = "label" /\ args[1].name \notin DOMAIN labels
                    THEN Append(pending,
                           [name |-> args[1].name, process |-> process,
                            from |-> Len(entries), block |-> Len(blocks) + 1,
                            condact |-> Len(block) + 1])
                    ELSE pending
        /\ mode # "between" /\ mode' = "block" /\ process >= 0
        /\ UNCHANGED <<parsing, process, opened, entries, heads, blocks, labels>>
    BY <1>2, <1>3, Zenon DEF Condact, InProcess
  <2>2. k = [op |-> op, line |-> cursor, args |->
               [i \in DOMAIN args |->
                  [value |-> V(i), indirect |-> args[i].indirect, written |-> args[i]]]]
    BY <1>4
  <2> HIDE DEF V
  <2> QED
    BY <1>3, <2>1, <2>2, Zenon
<1>6. args \in Seq(Range(args)) /\ (def.skip => args # <<>>)
  <2>1. args \in Seq(Range(args))
    BY <1>1, <1>3, ProcessesAssumption
  <2>2. def.skip => Len(args) >= 1
    BY <1>5, ProcessesAssumption
  <2> QED
    BY <2>1, <2>2
<1>7. IsList(args) /\ (args # <<>> => 1 \in DOMAIN args)
  BY <1>6, ListFacts DEF IsList
<1>8. /\ k.op = op /\ k.line = cursor /\ DOMAIN k.args = DOMAIN args
      /\ \A i \in DOMAIN args :
           /\ k.args[i] = [value |-> value[i], indirect |-> args[i].indirect, written |-> args[i]]
           /\ value[i] = V(i)
      /\ k = [op |-> k.op, line |-> k.line, args |-> k.args]
      /\ k.args = [i \in DOMAIN args |-> k.args[i]]
  BY <1>4
<1> HIDE DEF V
<1>9. IsList(k.args) /\ (k.args # <<>> <=> args # <<>>)
  <2>1. DOMAIN args = 1..Len(args) /\ Len(args) \in Nat
    BY <1>7, ListFacts
  <2>2. IsList(k.args) /\ Len(k.args) = Len(args)
    BY <1>8, <2>1, ListMade
  <2> QED
    BY <1>7, <2>2, ListFacts
<1>10. \A i \in DOMAIN args : /\ k.args[i].written = args[i] /\ k.args[i].value = value[i]
                             /\ k.args[i] = [value |-> k.args[i].value,
                                            indirect |-> k.args[i].indirect,
                                            written |-> k.args[i].written]
  <2> TAKE i \in DOMAIN args
  <2>1. k.args[i] = [value |-> value[i], indirect |-> args[i].indirect, written |-> args[i]]
    BY <1>8
  <2> QED
    BY <2>1
<1>11. CondactShape(k)
  BY <1>5, <1>6, <1>8, <1>9, <1>10 DEF CondactShape
<1>12. args # <<>> => k.args[1].written = args[1] /\ k.args[1].value = V(1)
                       /\ IsOperand(def, def.params[1], args[1])
  BY <1>5, <1>7, <1>8, <1>10
<1>13. /\ IsList(db'.user) /\ IsList(db'.system)
       /\ Extends(db'.user, db.user) /\ Extends(db'.system, db.system)
       /\ DOMAIN db' = DOMAIN db /\ db'.processes = db.processes
       /\ TextIsFiled(k)'
  <2>1. IsList(db.user) /\ IsList(db.system)
        /\ "user" \in DOMAIN db /\ "system" \in DOMAIN db /\ "processes" \in DOMAIN db
    BY DEF SourceOK, Fields
  <2>2. CASE ~(args # <<>> /\ args[1].is = "text")
    <3>1. db' = db
      BY <1>5, <2>2
    <3>2. TextIsFiled(k)'
      BY <1>9, <1>12, <2>2 DEF TextIsFiled
    <3> QED
      BY <2>1, <3>1, <3>2, AppendExtends
  <2>3. CASE args # <<>> /\ args[1].is = "text" /\ def.literal = "user"
    <3>1. db' = [db EXCEPT !["user"] = Append(db.user, args[1].text)]
      BY <1>5, <2>3
    <3>2. /\ db'.user = Append(db.user, args[1].text) /\ db'.system = db.system
          /\ DOMAIN db' = DOMAIN db /\ db'.processes = db.processes
      BY <2>1, <3>1
    <3>3. k.args[1].value = Len(db.user)
      BY <1>12, <2>3, OperandOfText DEF V, TextNumber, Existing
    <3>4. /\ Len(db.user) + 1 \in DOMAIN db'.user
          /\ db'.user[Len(db.user) + 1] = args[1].text
      BY <2>1, <3>2, ListAppend, ListFacts
    <3>5. Condacts[k.op].literal = "user"
      BY <1>5, <1>8, <2>3
    <3>6. TextIsFiled(k)'
      BY <1>12, <2>3, <3>3, <3>4, <3>5 DEF TextIsFiled, Existing
    <3> QED
      BY <2>1, <3>2, <3>6, AppendExtends, ListAppend
  <2>4. CASE args # <<>> /\ args[1].is = "text" /\ def.literal # "user"
    <3>1. db' = [db EXCEPT !["system"] = Append(db.system, args[1].text)]
      BY <1>5, <2>4
    <3>2. /\ db'.system = Append(db.system, args[1].text) /\ db'.user = db.user
          /\ DOMAIN db' = DOMAIN db /\ db'.processes = db.processes
      BY <2>1, <3>1
    <3>3. k.args[1].value = Len(db.system)
      BY <1>12, <2>4, OperandOfText DEF V, TextNumber, Existing
    <3>4. /\ Len(db.system) + 1 \in DOMAIN db'.system
          /\ db'.system[Len(db.system) + 1] = args[1].text
      BY <2>1, <3>2, ListAppend, ListFacts
    <3>5. Condacts[k.op].literal # "user"
      BY <1>5, <1>8, <2>4
    <3>6. TextIsFiled(k)'
      BY <1>12, <2>4, <3>3, <3>4, <3>5 DEF TextIsFiled, Existing
    <3> QED
      BY <2>1, <3>2, <3>6, AppendExtends, ListAppend
  <2> QED
    BY <2>2, <2>3, <2>4
<1>14. args # <<>> /\ args[1].is = "label" =>
         /\ def.skip
         /\ args[1].name \in DOMAIN labels =>
              /\ CanJump(process, Len(entries), labels[args[1].name])
              /\ k.args[1].value = JumpTo(Len(entries), labels[args[1].name])
  BY <1>12, OperandOfLabel DEF V
<1>15. PICK name, names : /\ name = k.args[1].written.name
                          /\ names = (k.args # <<>> /\ k.args[1].written.is = "label")
  OBVIOUS
<1>16. /\ names <=> args # <<>> /\ args[1].is = "label"
       /\ names => name = args[1].name
  BY <1>9, <1>12, <1>15
<1>17. /\ names /\ name \in DOMAIN labels =>
            CanJump(process, Len(entries), labels[name])
              /\ k.args[1].value = JumpTo(Len(entries), labels[name])
  BY <1>14, <1>16
<1>18. IF names /\ name \notin DOMAIN labels
       THEN pending' = Append(pending,
              [name |-> name, process |-> process, from |-> Len(entries),
               block |-> Len(blocks) + 1, condact |-> Len(block) + 1])
       ELSE pending' = pending
  BY <1>5, <1>16
<1>19. block' = Append(block, k) /\ k.line = cursor
  BY <1>5, <1>8
<1>20. /\ mode # "between" /\ mode' = "block" /\ process >= 0
       /\ UNCHANGED <<parsing, process, opened, entries, heads, blocks, labels>>
  BY <1>5
<1> QED
  BY <1>11, <1>13, <1>15, <1>17, <1>18, <1>19, <1>20, Zenon
-----------------------------------------------------------------------------
\* What is filed of the process being read.

LEMMA GroupedFacts ==
  ASSUME ProcessOK
  PROVE  /\ IsList(Grouped)
         /\ Len(Grouped) = Len(entries) + Len(heads)
         /\ Len(entries) \in Nat /\ Len(heads) \in Nat
         /\ \A i \in 1..Len(entries) : Grouped[i] = entries[i]
         /\ \A i \in (Len(entries) + 1)..(Len(entries) + Len(heads)) :
              Grouped[i] = [verb |-> heads[i - Len(entries)].verb,
                            noun |-> heads[i - Len(entries)].noun,
                            line |-> heads[i - Len(entries)].line, block |-> Len(blocks) + 1]
<1>1. IsList(entries) /\ IsList(heads)
  BY DEF ProcessOK
<1>2. Len(entries) \in Nat /\ Len(heads) \in Nat /\ DOMAIN heads = 1..Len(heads)
  BY <1>1, ListFacts
<1>3. CASE mode = "between"
  <2>1. heads = <<>> /\ Len(heads) = 0
    BY <1>3, EmptyList DEF ProcessOK
  <2>2. Grouped = entries
    BY <1>3 DEF Grouped
  <2> QED
    BY <1>1, <1>2, <2>1, <2>2
<1>4. CASE mode # "between"
  <2> DEFINE g == [i \in DOMAIN heads |->
                     [verb |-> heads[i].verb, noun |-> heads[i].noun, line |-> heads[i].line,
                      block |-> Len(blocks) + 1]]
  <2>1. IsList(g) /\ Len(g) = Len(heads)
    BY <1>2, ListMade
  <2>2. Grouped = entries \o g
    BY <1>4 DEF Grouped
  <2>3. \A i \in 1..Len(heads) :
          g[i] = [verb |-> heads[i].verb, noun |-> heads[i].noun, line |-> heads[i].line,
                  block |-> Len(blocks) + 1]
    BY <1>2
  <2> HIDE DEF g
  <2>4. /\ IsList(Grouped) /\ Len(Grouped) = Len(entries) + Len(heads)
        /\ \A i \in 1..(Len(entries) + Len(heads)) :
             Grouped[i] = IF i <= Len(entries) THEN entries[i] ELSE g[i - Len(entries)]
    BY <1>1, <2>1, <2>2, ListConcat
  <2>5. ASSUME NEW i \in (Len(entries) + 1)..(Len(entries) + Len(heads))
        PROVE  Grouped[i] = g[i - Len(entries)] /\ i - Len(entries) \in 1..Len(heads)
    BY <1>2, <2>4
  <2> QED
    BY <1>2, <2>3, <2>4, <2>5
<1> QED
  BY <1>3, <1>4

LEMMA SameList ==
  ASSUME NEW s, IsList(s), NEW t, IsList(t), NEW e,
         Len(t) = Len(s) + 1, \A i \in 1..Len(s) : t[i] = s[i], t[Len(s) + 1] = e
  PROVE  t = Append(s, e)
<1>1. PICK S : s \in Seq(S)
  BY DEF IsList
<1>2. PICK T : t \in Seq(T)
  BY DEF IsList
<1>3. PICK A : A = S \cup T \cup {e}
  OBVIOUS
<1>4. s \in Seq(A) /\ t \in Seq(A) /\ e \in A
  BY <1>1, <1>2, <1>3
<1>5. Append(s, e) \in Seq(A) /\ Len(Append(s, e)) = Len(s) + 1
  BY <1>4
<1>6. ASSUME NEW i \in 1..Len(t)
      PROVE  t[i] = Append(s, e)[i]
  <2>1. i \in 1..Len(s) \/ i = Len(s) + 1
    BY <1>4
  <2> QED
    BY <1>4, <2>1
<1> QED
  BY <1>4, <1>5, <1>6, SeqEqual

LEMMA ConcatAppend ==
  ASSUME NEW s, IsList(s), NEW t, IsList(t), NEW e
  PROVE  s \o Append(t, e) = Append(s \o t, e)
<1>1. PICK S : s \in Seq(S)
  BY DEF IsList
<1>2. PICK T : t \in Seq(T)
  BY DEF IsList
<1>3. PICK A : A = S \cup T \cup {e}
  OBVIOUS
<1>4. s \in Seq(A) /\ t \in Seq(A) /\ e \in A
  BY <1>1, <1>2, <1>3
<1> QED
  BY <1>4

LEMMA ConcatOne ==
  ASSUME NEW s, IsList(s), NEW e
  PROVE  s \o <<e>> = Append(s, e)
<1>1. PICK S : s \in Seq(S)
  BY DEF IsList
<1>2. s \in Seq(S \cup {e}) /\ <<e>> \in Seq(S \cup {e})
  BY <1>1
<1> QED
  BY <1>2

LEMMA EmptyConcat ==
  ASSUME NEW s, IsList(s)
  PROVE  s \o <<>> = s /\ <<>> \o s = s
<1>1. PICK S : s \in Seq(S)
  BY DEF IsList
<1> QED
  BY <1>1

\* A list that may be shorter: what is not there yet is empty.
WasAt(all, i) == IF i \in DOMAIN all THEN all[i] ELSE <<>>

\* Of a list of processes, all but the one that goes on stay as they are.
LEMMA NewLegacyFacts ==
  ASSUME NEW all, IsList(all), \A p \in DOMAIN all : IsList(all[p]),
         NEW number \in Nat, NEW more, IsList(more)
  PROVE  LET filed == NewLegacy(all, number, more)
         IN  /\ IsList(filed) /\ number + 1 \in DOMAIN filed
             /\ \A i \in DOMAIN filed : IsList(filed[i])
             /\ DOMAIN all \subseteq DOMAIN filed
             /\ filed[number + 1] = WasAt(all, number + 1) \o more
             /\ \A i \in DOMAIN filed : i # number + 1 => filed[i] = WasAt(all, i)
<1> DEFINE n == IF number + 1 > Len(all) THEN number + 1 ELSE Len(all)
           filed == NewLegacy(all, number, more)
<1>1. Len(all) \in Nat /\ DOMAIN all = 1..Len(all)
  BY ListFacts
<1>2. n \in Nat /\ number + 1 \in 1..n /\ DOMAIN all \subseteq 1..n
  BY <1>1
<1>3. filed = [i \in 1..n |-> (IF i <= Len(all) THEN all[i] ELSE <<>>)
                               \o (IF i = number + 1 THEN more ELSE <<>>)]
  BY DEF NewLegacy
<1> HIDE DEF n, filed
<1>4. IsList(filed) /\ DOMAIN filed = 1..n
  BY <1>2, <1>3, ListMade
<1>5. \A i \in 1..n : IsList(WasAt(all, i))
  BY EmptyList DEF WasAt
<1>6. filed[number + 1] = WasAt(all, number + 1) \o more
  BY <1>1, <1>2, <1>3 DEF WasAt
<1>7. ASSUME NEW i \in 1..n, i # number + 1
      PROVE  filed[i] = WasAt(all, i)
  <2>1. filed[i] = WasAt(all, i) \o <<>>
    BY <1>1, <1>3, <1>7 DEF WasAt
  <2> QED
    BY <1>5, <2>1, EmptyConcat
<1>8. \A i \in 1..n : IsList(filed[i])
  <2>1. IsList(filed[number + 1])
    BY <1>2, <1>5, <1>6, ListConcat
  <2> QED
    BY <1>5, <1>7, <2>1
<1> QED
  BY <1>2, <1>4, <1>6, <1>7, <1>8 DEF filed
-----------------------------------------------------------------------------
\* Filing: the processes as the parser reads them.

LEMMA FiledKeeps ==
  ASSUME SourceOK, ProcessOK, db' = [db EXCEPT !.processes = FiledProcesses]
  PROVE  /\ DOMAIN db' = DOMAIN db /\ db'.processes = FiledProcesses
         /\ IsList(db'.processes) /\ \A p \in DOMAIN db'.processes : IsList(db'.processes[p])
         /\ db'.user = db.user /\ db'.system = db.system
<1>1. /\ DOMAIN db' = DOMAIN db /\ db'.processes = FiledProcesses
      /\ db'.user = db.user /\ db'.system = db.system
  BY DEF SourceOK, Fields
<1>2. IsList(db.processes) /\ \A p \in DOMAIN db.processes : IsList(db.processes[p])
  BY DEF SourceOK
<1>3. CASE process < 0
  BY <1>1, <1>2, <1>3 DEF FiledProcesses
<1>4. CASE ~(process < 0)
  <2>0. process \in -1..MaxProcess
    BY DEF ProcessOK
  <2>1. process \in Nat
    BY <1>4, <2>0 DEF MaxProcess
  <2>2. FiledProcesses = NewLegacy(db.processes, process, Grouped)
    BY <1>4 DEF FiledProcesses
  <2>3. IsList(Grouped)
    BY GroupedFacts
  <2> QED
    BY <1>1, <1>2, <2>1, <2>2, <2>3, NewLegacyFacts
<1> QED
  BY <1>3, <1>4

\* A group that is over leaves its block, and begins the next with an empty one.
LEMMA BlocksGoOn ==
  ASSUME ProcessOK, blocks' = Blocked, block' = <<>>
  PROVE  /\ IsList(blocks') /\ \A b \in DOMAIN blocks' : BlockShape(blocks'[b])
         /\ BlockShape(<<>>)
         /\ IsList(AllBlocks')
         /\ Len(blocks') = IF mode = "between" THEN Len(blocks) ELSE Len(blocks) + 1
         /\ \A b \in DOMAIN AllBlocks : b \in DOMAIN AllBlocks' /\ AllBlocks'[b] = AllBlocks[b]
         /\ \A b \in DOMAIN AllBlocks' : b \notin DOMAIN AllBlocks => AllBlocks'[b] = <<>>
<1>1. /\ IsList(blocks) /\ \A b \in DOMAIN blocks : BlockShape(blocks[b])
      /\ BlockShape(block) /\ IsList(AllBlocks)
      /\ mode = "between" => block = <<>>
  BY BlocksFacts DEF ProcessOK
<1>2. BlockShape(<<>>)
  BY EmptyList DEF BlockShape
<1>3. AllBlocks' = Append(blocks', <<>>)
  BY DEF AllBlocks
<1>4. CASE mode = "between"
  <2>1. blocks' = blocks /\ AllBlocks' = AllBlocks
    BY <1>1, <1>4 DEF Blocked, AllBlocks
  <2> QED
    BY <1>1, <1>2, <1>4, <2>1
<1>5. CASE mode # "between"
  <2>1. blocks' = AllBlocks /\ AllBlocks' = Append(AllBlocks, <<>>)
    BY <1>3, <1>5 DEF Blocked, AllBlocks
  <2>2. Len(AllBlocks) = Len(blocks) + 1
    BY BlocksFacts
  <2>3. \A b \in DOMAIN AllBlocks : BlockShape(AllBlocks[b])
    BY BlocksFacts
  <2>4. /\ IsList(AllBlocks')
        /\ \A b \in DOMAIN AllBlocks : b \in DOMAIN AllBlocks' /\ AllBlocks'[b] = AllBlocks[b]
        /\ \A b \in DOMAIN AllBlocks' : b \notin DOMAIN AllBlocks => AllBlocks'[b] = <<>>
    BY <1>1, <2>1, ListAppend, ListFacts
  <2> QED
    BY <1>1, <1>2, <1>5, <2>1, <2>2, <2>3, <2>4
<1> QED
  BY <1>4, <1>5

\* Blocks that only go on keep what waits, and what has been filed.
LEMMA FilingGoesOn ==
  ASSUME ProcessOK, PendingOK, TextsOK, pending' = pending,
         \A b \in DOMAIN AllBlocks : b \in DOMAIN AllBlocks' /\ AllBlocks'[b] = AllBlocks[b],
         \A b \in DOMAIN AllBlocks' : b \notin DOMAIN AllBlocks => AllBlocks'[b] = <<>>,
         Extends(db'.user, db.user), Extends(db'.system, db.system)
  PROVE  PendingOK' /\ TextsOK'
<1>1. PendingOK'
  BY DEF PendingOK
<1>2. ASSUME NEW b \in DOMAIN AllBlocks', NEW c \in DOMAIN AllBlocks'[b],
             NEW k, k = AllBlocks'[b][c]
      PROVE  TextIsFiled(k)'
  <2>1. b \in DOMAIN AllBlocks /\ AllBlocks'[b] = AllBlocks[b]
    BY <1>2, EmptyList
  <2>2. TextIsFiled(k)
    BY <1>2, <2>1 DEF TextsOK
  <2> QED
    BY <2>2, TextStaysFiled
<1>3. TextsOK'
  BY <1>2 DEF TextsOK
<1> QED
  BY <1>1, <1>3

\* A line that is read moves the cursor within the source.
LEMMA CursorStays ==
  ASSUME SourceOK, out' = out, cursor' = cursor \/ (cursor' = cursor + 1 /\ ~SourceEnds)
  PROVE  cursor' \in 0..Len(out') /\ cursor' >= cursor
<1>1. Len(out) \in Nat /\ cursor \in 0..Len(out)
  BY DEF SourceOK
<1> QED
  BY <1>1 DEF SourceEnds

LEMMA PreprocessorFiles ==
  ASSUME SourceOK, PreprocessorNext, UNCHANGED <<sectionVars, processVars>>
  PROVE  SourceOK'
<1>1. out' = out \/ \E l \in Lines : out' = Append(out, l)
  BY DEF PreprocessorNext, EndOfSource, ReadLine, Include, EndOfInclude, Through, Define, If, Else,
     Endif, Request, SkipDead, Refuse
<1>2. out' \in Seq(Lines) /\ Len(out') >= Len(out)
  BY <1>1 DEF SourceOK
<1>3. UNCHANGED <<cursor, db>>
  BY DEF sectionVars
<1> QED
  BY <1>2, <1>3 DEF SourceOK

LEMMA SectionsFile ==
  ASSUME FilingOK, SectionsNext, out' = out, UNCHANGED processVars
  PROVE  FilingOK'
<1>1. SourceOK /\ ProcessOK /\ PendingOK /\ TextsOK
  BY DEF FilingOK
<1>2. SourceOK' /\ Extends(db'.user, db.user) /\ Extends(db'.system, db.system)
  BY <1>1, SectionsKeep
<1>3. ProcessOK' /\ AllBlocks' = AllBlocks /\ pending' = pending
  BY <1>1 DEF ProcessOK, processVars, AllBlocks
<1>4. PendingOK' /\ TextsOK'
  BY <1>1, <1>2, <1>3, FilingGoesOn
<1> QED
  BY <1>2, <1>3, <1>4 DEF FilingOK

\* What /PRO leaves when it does not refuse the source.
LEMMA ProcessOpened ==
  ASSUME OpenProcess, ~RefuseProcess
  PROVE  /\ process' \in 0..MaxProcess
         /\ db' = [db EXCEPT !.processes = FiledProcesses]
         /\ opened' = Append(opened, process')
         /\ blocks' = Blocked
         /\ mode' = "between" /\ entries' = <<>> /\ heads' = <<>> /\ block' = <<>>
         /\ labels' = labels /\ pending' = pending
         /\ cursor' = cursor + 1 /\ ~SourceEnds
<1>1. /\ IsByte(line.number) /\ ByteValue(line.number) <= MaxProcess
      /\ process' = ByteValue(line.number)
  BY DEF OpenProcess
<1>2. process' \in 0..255
  BY <1>1 DEF IsByte, ByteValue
<1>3. process' \in 0..MaxProcess
  BY <1>1, <1>2 DEF MaxProcess
<1> QED
  BY <1>3 DEF OpenProcess, InProcesses, Walks

LEMMA OpenProcessFiles ==
  ASSUME FilingOK, OpenProcess, ~RefuseProcess, out' = out
  PROVE  FilingOK'
<1>1. SourceOK /\ ProcessOK /\ PendingOK /\ TextsOK
  BY DEF FilingOK
<1>2. /\ process' \in 0..MaxProcess
      /\ opened' = Append(opened, process')
      /\ blocks' = Blocked /\ mode' = "between"
      /\ entries' = <<>> /\ heads' = <<>> /\ block' = <<>>
      /\ pending' = pending
  BY ProcessOpened
<1>3. /\ DOMAIN db' = DOMAIN db /\ db'.user = db.user /\ db'.system = db.system
      /\ IsList(db'.processes) /\ \A p \in DOMAIN db'.processes : IsList(db'.processes[p])
  BY <1>1, ProcessOpened, FiledKeeps
<1>4. cursor' \in 0..Len(out')
  BY <1>1, ProcessOpened, CursorStays
<1>5. SourceOK'
  BY <1>1, <1>3, <1>4 DEF SourceOK
<1>6. PendingOK' /\ TextsOK'
  <2>1. Extends(db'.user, db.user) /\ Extends(db'.system, db.system)
    BY <1>1, <1>3, AppendExtends DEF SourceOK
  <2> QED
    BY <1>1, <1>2, <2>1, BlocksGoOn, FilingGoesOn
<1>7. ProcessOK'
  <2>1. IsList(opened) /\ IsList(pending)
    BY <1>1 DEF ProcessOK
  <2>2. IsList(opened') /\ process' \in Range(opened')
    <3>1. IsList(opened') /\ Len(opened) + 1 \in DOMAIN opened' /\ opened'[Len(opened) + 1] = process'
      BY <1>2, <2>1, ListAppend, ListFacts
    <3> QED
      BY <3>1 DEF Range
  <2>3. IsList(blocks') /\ (\A b \in DOMAIN blocks' : BlockShape(blocks'[b])) /\ BlockShape(<<>>)
    BY <1>1, <1>2, BlocksGoOn
  <2>4. process' \in -1..MaxProcess
    BY <1>2 DEF MaxProcess
  <2> QED
    BY <1>2, <2>1, <2>2, <2>3, <2>4, EmptyList DEF ProcessOK
<1> QED
  BY <1>5, <1>6, <1>7 DEF FilingOK

LEMMA LabelFiles ==
  ASSUME FilingOK, DefineLabel, ~RefuseProcess, out' = out
  PROVE  FilingOK'
<1>1. SourceOK /\ ProcessOK /\ PendingOK /\ TextsOK
  BY DEF FilingOK
<1>2. /\ UNCHANGED <<db, process, opened, entries, heads, block, blocks, pending>>
      /\ mode' = (IF mode = "between" THEN mode ELSE "block")
      /\ cursor' = cursor + 1 /\ ~SourceEnds
  BY DEF DefineLabel, InProcess, InProcesses, Walks
<1>3. SourceOK'
  BY <1>1, <1>2, CursorStays DEF SourceOK
<1>4. ProcessOK' /\ AllBlocks' = AllBlocks
  BY <1>1, <1>2 DEF ProcessOK, AllBlocks
<1>5. PendingOK' /\ TextsOK'
  <2>1. Extends(db'.user, db.user) /\ Extends(db'.system, db.system)
    BY <1>1, <1>2, AppendExtends DEF SourceOK
  <2> QED
    BY <1>1, <1>2, <1>4, <2>1, FilingGoesOn
<1> QED
  BY <1>3, <1>4, <1>5 DEF FilingOK

\* What a head leaves when it does not refuse the source.
LEMMA HeadRead ==
  ASSUME EntryHead, ~RefuseProcess
  PROVE  /\ \E head : /\ head.line = cursor
                      /\ heads' = IF mode = "heads" THEN Append(heads, head) ELSE <<head>>
         /\ mode' = "heads"
         /\ mode = "heads" => UNCHANGED <<entries, blocks, block>>
         /\ mode # "heads" => entries' = Grouped /\ blocks' = Blocked /\ block' = <<>>
         /\ UNCHANGED <<db, parsing, process, opened, labels, pending>>
         /\ cursor' = cursor + 1 /\ ~SourceEnds /\ process >= 0
<1>1. PICK head : head = [verb |-> CHOOSE v \in EntryWord(line.verb, EntryVerbs) : TRUE,
                          noun |-> CHOOSE n \in EntryWord(line.noun, EntryNouns) : TRUE,
                          line |-> cursor]
  OBVIOUS
<1>2. heads' = IF mode = "heads" THEN Append(heads, head) ELSE <<head>>
  BY <1>1, Zenon DEF EntryHead
<1>3. head.line = cursor
  BY <1>1
<1>4. /\ mode' = "heads"
      /\ entries' = IF mode = "heads" THEN entries ELSE Grouped
      /\ blocks' = IF mode = "heads" THEN blocks ELSE Blocked
      /\ block' = IF mode = "heads" THEN block ELSE <<>>
      /\ UNCHANGED <<db, parsing, process, opened, labels, pending>>
      /\ cursor' = cursor + 1 /\ ~SourceEnds /\ process >= 0
  BY Zenon DEF EntryHead, InProcess, InProcesses, Walks
<1> QED
  BY <1>2, <1>3, <1>4

LEMMA HeadFiles ==
  ASSUME FilingOK, EntryHead, ~RefuseProcess, out' = out
  PROVE  FilingOK'
<1>1. SourceOK /\ ProcessOK /\ PendingOK /\ TextsOK
  BY DEF FilingOK
<1>2. PICK head : heads' = IF mode = "heads" THEN Append(heads, head) ELSE <<head>>
  BY HeadRead
<1>3. /\ mode' = "heads"
      /\ mode = "heads" => UNCHANGED <<entries, blocks, block>>
      /\ mode # "heads" => entries' = Grouped /\ blocks' = Blocked /\ block' = <<>>
      /\ UNCHANGED <<db, process, opened, pending>>
      /\ cursor' = cursor + 1 /\ ~SourceEnds
  BY HeadRead
<1>4. SourceOK'
  BY <1>1, <1>3, CursorStays DEF SourceOK
<1>5. Extends(db'.user, db.user) /\ Extends(db'.system, db.system)
  BY <1>1, <1>3, AppendExtends DEF SourceOK
<1>6. IsList(heads') /\ heads' # <<>>
  <2>1. IsList(heads)
    BY <1>1 DEF ProcessOK
  <2>2. IsList(Append(heads, head)) /\ Append(heads, head) # <<>>
    BY <2>1, ListAppend
  <2>3. <<head>> \in Seq({head}) /\ <<head>> # <<>>
    OBVIOUS
  <2> QED
    BY <1>2, <2>2, <2>3 DEF IsList
<1>7. IsList(Grouped)
  BY <1>1, GroupedFacts
<1>8. CASE mode = "heads"
  <2>1. ProcessOK' /\ AllBlocks' = AllBlocks
    BY <1>1, <1>3, <1>6, <1>8 DEF ProcessOK, AllBlocks
  <2>2. PendingOK' /\ TextsOK'
    BY <1>1, <1>3, <1>5, <2>1, FilingGoesOn
  <2> QED
    BY <1>4, <2>1, <2>2 DEF FilingOK
<1>9. CASE mode # "heads"
  <2>1. /\ IsList(blocks') /\ \A b \in DOMAIN blocks' : BlockShape(blocks'[b])
        /\ BlockShape(<<>>)
    BY <1>1, <1>3, <1>9, BlocksGoOn
  <2>2. PendingOK' /\ TextsOK'
    BY <1>1, <1>3, <1>5, <1>9, BlocksGoOn, FilingGoesOn
  <2>3. ProcessOK'
    BY <1>1, <1>3, <1>6, <1>7, <1>9, <2>1 DEF ProcessOK
  <2> QED
    BY <1>4, <2>2, <2>3 DEF FilingOK
<1> QED
  BY <1>8, <1>9

\* A condact goes at the end of the block being read, and the others stay.
LEMMA CondactBlocks ==
  ASSUME ProcessOK, NEW k, block' = Append(block, k), blocks' = blocks
  PROVE  /\ DOMAIN AllBlocks' = DOMAIN AllBlocks
         /\ \A b \in DOMAIN AllBlocks : b # Len(blocks) + 1 => AllBlocks'[b] = AllBlocks[b]
         /\ AllBlocks'[Len(blocks) + 1] = Append(block, k)
         /\ AllBlocks[Len(blocks) + 1] = block
         /\ DOMAIN Append(block, k) = 1..(Len(block) + 1) /\ DOMAIN block = 1..Len(block)
         /\ Len(block) \in Nat
         /\ \A c \in 1..Len(block) : Append(block, k)[c] = block[c]
         /\ Append(block, k)[Len(block) + 1] = k
<1>1. AllBlocks = Append(blocks, block) /\ AllBlocks' = Append(blocks, Append(block, k))
  BY DEF AllBlocks
<1>2. IsList(blocks) /\ IsList(block)
  BY DEF ProcessOK, BlockShape
<1>3. DOMAIN AllBlocks = 1..(Len(blocks) + 1) /\ DOMAIN AllBlocks' = 1..(Len(blocks) + 1)
  BY <1>1, <1>2, ListAppend
<1>4. Len(blocks) \in Nat /\ Len(block) \in Nat /\ DOMAIN block = 1..Len(block)
  BY <1>2, ListFacts
<1>5. ASSUME NEW b \in DOMAIN AllBlocks, b # Len(blocks) + 1
      PROVE  AllBlocks'[b] = AllBlocks[b]
  <2>1. b \in 1..Len(blocks)
    BY <1>3, <1>4, <1>5
  <2> QED
    BY <1>1, <1>2, <2>1, ListAppend
<1>6. AllBlocks'[Len(blocks) + 1] = Append(block, k) /\ AllBlocks[Len(blocks) + 1] = block
  BY <1>1, <1>2, ListAppend
<1>7. /\ DOMAIN Append(block, k) = 1..(Len(block) + 1)
      /\ \A c \in 1..Len(block) : Append(block, k)[c] = block[c]
      /\ Append(block, k)[Len(block) + 1] = k
  BY <1>2, ListAppend
<1> QED
  BY <1>3, <1>4, <1>5, <1>6, <1>7

LEMMA CondactFiles ==
  ASSUME FilingOK, Condact, parsing' # "refused", out' = out
  PROVE  FilingOK'
<1>1. SourceOK /\ ProcessOK /\ PendingOK /\ TextsOK
  BY DEF FilingOK
<1>2. PICK k :
        /\ block' = Append(block, k) /\ CondactShape(k) /\ TextIsFiled(k)'
        /\ IsList(db'.user) /\ IsList(db'.system)
        /\ Extends(db'.user, db.user) /\ Extends(db'.system, db.system)
        /\ DOMAIN db' = DOMAIN db /\ db'.processes = db.processes
        /\ mode # "between" /\ mode' = "block"
        /\ UNCHANGED <<process, opened, entries, heads, blocks>>
        /\ \/ pending' = pending
           \/ /\ k.args # <<>> /\ k.args[1].written.is = "label"
              /\ \E w : /\ pending' = Append(pending, w)
                        /\ w.block = Len(blocks) + 1 /\ w.condact = Len(block) + 1
  <2>1. PICK k :
          LET name == k.args[1].written.name
              names == k.args # <<>> /\ k.args[1].written.is = "label"
          IN
          /\ block' = Append(block, k) /\ CondactShape(k) /\ TextIsFiled(k)'
          /\ IsList(db'.user) /\ IsList(db'.system)
          /\ Extends(db'.user, db.user) /\ Extends(db'.system, db.system)
          /\ DOMAIN db' = DOMAIN db /\ db'.processes = db.processes
          /\ mode # "between" /\ mode' = "block"
          /\ UNCHANGED <<process, opened, entries, heads, blocks>>
          /\ IF names /\ name \notin DOMAIN labels
             THEN pending' = Append(pending,
                    [name |-> name, process |-> process, from |-> Len(entries),
                     block |-> Len(blocks) + 1, condact |-> Len(block) + 1])
             ELSE pending' = pending
    BY <1>1, CondactWritten, Zenon
  <2> QED
    BY <2>1
<1>3. SourceOK'
  <2>1. cursor' = cursor + 1 /\ ~SourceEnds
    BY DEF Condact, InProcess, InProcesses, Walks
  <2> QED
    BY <1>1, <1>2, <2>1, CursorStays DEF SourceOK
<1> DEFINE now == Len(blocks) + 1
<1>4. /\ DOMAIN AllBlocks' = DOMAIN AllBlocks
      /\ \A b \in DOMAIN AllBlocks : b # now => AllBlocks'[b] = AllBlocks[b]
      /\ AllBlocks'[now] = Append(block, k) /\ AllBlocks[now] = block
      /\ DOMAIN Append(block, k) = 1..(Len(block) + 1) /\ DOMAIN block = 1..Len(block)
      /\ Len(block) \in Nat
      /\ \A c \in 1..Len(block) : Append(block, k)[c] = block[c]
      /\ Append(block, k)[Len(block) + 1] = k
  BY <1>1, <1>2, CondactBlocks
<1>5. now \in DOMAIN AllBlocks
  BY <1>1, BlocksFacts
<1> HIDE DEF now
<1>6. ASSUME NEW b \in DOMAIN AllBlocks', NEW c \in DOMAIN AllBlocks'[b]
      PROVE  \/ b \in DOMAIN AllBlocks /\ c \in DOMAIN AllBlocks[b] /\ AllBlocks'[b][c] = AllBlocks[b][c]
             \/ b = now /\ c = Len(block) + 1 /\ AllBlocks'[b][c] = k
  BY <1>4, <1>6
<1>7. ASSUME NEW b \in DOMAIN AllBlocks, NEW c \in DOMAIN AllBlocks[b]
      PROVE  b \in DOMAIN AllBlocks' /\ c \in DOMAIN AllBlocks'[b] /\ AllBlocks'[b][c] = AllBlocks[b][c]
  BY <1>4, <1>7
<1>8. TextsOK'
  <2>1. ASSUME NEW b \in DOMAIN AllBlocks', NEW c \in DOMAIN AllBlocks'[b],
               NEW kk, kk = AllBlocks'[b][c]
        PROVE  TextIsFiled(kk)'
    <3>1. CASE b \in DOMAIN AllBlocks /\ c \in DOMAIN AllBlocks[b] /\ kk = AllBlocks[b][c]
      <4>1. TextIsFiled(kk)
        BY <1>1, <3>1 DEF TextsOK
      <4> QED
        BY <1>2, <4>1, TextStaysFiled
    <3>2. CASE kk = k
      BY <1>2, <3>2
    <3> QED
      BY <1>6, <2>1, <3>1, <3>2
  <2> QED
    BY <2>1 DEF TextsOK
<1>9. PendingOK'
  <2>1. ASSUME NEW w \in Range(pending)
        PROVE  /\ w.block \in DOMAIN AllBlocks' /\ w.condact \in DOMAIN AllBlocks'[w.block]
               /\ AllBlocks'[w.block][w.condact].args # <<>>
               /\ AllBlocks'[w.block][w.condact].args[1].written.is = "label"
    BY <1>1, <1>7 DEF PendingOK
  <2>2. CASE pending' = pending
    BY <2>1, <2>2 DEF PendingOK
  <2>3. ASSUME k.args # <<>>, k.args[1].written.is = "label", NEW w, pending' = Append(pending, w),
               w.block = now, w.condact = Len(block) + 1
        PROVE  PendingOK'
    <3>1. IsList(pending)
      BY <1>1 DEF ProcessOK
    <3>2. \A u \in Range(pending') : u \in Range(pending) \/ u = w
      BY <2>3, <3>1, ListAppend, ListFacts DEF Range
    <3>3. /\ w.block \in DOMAIN AllBlocks' /\ w.condact \in DOMAIN AllBlocks'[w.block]
          /\ AllBlocks'[w.block][w.condact].args # <<>>
          /\ AllBlocks'[w.block][w.condact].args[1].written.is = "label"
      BY <1>4, <1>5, <2>3
    <3> QED
      BY <2>1, <3>2, <3>3 DEF PendingOK
  <2> QED
    BY <1>2, <2>2, <2>3 DEF now
<1>10. ProcessOK'
  <2>1. BlockShape(block')
    <3>1. IsList(block)
      BY <1>1 DEF ProcessOK, BlockShape
    <3>2. IsList(block')
      BY <1>2, <3>1, ListAppend
    <3>3. ASSUME NEW c \in DOMAIN block'
          PROVE  CondactShape(block'[c])
      <4>1. c \in 1..Len(block) \/ c = Len(block) + 1
        BY <1>2, <1>4, <3>3
      <4>2. \A d \in DOMAIN block : CondactShape(block[d])
        BY <1>1 DEF ProcessOK, BlockShape
      <4> QED
        BY <1>2, <1>4, <4>1, <4>2
    <3> QED
      BY <3>2, <3>3 DEF BlockShape
  <2>2. IsList(pending')
    <3>1. IsList(pending)
      BY <1>1 DEF ProcessOK
    <3>2. \A w : IsList(Append(pending, w))
      BY <3>1, ListAppend
    <3> QED
      BY <1>2, <3>1, <3>2
  <2> QED
    BY <1>1, <1>2, <2>1, <2>2 DEF ProcessOK
<1> QED
  BY <1>3, <1>8, <1>9, <1>10 DEF FilingOK

-----------------------------------------------------------------------------
\* The end of the source, where what waits is filled in.

Patch(k, v) == [k EXCEPT !.args[1].value = v]

LEMMA Patched ==
  ASSUME NEW k, CondactShape(k), k.args # <<>>, NEW v
  PROVE  /\ Patch(k, v).op = k.op /\ Patch(k, v).args # <<>>
         /\ Patch(k, v).args[1].written = k.args[1].written /\ Patch(k, v).args[1].value = v
<1>0. PICK p : p = Patch(k, v)
  OBVIOUS
<1>1. k = [op |-> k.op, line |-> k.line, args |-> k.args]
  BY DEF CondactShape
<1>2. /\ DOMAIN k.args = 1..Len(k.args) /\ Len(k.args) \in Nat /\ Len(k.args) # 0
      /\ 1 \in DOMAIN k.args
  BY ListFacts DEF CondactShape
<1>3. k.args[1] = [value |-> k.args[1].value, indirect |-> k.args[1].indirect,
                   written |-> k.args[1].written]
  BY <1>2 DEF CondactShape
<1>4. PICK first, args : /\ first = [k.args[1] EXCEPT !.value = v]
                         /\ args = [k.args EXCEPT ![1] = first]
  OBVIOUS
<1>5. first.value = v /\ first.written = k.args[1].written
  BY <1>3, <1>4
<1>6. args[1] = first /\ DOMAIN args = DOMAIN k.args
  BY <1>2, <1>4
<1>7. p = [k EXCEPT !.args = args]
  BY <1>0, <1>4 DEF Patch
<1>8. p.op = k.op /\ p.args = args
  BY <1>1, <1>7
<1>9. args # <<>>
  BY <1>2, <1>6, EmptyList
<1> QED
  BY <1>0, <1>5, <1>6, <1>8, <1>9

LEMMA ResolvedFacts ==
  ASSUME ProcessOK, PendingOK, NEW all, all = Blocked, NEW filled, filled = Resolved(all)
  PROVE  /\ DOMAIN filled = DOMAIN all
         /\ \A b \in DOMAIN all :
              /\ b \in DOMAIN AllBlocks /\ all[b] = AllBlocks[b]
              /\ DOMAIN filled[b] = DOMAIN all[b]
         /\ \A b \in DOMAIN all : \A c \in DOMAIN all[b] :
              \/ Waiting(b, c) = {} /\ filled[b][c] = all[b][c]
              \/ /\ filled[b][c].op = all[b][c].op
                 /\ all[b][c].args # <<>> /\ filled[b][c].args # <<>>
                 /\ all[b][c].args[1].written.is = "label"
                 /\ filled[b][c].args[1].written = all[b][c].args[1].written
                 /\ \E w \in Waiting(b, c) : filled[b][c].args[1].value = JumpTo(w.from, labels[w.name])
<1>1. ASSUME NEW b \in DOMAIN all
      PROVE  b \in DOMAIN AllBlocks /\ all[b] = AllBlocks[b]
  <2>1. /\ DOMAIN AllBlocks = 1..(Len(blocks) + 1) /\ Len(blocks) \in Nat
        /\ \A d \in 1..Len(blocks) : AllBlocks[d] = blocks[d]
        /\ IsList(blocks)
    BY BlocksFacts DEF ProcessOK
  <2>2. CASE mode = "between"
    <3>1. all = blocks
      BY <2>2 DEF Blocked
    <3>2. b \in 1..Len(blocks)
      BY <1>1, <2>1, <3>1, ListFacts
    <3> QED
      BY <2>1, <3>1, <3>2
  <2>3. CASE mode # "between"
    BY <1>1, <2>3 DEF Blocked, AllBlocks
  <2> QED
    BY <2>2, <2>3
<1>2. DOMAIN filled = DOMAIN all /\ \A b \in DOMAIN all : DOMAIN filled[b] = DOMAIN all[b]
  BY DEF Resolved
<1>3. ASSUME NEW b \in DOMAIN all, NEW c \in DOMAIN all[b]
      PROVE  filled[b][c] = IF Waiting(b, c) = {} THEN all[b][c]
                            ELSE LET w == CHOOSE w \in Waiting(b, c) : TRUE
                                 IN  [all[b][c] EXCEPT !.args[1].value = JumpTo(w.from, labels[w.name])]
  BY <1>3, Zenon DEF Resolved, Waiting
<1>4. ASSUME NEW b \in DOMAIN all, NEW c \in DOMAIN all[b], Waiting(b, c) # {}
      PROVE  /\ filled[b][c].op = all[b][c].op
             /\ all[b][c].args # <<>> /\ filled[b][c].args # <<>>
             /\ all[b][c].args[1].written.is = "label"
             /\ filled[b][c].args[1].written = all[b][c].args[1].written
             /\ \E w \in Waiting(b, c) : filled[b][c].args[1].value = JumpTo(w.from, labels[w.name])
  <2> DEFINE w == CHOOSE w \in Waiting(b, c) : TRUE
             v == JumpTo(w.from, labels[w.name])
  <2>1. filled[b][c] = [all[b][c] EXCEPT !.args[1].value = v]
    BY <1>3, <1>4, Zenon
  <2>2. w \in Waiting(b, c)
    BY <1>4
  <2> HIDE DEF w
  <2>3. all[b][c].args # <<>> /\ all[b][c].args[1].written.is = "label"
    BY <1>1, <1>4, <2>2 DEF PendingOK, Waiting
  <2>4. CondactShape(all[b][c])
    BY <1>1, <1>4, BlocksFacts DEF BlockShape
  <2>5. filled[b][c].args[1].value = v
        /\ filled[b][c].op = all[b][c].op /\ filled[b][c].args # <<>>
        /\ filled[b][c].args[1].written = all[b][c].args[1].written
    <3> HIDE DEF v
    <3>1. filled[b][c] = Patch(all[b][c], v)
      BY <2>1, Zenon DEF Patch
    <3> QED
      BY <2>3, <2>4, <3>1, Patched
  <2> QED
    BY <2>2, <2>3, <2>5
<1>5. ASSUME NEW b \in DOMAIN all, NEW c \in DOMAIN all[b], Waiting(b, c) = {}
      PROVE  filled[b][c] = all[b][c]
  <2>1. {w \in Range(pending) : w.block = b /\ w.condact = c} = {}
    BY <1>5 DEF Waiting
  <2> QED
    BY <2>1 DEF Resolved
<1>6. ASSUME NEW b \in DOMAIN all, NEW c \in DOMAIN all[b]
      PROVE  \/ Waiting(b, c) = {} /\ filled[b][c] = all[b][c]
             \/ /\ filled[b][c].op = all[b][c].op
                /\ all[b][c].args # <<>> /\ filled[b][c].args # <<>>
                /\ all[b][c].args[1].written.is = "label"
                /\ filled[b][c].args[1].written = all[b][c].args[1].written
                /\ \E w \in Waiting(b, c) : filled[b][c].args[1].value = JumpTo(w.from, labels[w.name])
  <2>1. CASE Waiting(b, c) = {}
    BY <1>5, <1>6, <2>1
  <2>2. CASE Waiting(b, c) # {}
    BY <1>4, <1>6, <2>2
  <2> QED
    BY <2>1, <2>2
<1> QED
  BY <1>1, <1>2, <1>6

\* What /END leaves when it does not refuse the source.
LEMMA ProcessesEnded ==
  ASSUME EndOfProcesses, ~RefuseProcess
  PROVE  /\ \A i \in DOMAIN pending : Resolvable(pending[i])
         /\ db' = [db EXCEPT !.processes = FiledProcesses]
         /\ blocks' = Resolved(Blocked)
         /\ parsing' = "done"
         /\ UNCHANGED <<process, opened, labels>>
BY DEF EndOfProcesses

LEMMA EndFiles ==
  ASSUME FilingOK, EndOfProcesses, ~RefuseProcess
  PROVE  TextsAreFiled'
<1>1. SourceOK /\ ProcessOK /\ PendingOK /\ TextsOK
  BY DEF FilingOK
<1>2. db'.user = db.user /\ db'.system = db.system
  BY <1>1, ProcessesEnded, FiledKeeps
<1>3. Extends(db'.user, db.user) /\ Extends(db'.system, db.system)
  BY <1>1, <1>2, AppendExtends DEF SourceOK
<1>4. PICK all : all = Blocked
  OBVIOUS
<1>5. blocks' = Resolved(all)
  BY <1>4, ProcessesEnded
<1>6. ASSUME NEW b \in DOMAIN blocks', NEW c \in DOMAIN blocks'[b], NEW k, k = blocks'[b][c]
      PROVE  TextIsFiled(k)'
  <2>1. /\ b \in DOMAIN AllBlocks /\ c \in DOMAIN AllBlocks[b]
        /\ \/ k = AllBlocks[b][c]
           \/ /\ k.args[1].written = AllBlocks[b][c].args[1].written
              /\ AllBlocks[b][c].args[1].written.is = "label"
    BY <1>1, <1>4, <1>5, <1>6, ResolvedFacts
  <2>2. CASE k = AllBlocks[b][c]
    <3>1. TextIsFiled(k)
      BY <1>1, <2>1, <2>2 DEF TextsOK
    <3> QED
      BY <1>3, <3>1, TextStaysFiled
  <2>3. CASE k.args[1].written.is = "label"
    BY <2>3 DEF TextIsFiled
  <2> QED
    BY <2>1, <2>2, <2>3
<1> QED
  BY <1>6, Zenon DEF TextsAreFiled, TextIsFiled

-----------------------------------------------------------------------------
\* Every text a condact says is the one its number finds.

LEMMA FilingStart ==
  ASSUME Init
  PROVE  FilingInv
<1>1. <<>> \in Seq(Lines) /\ Len(<<>>) = 0
  OBVIOUS
<1>2. SourceOK
  BY <1>1, EmptyList
     DEF Init, PreprocessorInit, SectionsInit, SourceOK, EmptyDatabase, Fields
<1>3. ProcessOK
  BY EmptyList DEF Init, ProcessesInit, ProcessOK, BlockShape, MaxProcess
<1>4. blocks = <<>> /\ block = <<>> /\ pending = <<>> /\ parsing = "reading"
  BY DEF Init, ProcessesInit, SectionsInit
<1>5. PendingOK
  BY <1>4 DEF PendingOK, Range
<1>6. TextsOK
  <2>1. \A b \in DOMAIN AllBlocks : AllBlocks[b] = <<>>
    BY <1>3, <1>4, BlocksFacts, EmptyList
  <2> QED
    BY <2>1, EmptyList DEF TextsOK
<1> QED
  BY <1>2, <1>3, <1>4, <1>5, <1>6 DEF FilingInv, FilingOK, TextsAreFiled

\* How the parser leaves a source it goes on with.
LEMMA ParserSteps ==
  ASSUME ParserNext
  PROVE  /\ parsing = "reading"
         /\ \/ parsing' = "refused"
            \/ SectionsNext /\ UNCHANGED processVars /\ parsing' = parsing
            \/ /\ ~RefuseProcess
               /\ \/ OpenProcess /\ parsing' = parsing
                  \/ DefineLabel /\ parsing' = parsing
                  \/ EntryHead /\ parsing' = parsing
                  \/ Condact /\ parsing' = parsing
                  \/ EndOfProcesses /\ parsing' = "done"
<1>1. SectionsNext => parsing = "reading" /\ (parsing' = "refused" \/ parsing' = parsing)
  BY Zenon DEF SectionsNext, OpenSection, Control, Vocabulary, TextEntry, LocationEntry, Exit,
     ObjectEntry, CloseObjects, Misplaced, Walks, Parses, RefuseSource
<1>2. RefuseProcess => parsing' = "refused"
  BY Refused
<1>3. OpenProcess => parsing = "reading" /\ (RefuseProcess \/ parsing' = parsing)
  BY DEF OpenProcess, InProcesses, Walks, Parses
<1>4. DefineLabel => parsing = "reading" /\ (RefuseProcess \/ parsing' = parsing)
  BY DEF DefineLabel, InProcess, InProcesses, Walks, Parses
<1>5. EntryHead => parsing = "reading" /\ (RefuseProcess \/ parsing' = parsing)
  BY HeadRead DEF EntryHead, InProcess, InProcesses, Walks, Parses
<1>6. Condact => parsing = "reading" /\ (RefuseProcess \/ parsing' = parsing)
  BY Zenon DEF Condact, InProcess, InProcesses, Walks, Parses
<1>7. EndOfProcesses => parsing = "reading" /\ (RefuseProcess \/ parsing' = "done")
  BY DEF EndOfProcesses, InProcesses, Walks, Parses
<1>8. Astray => parsing = "reading" /\ RefuseProcess
  BY DEF Astray, Parses
<1> QED
  BY <1>1, <1>2, <1>3, <1>4, <1>5, <1>6, <1>7, <1>8 DEF ParserNext

LEMMA FilingStep ==
  ASSUME FilingInv, [Next]_vars
  PROVE  FilingInv'
<1>1. CASE UNCHANGED <<sectionVars, processVars>> /\ (out' = out \/ PreprocessorNext)
  <2>1. UNCHANGED <<cursor, db, parsing>>
    BY <1>1 DEF sectionVars
  <2>2. SourceOK => SourceOK'
    <3>1. out' = out /\ SourceOK => SourceOK'
      BY <2>1 DEF SourceOK
    <3> QED
      BY <1>1, <3>1, PreprocessorFiles
  <2>3. ProcessOK => ProcessOK'
    BY <1>1 DEF ProcessOK, processVars
  <2>4. AllBlocks' = AllBlocks /\ pending' = pending /\ blocks' = blocks
    BY <1>1 DEF AllBlocks, processVars
  <2>5. PendingOK => PendingOK'
    BY <2>4 DEF PendingOK
  <2>6. TextsOK => TextsOK'
    BY <2>1, <2>4 DEF TextsOK, TextIsFiled, Existing
  <2>7. TextsAreFiled => TextsAreFiled'
    BY <2>1, <2>4 DEF TextsAreFiled, Existing
  <2> QED
    BY <2>1, <2>2, <2>3, <2>5, <2>6, <2>7 DEF FilingInv, FilingOK
<1>2. CASE ParserNext /\ out' = out
  <2>1. FilingOK
    BY <1>2, ParserSteps DEF FilingInv
  <2>2. parsing' = "refused" => FilingInv'
    BY DEF FilingInv, TextsAreFiled
  <2>3. parsing' = "reading" /\ FilingOK' => FilingInv'
    BY DEF FilingInv, TextsAreFiled
  <2>4. parsing' = "done" /\ TextsAreFiled' => FilingInv'
    BY DEF FilingInv
  <2>5. /\ SectionsNext /\ UNCHANGED processVars => FilingOK'
        /\ ~RefuseProcess /\ OpenProcess => FilingOK'
        /\ ~RefuseProcess /\ DefineLabel => FilingOK'
        /\ ~RefuseProcess /\ EntryHead => FilingOK'
        /\ parsing' # "refused" /\ Condact => FilingOK'
        /\ ~RefuseProcess /\ EndOfProcesses => TextsAreFiled'
    BY <1>2, <2>1, SectionsFile, OpenProcessFiles, LabelFiles, HeadFiles, CondactFiles, EndFiles
  <2> QED
    BY <1>2, <2>2, <2>3, <2>4, <2>5, ParserSteps
<1> QED
  BY <1>1, <1>2 DEF Next, vars, preprocessorVars

\* A text written in a condact is the one its number finds, in the table that
\* began with the texts of the sections (labels.go, sections_process.go:
\* fileMessage), whatever the source.
THEOREM TextsAreAlwaysFiled == Spec => []TextsAreFiled
<1>1. Init => FilingInv
  BY FilingStart
<1>2. FilingInv /\ [Next]_vars => FilingInv'
  BY FilingStep
<1>3. FilingInv => TextsAreFiled
  BY DEF FilingInv
<1> QED
  BY <1>1, <1>2, <1>3, PTL DEF Spec

-----------------------------------------------------------------------------
\* Where a SKIP lands, as long as no process is written in two parts.

OpenedOnce == \A i, j \in DOMAIN opened : opened[i] = opened[j] => i = j

\* The entries of a process as they will be filed, those of the one being read
\* included.
EntriesOf(p) ==
  IF p = process THEN Grouped
  ELSE IF p + 1 \in DOMAIN db.processes THEN db.processes[p + 1] ELSE <<>>

NothingYet(p) == p + 1 \in DOMAIN db.processes => db.processes[p + 1] = <<>>

\* Entry j is the first that has its block.
Leads(all, j) == \A i \in 1..(j - 1) : all[i].block # all[j].block

\* Every block has a first entry, and the one being read is that of the group.
EntriesOK ==
  /\ \A p \in Nat :
       /\ IsList(EntriesOf(p))
       /\ \A i \in DOMAIN EntriesOf(p) :
            /\ EntriesOf(p)[i].line \in Nat /\ EntriesOf(p)[i].line < cursor
            /\ EntriesOf(p)[i].block \in DOMAIN AllBlocks
            /\ EntriesOf(p)[i].block = Len(blocks) + 1 <=> p = process /\ i > Len(entries)
            /\ \E j \in 1..i : EntriesOf(p)[j].block = EntriesOf(p)[i].block /\ Leads(EntriesOf(p), j)
  /\ \A p \in Nat : p \notin Range(opened) \/ p = process => NothingYet(p)

\* A label names the first entry below it, or the one after the first of its
\* group.  What is written later is further down.
LabelOK(l) ==
  /\ l.process \in Nat /\ l.entry \in Nat /\ l.line \in Nat /\ l.line < cursor
  /\ l.within \in BOOLEAN
  /\ l.entry <= Len(EntriesOf(l.process))
  /\ ~l.within =>
       \A i \in DOMAIN EntriesOf(l.process) : l.line < EntriesOf(l.process)[i].line <=> l.entry < i
  /\ l.within =>
       /\ l.entry >= 1
       /\ Leads(EntriesOf(l.process), l.entry)
       /\ \E m \in l.entry..Len(EntriesOf(l.process)) :
            /\ EntriesOf(l.process)[m].block = EntriesOf(l.process)[l.entry].block
            /\ \A i \in DOMAIN EntriesOf(l.process) :
                 l.line < EntriesOf(l.process)[i].line <=> m < i

LabelsOK == \A n \in DOMAIN labels : \A l : l = labels[n] => LabelOK(l)

\* The SKIP to a label that is condact c of block b, whose first entry is entry
\* j of process p, either waits or goes there.
JumpOK(p, j, b, c) ==
  LET skip == AllBlocks[b][c]
      name == skip.args[1].written.name
  IN  Condacts[skip.op].skip /\ skip.args[1].written.is = "label" =>
        \/ /\ Waiting(b, c) # {}
           /\ \A w \in Waiting(b, c) : w.name = name /\ w.process = p /\ w.from = j - 1
        \/ /\ Waiting(b, c) = {}
           /\ name \in DOMAIN labels
           /\ CanJump(p, j - 1, labels[name])
           /\ skip.args[1].value = JumpTo(j - 1, labels[name])

JumpsOK ==
  \A p \in Nat : \A j \in DOMAIN EntriesOf(p) : Leads(EntriesOf(p), j) =>
    \A b : b = EntriesOf(p)[j].block =>
      \A c \in DOMAIN AllBlocks[b] : JumpOK(p, j, b, c)

LandingOK == EntriesOK /\ LabelsOK /\ JumpsOK
LandingInv == (parsing = "reading" /\ OpenedOnce => LandingOK) /\ WholeSkipsLand

-----------------------------------------------------------------------------
\* What keeps it.

LEMMA LeadsOn ==
  ASSUME NEW all, IsList(all), NEW e, NEW j \in 1..Len(all)
  PROVE  Leads(Append(all, e), j) <=> Leads(all, j)
<1>1. Len(all) \in Nat /\ \A i \in 1..Len(all) : Append(all, e)[i] = all[i]
  BY ListFacts, ListAppend
<1>2. \A i \in 1..(j - 1) : i \in 1..Len(all)
  BY <1>1
<1> QED
  BY <1>1, <1>2 DEF Leads

\* A label that names its entry goes on naming it.
LEMMA LabelKept ==
  ASSUME NEW l, LabelOK(l), cursor \in Nat, cursor' \in Nat, cursor' >= cursor,
         NEW all, all = EntriesOf(l.process), IsList(all),
         \/ EntriesOf(l.process)' = all
         \/ \E e : EntriesOf(l.process)' = Append(all, e) /\ e.line = cursor
  PROVE  LabelOK(l)'
<1>1. /\ l.process \in Nat /\ l.entry \in Nat /\ l.line \in Nat /\ l.line < cursor /\ l.line < cursor'
      /\ l.within \in BOOLEAN /\ l.entry <= Len(all)
  BY DEF LabelOK
<1>2. ~l.within => \A i \in DOMAIN all : l.line < all[i].line <=> l.entry < i
  BY DEF LabelOK
<1>3. l.within =>
        /\ l.entry >= 1 /\ Leads(all, l.entry)
        /\ \E m \in l.entry..Len(all) :
             /\ all[m].block = all[l.entry].block
             /\ \A i \in DOMAIN all : l.line < all[i].line <=> m < i
  BY DEF LabelOK
<1>4. CASE EntriesOf(l.process)' = all
  BY <1>1, <1>2, <1>3, <1>4 DEF LabelOK
<1>5. ASSUME NEW e, EntriesOf(l.process)' = Append(all, e), e.line = cursor
      PROVE  LabelOK(l)'
  <2> DEFINE more == Append(all, e)
  <2>1. Len(all) \in Nat /\ DOMAIN all = 1..Len(all)
    BY ListFacts
  <2>2. /\ Len(more) = Len(all) + 1 /\ DOMAIN more = 1..(Len(all) + 1)
        /\ \A i \in 1..Len(all) : more[i] = all[i]
        /\ more[Len(all) + 1] = e
    BY ListAppend
  <2> HIDE DEF more
  <2>3. EntriesOf(l.process)' = more
    BY <1>5 DEF more
  <2>4. l.line < more[Len(all) + 1].line
    BY <1>1, <1>5, <2>2
  <2>5. ASSUME NEW n \in 0..Len(all), \A i \in DOMAIN all : l.line < all[i].line <=> n < i
        PROVE  \A i \in DOMAIN more : l.line < more[i].line <=> n < i
    <3>1. TAKE i \in DOMAIN more
    <3>2. CASE i \in 1..Len(all)
      BY <2>1, <2>2, <2>5, <3>2
    <3>3. CASE i = Len(all) + 1
      BY <2>1, <2>4, <2>5, <3>3
    <3> QED
      BY <2>1, <2>2, <3>2, <3>3
  <2>6. l.entry \in 0..Len(all) /\ l.entry <= Len(more)
    BY <1>1, <2>1, <2>2
  <2>7. CASE ~l.within
    BY <1>1, <1>2, <2>3, <2>5, <2>6, <2>7 DEF LabelOK
  <2>8. CASE l.within
    <3>1. PICK m \in l.entry..Len(all) :
            /\ all[m].block = all[l.entry].block
            /\ \A i \in DOMAIN all : l.line < all[i].line <=> m < i
      BY <1>3, <2>8
    <3>2. l.entry \in 1..Len(all) /\ m \in 1..Len(all) /\ m \in 0..Len(all)
      BY <1>3, <2>1, <2>6, <2>8
    <3>3. m \in l.entry..Len(more)
      BY <2>1, <2>2, <2>6
    <3>4. Leads(more, l.entry)
      BY <1>3, <2>8, <3>2, LeadsOn DEF more
    <3>5. more[m].block = more[l.entry].block
      BY <2>2, <3>1, <3>2
    <3>6. \A i \in DOMAIN more : l.line < more[i].line <=> m < i
      BY <2>5, <3>1, <3>2
    <3> QED
      BY <1>1, <1>3, <2>3, <2>6, <2>8, <3>3, <3>4, <3>5, <3>6 DEF LabelOK
  <2> QED
    BY <2>7, <2>8
<1> QED
  BY <1>4, <1>5

\* A SKIP that is not touched goes on as it was.
LEMMA JumpKept ==
  ASSUME NEW p, NEW j, NEW b, NEW c, JumpOK(p, j, b, c),
         AllBlocks'[b][c] = AllBlocks[b][c],
         Waiting(b, c)' = Waiting(b, c),
         \A n \in DOMAIN labels : n \in DOMAIN labels' /\ labels'[n] = labels[n]
  PROVE  JumpOK(p, j, b, c)'
BY DEF JumpOK

LEMMA WaitingKept ==
  ASSUME pending' = pending
  PROVE  \A b, c : Waiting(b, c)' = Waiting(b, c)
BY DEF Waiting

LEMMA EntriesStay ==
  ASSUME db'.processes = db.processes, process' = process, Grouped' = Grouped
  PROVE  \A p : EntriesOf(p)' = EntriesOf(p)
BY DEF EntriesOf

LEMMA EntriesKept ==
  ASSUME EntriesOK, cursor \in Nat, cursor' \in Nat, cursor' >= cursor,
         db'.processes = db.processes, Grouped' = Grouped,
         UNCHANGED <<process, opened, entries, blocks>>,
         DOMAIN AllBlocks' = DOMAIN AllBlocks
  PROVE  EntriesOK'
<1>1. \A p : EntriesOf(p)' = EntriesOf(p)
  BY EntriesStay
<1>2. \A p \in Nat : p \notin Range(opened) \/ p = process => NothingYet(p)'
  BY DEF EntriesOK, NothingYet
<1>3. ASSUME NEW p \in Nat, NEW all, all = EntriesOf(p)
      PROVE  /\ IsList(all)
             /\ \A i \in DOMAIN all :
                  /\ all[i].line \in Nat /\ all[i].line < cursor'
                  /\ all[i].block \in DOMAIN AllBlocks'
                  /\ all[i].block = Len(blocks') + 1 <=> p = process' /\ i > Len(entries')
                  /\ \E j \in 1..i : all[j].block = all[i].block /\ Leads(all, j)
  BY <1>3 DEF EntriesOK
<1>4. \A p \in Nat : IsList(EntriesOf(p)')
  BY <1>1, <1>3
<1>5. ASSUME NEW p \in Nat, NEW i \in DOMAIN EntriesOf(p)'
      PROVE  /\ EntriesOf(p)'[i].line \in Nat /\ EntriesOf(p)'[i].line < cursor'
             /\ EntriesOf(p)'[i].block \in DOMAIN AllBlocks'
             /\ EntriesOf(p)'[i].block = Len(blocks') + 1 <=> p = process' /\ i > Len(entries')
             /\ \E j \in 1..i : EntriesOf(p)'[j].block = EntriesOf(p)'[i].block
                               /\ Leads(EntriesOf(p)', j)
  BY <1>1, <1>3, <1>5
<1> QED
  BY <1>2, <1>4, <1>5 DEF EntriesOK

LEMMA LabelsKept ==
  ASSUME EntriesOK, LabelsOK, cursor \in Nat, cursor' \in Nat, cursor' >= cursor,
         labels' = labels, \A p \in Nat : EntriesOf(p)' = EntriesOf(p)
  PROVE  LabelsOK'
<1>1. ASSUME NEW l, LabelOK(l)
      PROVE  LabelOK(l)'
  <2>1. l.process \in Nat
    BY <1>1 DEF LabelOK
  <2> QED
    BY <1>1, <2>1, LabelKept DEF EntriesOK
<1> QED
  BY <1>1 DEF LabelsOK

LEMMA JumpsKept ==
  ASSUME EntriesOK, JumpsOK, \A p \in Nat : EntriesOf(p)' = EntriesOf(p),
         \A b \in DOMAIN AllBlocks : AllBlocks'[b] = AllBlocks[b],
         pending' = pending,
         \A n \in DOMAIN labels : n \in DOMAIN labels' /\ labels'[n] = labels[n]
  PROVE  JumpsOK'
<1>1. ASSUME NEW p \in Nat, NEW all, all = EntriesOf(p), NEW j \in DOMAIN all, Leads(all, j),
             NEW b, b = all[j].block, NEW c \in DOMAIN AllBlocks'[b]
      PROVE  JumpOK(p, j, b, c)'
  <2>1. b \in DOMAIN AllBlocks
    BY <1>1 DEF EntriesOK
  <2>2. AllBlocks'[b] = AllBlocks[b]
    BY <2>1
  <2>3. JumpOK(p, j, b, c)
    BY <1>1, <2>2 DEF JumpsOK
  <2> QED
    BY <2>2, <2>3, JumpKept, WaitingKept
<1> QED
  BY <1>1 DEF JumpsOK

LEMMA LandingKept ==
  ASSUME SourceOK, ProcessOK, LandingOK, UNCHANGED processVars, db'.processes = db.processes,
         cursor' \in Nat, cursor' >= cursor
  PROVE  LandingOK'
<1>1. cursor \in Nat
  BY DEF SourceOK
<1>2. /\ UNCHANGED <<process, opened, entries, blocks, labels, pending>>
      /\ AllBlocks' = AllBlocks /\ Grouped' = Grouped
  BY DEF processVars, AllBlocks, Grouped
<1>3. \A p : EntriesOf(p)' = EntriesOf(p)
  BY <1>2, EntriesStay
<1>4. EntriesOK'
  BY <1>1, <1>2, EntriesKept DEF LandingOK
<1>5. LabelsOK'
  BY <1>1, <1>2, <1>3, LabelsKept DEF LandingOK
<1>6. JumpsOK'
  BY <1>2, <1>3, JumpsKept DEF LandingOK
<1> QED
  BY <1>4, <1>5, <1>6 DEF LandingOK

LEMMA SectionsLand ==
  ASSUME FilingOK, LandingOK, SectionsNext, out' = out, UNCHANGED processVars
  PROVE  LandingOK'
<1>1. SourceOK /\ ProcessOK
  BY DEF FilingOK
<1>2. db'.processes = db.processes /\ cursor' \in {cursor, cursor + 1} /\ SourceOK'
  BY <1>1, SectionsKeep
<1>3. cursor \in Nat /\ cursor' \in Nat /\ cursor' >= cursor
  BY <1>1, <1>2 DEF SourceOK
<1> QED
  BY <1>1, <1>2, <1>3, LandingKept

\* The entries of the process being read.
LEMMA OfTheProcess ==
  ASSUME ProcessOK, process >= 0
  PROVE  process \in Nat /\ EntriesOf(process) = Grouped
<1>1. process \in -1..MaxProcess
  BY DEF ProcessOK
<1> QED
  BY <1>1 DEF EntriesOf, MaxProcess

LEMMA LabelLands ==
  ASSUME FilingOK, LandingOK, DefineLabel, ~RefuseProcess, out' = out
  PROVE  LandingOK'
<1>1. SourceOK /\ ProcessOK /\ EntriesOK /\ LabelsOK /\ JumpsOK
  BY DEF FilingOK, LandingOK
<1>2. /\ UNCHANGED <<db, process, opened, entries, heads, block, blocks, pending>>
      /\ mode' = (IF mode = "between" THEN mode ELSE "block")
      /\ cursor' = cursor + 1 /\ ~SourceEnds /\ process >= 0
      /\ line.name \notin DOMAIN labels
      /\ labels' = Over(Worth({line.name},
                     [process |-> process,
                      entry |-> Len(entries) + (IF mode = "between" THEN 0 ELSE 1),
                      line |-> cursor, within |-> mode # "between"]), labels)
  BY DEF DefineLabel, InProcess, InProcesses, Walks
<1>3. cursor \in Nat /\ cursor' \in Nat /\ cursor' >= cursor /\ cursor < cursor'
  BY <1>1, <1>2 DEF SourceOK
<1>4. AllBlocks' = AllBlocks /\ Grouped' = Grouped
  BY <1>2 DEF AllBlocks, Grouped
<1>5. \A p : EntriesOf(p)' = EntriesOf(p)
  BY <1>2, <1>4, EntriesStay
<1>6. EntriesOK'
  BY <1>1, <1>2, <1>3, <1>4, EntriesKept
<1>7. PICK name, l :
        /\ name = line.name
        /\ l = [process |-> process,
                entry |-> Len(entries) + (IF mode = "between" THEN 0 ELSE 1),
                line |-> cursor, within |-> mode # "between"]
  OBVIOUS
<1>8. /\ DOMAIN labels' = DOMAIN labels \cup {name} /\ name \notin DOMAIN labels
      /\ labels'[name] = l
      /\ \A n \in DOMAIN labels : n \in DOMAIN labels' /\ labels'[n] = labels[n]
  <2>1. labels' = Over(Worth({name}, l), labels) /\ name \notin DOMAIN labels
    BY <1>2, <1>7
  <2> QED
    BY <2>1 DEF Over, Worth
<1>9. JumpsOK'
  BY <1>1, <1>2, <1>4, <1>5, <1>8, JumpsKept
<1>10. LabelOK(l)'
  <2> DEFINE all == EntriesOf(process)
  <2>1. process \in Nat /\ all = Grouped
    BY <1>1, <1>2, OfTheProcess
  <2>2. /\ Len(all) = Len(entries) + Len(heads)
        /\ Len(entries) \in Nat /\ Len(heads) \in Nat
    BY <1>1, <2>1, GroupedFacts
  <2>3. DOMAIN all = 1..Len(all)
    BY <1>1, <2>1, ListFacts DEF EntriesOK
  <2>4. \A i \in DOMAIN all :
          /\ all[i].line \in Nat /\ all[i].line < cursor
          /\ all[i].block = Len(blocks) + 1 <=> i > Len(entries)
    BY <1>1, <2>1 DEF EntriesOK
  <2> HIDE DEF all
  <2>5. /\ l.process = process /\ l.line = cursor /\ l.within = (mode # "between")
        /\ l.entry = Len(entries) + (IF mode = "between" THEN 0 ELSE 1)
    BY <1>7
  <2>6. EntriesOf(l.process)' = all
    BY <1>5, <2>5 DEF all
  <2>7. \A i \in DOMAIN all : ~(l.line < all[i].line)
    BY <1>3, <2>4, <2>5
  <2>8. CASE mode = "between"
    <3>1. l.entry = Len(all)
      <4>1. Len(heads) = 0
        BY <1>1, <2>8, EmptyList DEF ProcessOK
      <4> QED
        BY <2>2, <2>5, <2>8, <4>1
    <3>2. \A i \in DOMAIN all : ~(l.entry < i)
      BY <2>2, <2>3, <3>1
    <3>3. l.within = FALSE
      BY <2>5, <2>8, Zenon
    <3>4. l.entry \in Nat /\ l.entry <= Len(all)
      BY <2>2, <3>1
    <3> QED
      BY <1>3, <2>1, <2>5, <2>6, <2>7, <3>2, <3>3, <3>4 DEF LabelOK
  <2>9. CASE mode # "between"
    <3>1. l.entry = Len(entries) + 1 /\ Len(heads) # 0
      BY <1>1, <2>5, <2>9, ListFacts DEF ProcessOK
    <3>2. /\ l.entry \in Nat /\ l.entry >= 1 /\ l.entry <= Len(all)
          /\ l.entry \in DOMAIN all /\ Len(all) \in DOMAIN all /\ Len(all) \in l.entry..Len(all)
      BY <2>2, <2>3, <3>1
    <3>3. Leads(all, l.entry)
      <4>1. ASSUME NEW i \in 1..(l.entry - 1)
            PROVE  all[i].block # all[l.entry].block
        <5>1. i \in DOMAIN all /\ ~(i > Len(entries)) /\ l.entry > Len(entries)
          BY <2>2, <2>3, <3>1, <3>2, <4>1
        <5> QED
          BY <2>4, <3>2, <5>1
      <4> QED
        BY <4>1 DEF Leads
    <3>4. all[Len(all)].block = all[l.entry].block
      <4>1. Len(all) > Len(entries) /\ l.entry > Len(entries)
        BY <2>2, <3>1
      <4> QED
        BY <2>4, <3>2, <4>1
    <3>5. \A i \in DOMAIN all : ~(Len(all) < i)
      BY <2>2, <2>3
    <3> QED
      BY <1>3, <2>1, <2>5, <2>6, <2>7, <2>9, <3>2, <3>3, <3>4, <3>5 DEF LabelOK
  <2> QED
    BY <2>8, <2>9
<1>11. LabelsOK'
  <2>1. ASSUME NEW k, LabelOK(k)
        PROVE  LabelOK(k)'
    <3>1. k.process \in Nat
      BY <2>1 DEF LabelOK
    <3> QED
      BY <1>1, <1>3, <1>5, <2>1, <3>1, LabelKept DEF EntriesOK
  <2> QED
    BY <1>1, <1>8, <1>10, <2>1 DEF LabelsOK
<1> QED
  BY <1>6, <1>9, <1>11 DEF LandingOK

LEMMA CondactLands ==
  ASSUME FilingOK, LandingOK, Condact, parsing' # "refused", out' = out
  PROVE  LandingOK'
<1>1. SourceOK /\ ProcessOK /\ PendingOK /\ EntriesOK /\ LabelsOK /\ JumpsOK
  BY DEF FilingOK, LandingOK
<1>2. PICK k, name, names :
        /\ name = k.args[1].written.name
        /\ names = (k.args # <<>> /\ k.args[1].written.is = "label")
        /\ block' = Append(block, k) /\ CondactShape(k)
        /\ db'.processes = db.processes
        /\ mode # "between" /\ mode' = "block" /\ process >= 0
        /\ UNCHANGED <<process, opened, entries, heads, blocks, labels>>
        /\ names /\ name \in DOMAIN labels =>
             CanJump(process, Len(entries), labels[name])
               /\ k.args[1].value = JumpTo(Len(entries), labels[name])
        /\ IF names /\ name \notin DOMAIN labels
           THEN pending' = Append(pending,
                  [name |-> name, process |-> process, from |-> Len(entries),
                   block |-> Len(blocks) + 1, condact |-> Len(block) + 1])
           ELSE pending' = pending
  <2>1. PICK k :
          LET name == k.args[1].written.name
              names == k.args # <<>> /\ k.args[1].written.is = "label"
          IN
          /\ block' = Append(block, k) /\ CondactShape(k)
          /\ db'.processes = db.processes
          /\ mode # "between" /\ mode' = "block" /\ process >= 0
          /\ UNCHANGED <<process, opened, entries, heads, blocks, labels>>
          /\ names /\ name \in DOMAIN labels =>
               CanJump(process, Len(entries), labels[name])
                 /\ k.args[1].value = JumpTo(Len(entries), labels[name])
          /\ IF names /\ name \notin DOMAIN labels
             THEN pending' = Append(pending,
                    [name |-> name, process |-> process, from |-> Len(entries),
                     block |-> Len(blocks) + 1, condact |-> Len(block) + 1])
             ELSE pending' = pending
    BY <1>1, CondactWritten, Zenon
  <2> QED
    BY <2>1, Zenon
<1>3. cursor \in Nat /\ cursor' \in Nat /\ cursor' >= cursor
  <2>1. cursor' = cursor + 1
    BY DEF Condact, InProcess, InProcesses, Walks
  <2> QED
    BY <1>1, <2>1 DEF SourceOK
<1> DEFINE now == Len(blocks) + 1
           latest == Len(block) + 1
<1>4. /\ DOMAIN AllBlocks' = DOMAIN AllBlocks
      /\ \A b \in DOMAIN AllBlocks : b # now => AllBlocks'[b] = AllBlocks[b]
      /\ AllBlocks'[now] = Append(block, k) /\ AllBlocks[now] = block
      /\ DOMAIN Append(block, k) = 1..(Len(block) + 1) /\ DOMAIN block = 1..Len(block)
      /\ Len(block) \in Nat
      /\ \A c \in 1..Len(block) : Append(block, k)[c] = block[c]
      /\ Append(block, k)[latest] = k
  BY <1>1, <1>2, CondactBlocks
<1>5. Grouped' = Grouped
  BY <1>2 DEF Grouped
<1>6. \A p : EntriesOf(p)' = EntriesOf(p)
  BY <1>2, <1>5, EntriesStay
<1>7. EntriesOK' /\ LabelsOK'
  BY <1>1, <1>2, <1>3, <1>4, <1>5, <1>6, EntriesKept, LabelsKept
<1>8. Waiting(now, latest) = {}
  <2>1. ASSUME NEW w \in Range(pending), w.block = now, w.condact = latest
        PROVE  FALSE
    <3>1. latest \in DOMAIN AllBlocks[now]
      BY <1>1, <2>1 DEF PendingOK
    <3>2. latest \in 1..Len(block) /\ Len(block) \in Nat
      BY <1>4, <3>1
    <3> QED
      BY <3>2
  <2> QED
    BY <2>1 DEF Waiting
<1>9. /\ names /\ name \notin DOMAIN labels =>
           \E w : /\ Range(pending') = Range(pending) \cup {w}
                  /\ w.name = name /\ w.process = process /\ w.from = Len(entries)
                  /\ w.block = now /\ w.condact = latest
      /\ ~(names /\ name \notin DOMAIN labels) => pending' = pending
  <2>1. CASE names /\ name \notin DOMAIN labels
    <3>1. PICK w : w = [name |-> name, process |-> process, from |-> Len(entries),
                        block |-> now, condact |-> latest]
      OBVIOUS
    <3>2. pending' = Append(pending, w) /\ IsList(pending)
      BY <1>1, <1>2, <2>1, <3>1 DEF ProcessOK
    <3>3. Range(pending') = Range(pending) \cup {w}
      <4>1. /\ DOMAIN pending' = 1..(Len(pending) + 1) /\ DOMAIN pending = 1..Len(pending)
            /\ Len(pending) \in Nat
            /\ \A i \in 1..Len(pending) : pending'[i] = pending[i]
            /\ pending'[Len(pending) + 1] = w
        BY <3>2, ListAppend, ListFacts
      <4> QED
        BY <4>1 DEF Range
    <3> QED
      BY <2>1, <3>1, <3>3
  <2>2. CASE ~(names /\ name \notin DOMAIN labels)
    BY <1>2, <2>2
  <2> QED
    BY <2>1, <2>2
<1> HIDE DEF now, latest
<1>10. ASSUME NEW b, NEW c, ~(b = now /\ c = latest)
       PROVE  Waiting(b, c)' = Waiting(b, c)
  BY <1>9, <1>10 DEF Waiting
<1>11. ASSUME NEW j \in DOMAIN EntriesOf(process), Leads(EntriesOf(process), j),
              EntriesOf(process)[j].block = now
       PROVE  j - 1 = Len(entries)
  <2> DEFINE all == EntriesOf(process)
  <2>1. process \in Nat /\ all = Grouped
    BY <1>1, <1>2, OfTheProcess
  <2>2. Len(all) = Len(entries) + Len(heads) /\ Len(entries) \in Nat /\ Len(heads) \in Nat
    BY <1>1, <2>1, GroupedFacts
  <2>3. DOMAIN all = 1..Len(all)
    BY <1>1, <2>1, ListFacts DEF EntriesOK
  <2>4. Len(heads) # 0
    BY <1>1, <1>2, ListFacts DEF ProcessOK
  <2>5. \A i \in DOMAIN all : all[i].block = now <=> i > Len(entries)
    BY <1>1, <2>1 DEF EntriesOK, now
  <2> HIDE DEF all
  <2>6. j \in 1..Len(all) /\ all[j].block = now /\ Leads(all, j)
    BY <1>11, <2>3 DEF all
  <2>7. j > Len(entries)
    BY <2>3, <2>5, <2>6
  <2>8. Len(entries) + 1 \in DOMAIN all /\ all[Len(entries) + 1].block = now
    BY <2>2, <2>3, <2>4, <2>5
  <2>9. ~(Len(entries) + 1 \in 1..(j - 1))
    BY <2>6, <2>8 DEF Leads
  <2> QED
    BY <2>2, <2>6, <2>7, <2>9
<1>12. ASSUME NEW p \in Nat, NEW all, all = EntriesOf(p), NEW j \in DOMAIN all, Leads(all, j),
              NEW b, b = all[j].block, NEW c \in DOMAIN AllBlocks'[b]
       PROVE  JumpOK(p, j, b, c)'
  <2>1. b \in DOMAIN AllBlocks /\ (b = now => p = process)
    BY <1>1, <1>12 DEF EntriesOK, now
  <2>2. CASE ~(b = now /\ c = latest)
    <3>1. c \in DOMAIN AllBlocks[b] /\ AllBlocks'[b][c] = AllBlocks[b][c]
      BY <1>4, <1>12, <2>1, <2>2 DEF latest
    <3>2. JumpOK(p, j, b, c)
      BY <1>1, <1>12, <3>1 DEF JumpsOK
    <3> QED
      BY <1>2, <1>10, <2>2, <3>1, <3>2, JumpKept
  <2>3. CASE b = now /\ c = latest
    <3>1. p = process /\ j - 1 = Len(entries)
      BY <1>11, <1>12, <2>1, <2>3
    <3>2. AllBlocks'[b][c] = k
      BY <1>4, <2>3
    <3>3. Condacts[k.op].skip /\ k.args[1].written.is = "label" => names
      BY <1>2 DEF CondactShape
    <3>4. CASE names /\ name \notin DOMAIN labels
      <4>1. PICK w : /\ Range(pending') = Range(pending) \cup {w}
                     /\ w.name = name /\ w.process = process /\ w.from = Len(entries)
                     /\ w.block = now /\ w.condact = latest
        BY <1>9, <3>4
      <4>2. Waiting(b, c)' = {w}
        BY <1>8, <2>3, <4>1 DEF Waiting
      <4> QED
        BY <1>2, <3>1, <3>2, <4>1, <4>2 DEF JumpOK
    <3>5. CASE names /\ name \in DOMAIN labels
      <4>1. Waiting(b, c)' = {}
        BY <1>8, <1>9, <2>3, <3>5, WaitingKept
      <4>2. CanJump(process, Len(entries), labels[name])
            /\ k.args[1].value = JumpTo(Len(entries), labels[name])
        BY <1>2, <3>5
      <4> QED
        BY <1>2, <3>1, <3>2, <3>5, <4>1, <4>2 DEF JumpOK
    <3>6. CASE ~names
      BY <3>2, <3>3, <3>6 DEF JumpOK
    <3> QED
      BY <3>4, <3>5, <3>6
  <2> QED
    BY <2>2, <2>3
<1>13. JumpsOK'
  BY <1>6, <1>12 DEF JumpsOK
<1> QED
  BY <1>7, <1>13 DEF LandingOK

\* A head goes at the end of the entries of the process, in the block of its
\* group.
LEMMA HeadEntries ==
  ASSUME SourceOK, ProcessOK, EntryHead, ~RefuseProcess
  PROVE  /\ \E e : /\ Grouped' = Append(Grouped, e)
                   /\ e.line = cursor /\ e.block = Len(blocks') + 1
         /\ IsList(Grouped)
<1>1. PICK head : /\ head.line = cursor
                  /\ heads' = IF mode = "heads" THEN Append(heads, head) ELSE <<head>>
  BY HeadRead
<1>2. /\ mode' = "heads"
      /\ mode = "heads" => UNCHANGED <<entries, blocks, block>>
      /\ mode # "heads" => entries' = Grouped /\ blocks' = Blocked
  BY HeadRead
<1>3. /\ IsList(Grouped) /\ Len(Grouped) = Len(entries) + Len(heads)
      /\ Len(entries) \in Nat /\ Len(heads) \in Nat /\ IsList(heads) /\ IsList(entries)
      /\ DOMAIN heads = 1..Len(heads)
  BY GroupedFacts, ListFacts DEF ProcessOK
<1>4. PICK e : e = [verb |-> head.verb, noun |-> head.noun, line |-> head.line,
                    block |-> Len(blocks') + 1]
  OBVIOUS
<1>5. e.line = cursor /\ e.block = Len(blocks') + 1
  BY <1>1, <1>4
<1> DEFINE Of(h) == [i \in DOMAIN h |->
                       [verb |-> h[i].verb, noun |-> h[i].noun, line |-> h[i].line,
                        block |-> Len(blocks') + 1]]
<1>6. Grouped' = entries' \o Of(heads')
  BY <1>2 DEF Grouped
<1>7. CASE mode = "heads"
  <2>1. Grouped = entries \o Of(heads) /\ entries' = entries
    BY <1>2, <1>7 DEF Grouped
  <2>2. /\ heads' = Append(heads, head) /\ DOMAIN heads' = 1..(Len(heads) + 1)
        /\ \A i \in 1..Len(heads) : heads'[i] = heads[i]
        /\ heads'[Len(heads) + 1] = head
    BY <1>1, <1>3, <1>7, ListAppend
  <2>3. IsList(Of(heads)) /\ Len(Of(heads)) = Len(heads) /\ DOMAIN Of(heads) = 1..Len(heads)
    BY <1>3, ListMade
  <2>4. IsList(Of(heads')) /\ Len(Of(heads')) = Len(heads) + 1 /\ DOMAIN Of(heads') = 1..(Len(heads) + 1)
    BY <1>3, <2>2, ListMade
  <2>5. \A i \in 1..Len(heads) : Of(heads')[i] = Of(heads)[i]
    BY <1>3, <2>2
  <2>6. Of(heads')[Len(heads) + 1] = e
    BY <1>3, <1>4, <2>2
  <2> HIDE DEF Of
  <2>7. Of(heads') = Append(Of(heads), e)
    BY <1>3, <2>3, <2>4, <2>5, <2>6, SameList
  <2>8. entries \o Append(Of(heads), e) = Append(entries \o Of(heads), e)
    BY <1>3, <2>3, ConcatAppend
  <2> QED
    BY <1>3, <1>5, <1>6, <2>1, <2>7, <2>8
<1>8. CASE mode # "heads"
  <2>1. heads' = <<head>> /\ entries' = Grouped
    BY <1>1, <1>2, <1>8
  <2>2. Of(heads') = <<e>>
    <3>1. Of(<<head>>) = <<e>>
      BY <1>4
    <3> QED
      BY <2>1, <3>1
  <2> HIDE DEF Of
  <2>3. Grouped \o <<e>> = Append(Grouped, e)
    BY <1>3, ConcatOne
  <2> QED
    BY <1>3, <1>5, <1>6, <2>1, <2>2, <2>3
<1> QED
  BY <1>7, <1>8

LEMMA HeadLands ==
  ASSUME FilingOK, LandingOK, EntryHead, ~RefuseProcess, out' = out
  PROVE  LandingOK'
<1>1. SourceOK /\ ProcessOK /\ PendingOK /\ EntriesOK /\ LabelsOK /\ JumpsOK
  BY DEF FilingOK, LandingOK
<1>2. /\ mode = "heads" => UNCHANGED <<entries, blocks, block>>
      /\ mode # "heads" => entries' = Grouped /\ blocks' = Blocked /\ block' = <<>>
      /\ UNCHANGED <<db, process, opened, labels, pending>>
      /\ cursor' = cursor + 1 /\ ~SourceEnds /\ process >= 0
  BY HeadRead
<1>3. cursor \in Nat /\ cursor' \in Nat /\ cursor' >= cursor /\ cursor < cursor'
  BY <1>1, <1>2 DEF SourceOK
<1>4. PICK e, group, q : /\ group = Grouped /\ Grouped' = Append(group, e)
                         /\ e.line = cursor /\ e.block = Len(blocks') + 1
                         /\ q = process
  BY <1>1, HeadEntries
<1>5. q \in Nat /\ EntriesOf(q) = group
  <2>1. process \in Nat /\ EntriesOf(process) = Grouped
    BY <1>1, <1>2, OfTheProcess
  <2> QED
    BY <1>4, <2>1
<1>6. /\ \A p \in Nat : p # q => EntriesOf(p)' = EntriesOf(p)
      /\ EntriesOf(q)' = Append(group, e)
  BY <1>2, <1>4 DEF EntriesOf
<1>7. /\ IsList(group) /\ Len(group) = Len(entries) + Len(heads)
      /\ Len(entries) \in Nat /\ Len(heads) \in Nat
  BY <1>1, <1>4, GroupedFacts
<1>8. DOMAIN group = 1..Len(group)
  BY <1>7, ListFacts
<1>9. /\ DOMAIN Append(group, e) = 1..(Len(group) + 1)
      /\ \A i \in 1..Len(group) : Append(group, e)[i] = group[i]
      /\ Append(group, e)[Len(group) + 1] = e
      /\ IsList(Append(group, e))
  BY <1>7, ListAppend
<1>10. /\ \A b \in DOMAIN AllBlocks : b \in DOMAIN AllBlocks' /\ AllBlocks'[b] = AllBlocks[b]
       /\ Len(blocks') + 1 \in DOMAIN AllBlocks'
       /\ Len(blocks) \in Nat /\ DOMAIN AllBlocks = 1..(Len(blocks) + 1)
       /\ Len(blocks') = IF mode \in {"between", "heads"} THEN Len(blocks) ELSE Len(blocks) + 1
       /\ mode # "heads" => AllBlocks'[Len(blocks') + 1] = <<>>
  <2>1. /\ Len(blocks) \in Nat /\ DOMAIN AllBlocks = 1..(Len(blocks) + 1)
    BY <1>1, BlocksFacts
  <2>2. CASE mode = "heads"
    BY <1>2, <2>1, <2>2 DEF AllBlocks
  <2>3. CASE mode # "heads"
    <3>1. /\ \A b \in DOMAIN AllBlocks : b \in DOMAIN AllBlocks' /\ AllBlocks'[b] = AllBlocks[b]
          /\ Len(blocks') = IF mode = "between" THEN Len(blocks) ELSE Len(blocks) + 1
          /\ IsList(blocks')
      BY <1>1, <1>2, <2>3, BlocksGoOn
    <3>2. AllBlocks' = Append(blocks', <<>>)
      BY <1>2, <2>3 DEF AllBlocks
    <3>3. Len(blocks') + 1 \in DOMAIN AllBlocks' /\ AllBlocks'[Len(blocks') + 1] = <<>>
      BY <3>1, <3>2, ListAppend, ListFacts
    <3> QED
      BY <2>1, <2>3, <3>1, <3>3
  <2> QED
    BY <2>2, <2>3
<1>11. \A i \in 1..Len(group) :
         /\ group[i].line \in Nat /\ group[i].line < cursor
         /\ group[i].block \in DOMAIN AllBlocks
         /\ group[i].block = Len(blocks) + 1 <=> i > Len(entries)
         /\ \E j \in 1..i : group[j].block = group[i].block /\ Leads(group, j)
  <2>1. \A i \in DOMAIN EntriesOf(q) :
          /\ EntriesOf(q)[i].line \in Nat /\ EntriesOf(q)[i].line < cursor
          /\ EntriesOf(q)[i].block \in DOMAIN AllBlocks
          /\ EntriesOf(q)[i].block = Len(blocks) + 1 <=> q = process /\ i > Len(entries)
          /\ \E j \in 1..i : EntriesOf(q)[j].block = EntriesOf(q)[i].block /\ Leads(EntriesOf(q), j)
    BY <1>1, <1>5 DEF EntriesOK
  <2> QED
    BY <1>4, <1>5, <1>8, <2>1
<1>12. ASSUME NEW i \in 1..Len(group)
       PROVE  group[i].block = Len(blocks') + 1 <=> i > Len(entries')
  <2>1. CASE mode = "heads"
    BY <1>2, <1>11, <2>1
  <2>2. CASE mode = "between"
    <3>1. Len(heads) = 0
      BY <1>1, <2>2, EmptyList DEF ProcessOK
    <3>2. ~(i > Len(entries)) /\ entries' = group
      BY <1>2, <1>4, <1>7, <2>2, <3>1
    <3>3. Len(blocks') = Len(blocks)
      BY <1>10, <2>2
    <3>4. ~(i > Len(entries'))
      BY <1>7, <3>2
    <3> QED
      BY <1>11, <3>2, <3>3, <3>4
  <2>3. CASE mode \notin {"heads", "between"}
    <3>1. Len(blocks') = Len(blocks) + 1 /\ entries' = group
      BY <1>2, <1>4, <1>10, <2>3
    <3>2. group[i].block \in 1..(Len(blocks) + 1)
      BY <1>10, <1>11
    <3>3. group[i].block # Len(blocks') + 1
      BY <1>10, <3>1, <3>2
    <3>4. ~(i > Len(entries'))
      BY <1>7, <3>1
    <3> QED
      BY <3>3, <3>4
  <2> QED
    BY <2>1, <2>2, <2>3
<1>13. Len(group) + 1 > Len(entries')
  BY <1>2, <1>4, <1>7
<1>14. EntriesOK'
  <2>1. ASSUME NEW p \in Nat, p # q, NEW all, all = EntriesOf(p), NEW i \in DOMAIN all
        PROVE  /\ all[i].line \in Nat /\ all[i].line < cursor'
               /\ all[i].block \in DOMAIN AllBlocks'
               /\ all[i].block # Len(blocks') + 1
               /\ \E j \in 1..i : all[j].block = all[i].block /\ Leads(all, j)
    <3>1. /\ all[i].line \in Nat /\ all[i].line < cursor
          /\ all[i].block \in DOMAIN AllBlocks
          /\ all[i].block # Len(blocks) + 1
          /\ \E j \in 1..i : all[j].block = all[i].block /\ Leads(all, j)
      BY <1>1, <1>4, <2>1 DEF EntriesOK
    <3>2. all[i].block \in 1..(Len(blocks) + 1)
      BY <1>10, <3>1
    <3>3. all[i].block # Len(blocks') + 1
      BY <1>10, <3>1, <3>2
    <3> QED
      BY <1>3, <1>10, <3>1, <3>3
  <2>2. ASSUME NEW more, more = Append(group, e), NEW i \in DOMAIN more
        PROVE  /\ more[i].line \in Nat /\ more[i].line < cursor'
               /\ more[i].block \in DOMAIN AllBlocks'
               /\ more[i].block = Len(blocks') + 1 <=> i > Len(entries')
               /\ \E j \in 1..i : more[j].block = more[i].block /\ Leads(more, j)
    <3>1. CASE i \in 1..Len(group)
      <4>1. more[i] = group[i]
        BY <1>9, <2>2, <3>1
      <4>2. \E j \in 1..i : more[j].block = more[i].block /\ Leads(more, j)
        <5>1. PICK j \in 1..i : group[j].block = group[i].block /\ Leads(group, j)
          BY <1>11, <3>1
        <5>2. j \in 1..Len(group) /\ more[j] = group[j]
          BY <1>7, <1>9, <2>2, <3>1
        <5>3. Leads(more, j)
          BY <1>7, <2>2, <5>1, <5>2, LeadsOn
        <5> QED
          BY <4>1, <5>1, <5>2, <5>3
      <4> QED
        BY <1>3, <1>10, <1>11, <1>12, <3>1, <4>1, <4>2
    <3>2. CASE i = Len(group) + 1
      <4>1. more[i] = e /\ i \in 1..i
        BY <1>7, <1>9, <2>2, <3>2
      <4>2. \E j \in 1..i : more[j].block = more[i].block /\ Leads(more, j)
        <5>1. CASE \E k \in 1..Len(group) : group[k].block = e.block
          <6>1. PICK k \in 1..Len(group) : group[k].block = e.block
            BY <5>1
          <6>2. PICK j \in 1..k : group[j].block = group[k].block /\ Leads(group, j)
            BY <1>11
          <6>3. j \in 1..Len(group) /\ j \in 1..i /\ more[j] = group[j]
            BY <1>7, <1>9, <2>2, <3>2
          <6>4. Leads(more, j)
            BY <1>7, <2>2, <6>2, <6>3, LeadsOn
          <6> QED
            BY <4>1, <6>1, <6>2, <6>3, <6>4
        <5>2. CASE ~\E k \in 1..Len(group) : group[k].block = e.block
          <6>1. \A k \in 1..(i - 1) : k \in 1..Len(group) /\ more[k] = group[k]
            BY <1>7, <1>9, <2>2, <3>2
          <6>2. Leads(more, i)
            BY <4>1, <5>2, <6>1 DEF Leads
          <6> QED
            BY <4>1, <6>2
        <5> QED
          BY <5>1, <5>2
      <4> QED
        BY <1>3, <1>4, <1>10, <1>13, <3>2, <4>1, <4>2
    <3> QED
      BY <1>7, <1>9, <2>2, <3>1, <3>2
  <2>3. \A p \in Nat : p \notin Range(opened) \/ p = process => NothingYet(p)'
    BY <1>1, <1>2 DEF EntriesOK, NothingYet
  <2>4. \A p \in Nat : IsList(EntriesOf(p)')
    <3>1. ASSUME NEW p \in Nat
          PROVE  IsList(EntriesOf(p)')
      <4>1. CASE p = q
        BY <1>6, <1>9, <4>1
      <4>2. CASE p # q
        BY <1>1, <1>6, <4>2 DEF EntriesOK
      <4> QED
        BY <4>1, <4>2
    <3> QED
      BY <3>1
  <2>5. ASSUME NEW p \in Nat, NEW i \in DOMAIN EntriesOf(p)'
        PROVE  /\ EntriesOf(p)'[i].line \in Nat /\ EntriesOf(p)'[i].line < cursor'
               /\ EntriesOf(p)'[i].block \in DOMAIN AllBlocks'
               /\ EntriesOf(p)'[i].block = Len(blocks') + 1 <=> p = process' /\ i > Len(entries')
               /\ \E j \in 1..i : EntriesOf(p)'[j].block = EntriesOf(p)'[i].block
                                 /\ Leads(EntriesOf(p)', j)
    <3>1. CASE p = q
      BY <1>2, <1>4, <1>6, <2>2, <2>5, <3>1
    <3>2. CASE p # q
      BY <1>2, <1>4, <1>6, <2>1, <2>5, <3>2
    <3> QED
      BY <3>1, <3>2
  <2> QED
    BY <1>2, <2>3, <2>4, <2>5 DEF EntriesOK
<1>15. LabelsOK'
  <2>1. ASSUME NEW l, LabelOK(l)
        PROVE  LabelOK(l)'
    <3>1. PICK all : all = EntriesOf(l.process)
      OBVIOUS
    <3>2. l.process \in Nat
      BY <2>1 DEF LabelOK
    <3>3. IsList(all)
      BY <1>1, <3>1, <3>2 DEF EntriesOK
    <3>4. \/ EntriesOf(l.process)' = all
          \/ EntriesOf(l.process)' = Append(all, e) /\ e.line = cursor
      <4>1. CASE l.process = q
        BY <1>4, <1>5, <1>6, <3>1, <4>1
      <4>2. CASE l.process # q
        BY <1>6, <3>1, <3>2, <4>2
      <4> QED
        BY <4>1, <4>2
    <3> QED
      BY <1>3, <2>1, <3>1, <3>3, <3>4, LabelKept
  <2> QED
    BY <1>1, <1>2, <2>1 DEF LabelsOK
<1>16. JumpsOK'
  <2>1. ASSUME NEW p \in Nat, NEW all, all = EntriesOf(p), NEW j \in DOMAIN all, Leads(all, j),
               NEW b, b = all[j].block, NEW c \in DOMAIN AllBlocks'[b]
        PROVE  JumpOK(p, j, b, c)'
    <3>1. b \in DOMAIN AllBlocks
      BY <1>1, <2>1 DEF EntriesOK
    <3>2. AllBlocks'[b] = AllBlocks[b]
      BY <1>10, <3>1
    <3>3. JumpOK(p, j, b, c)
      BY <1>1, <2>1, <3>2 DEF JumpsOK
    <3> QED
      BY <1>2, <3>2, <3>3, JumpKept, WaitingKept
  <2>2. ASSUME NEW more, more = Append(group, e), NEW j \in DOMAIN more, Leads(more, j),
               NEW b, b = more[j].block, NEW c \in DOMAIN AllBlocks'[b]
        PROVE  JumpOK(q, j, b, c)'
    <3>1. CASE j \in 1..Len(group)
      <4>1. more[j] = group[j] /\ Leads(group, j)
        BY <1>7, <1>9, <2>2, <3>1, LeadsOn
      <4> QED
        BY <1>5, <1>8, <2>1, <2>2, <3>1, <4>1
    <3>2. CASE j = Len(group) + 1
      <4>1. more[j] = e /\ b = Len(blocks') + 1
        BY <1>4, <1>9, <2>2, <3>2
      <4>2. CASE mode = "heads"
        <5>1. Len(heads) # 0
          BY <1>1, <4>2, ListFacts DEF ProcessOK
        <5>2. Len(entries) + 1 \in 1..Len(group) /\ Len(entries) + 1 > Len(entries)
          BY <1>7, <5>1
        <5>3. group[Len(entries) + 1].block = Len(blocks) + 1 /\ Len(blocks') = Len(blocks)
          BY <1>10, <1>11, <4>2, <5>2
        <5>4. more[Len(entries) + 1] = group[Len(entries) + 1] /\ Len(entries) + 1 \in 1..(j - 1)
          BY <1>7, <1>9, <2>2, <3>2, <5>2
        <5> QED
          BY <2>2, <4>1, <5>3, <5>4 DEF Leads
      <4>3. CASE mode # "heads"
        BY <1>10, <2>2, <4>1, <4>3, EmptyList
      <4> QED
        BY <4>2, <4>3
    <3> QED
      BY <1>7, <1>9, <2>2, <3>1, <3>2
  <2>3. ASSUME NEW p \in Nat, NEW j \in DOMAIN EntriesOf(p)', Leads(EntriesOf(p)', j),
               NEW b, b = EntriesOf(p)'[j].block, NEW c \in DOMAIN AllBlocks'[b]
        PROVE  JumpOK(p, j, b, c)'
    <3>1. CASE p = q
      BY <1>6, <2>2, <2>3, <3>1
    <3>2. CASE p # q
      BY <1>6, <2>1, <2>3, <3>2
    <3> QED
      BY <3>1, <3>2
  <2> QED
    BY <2>3 DEF JumpsOK
<1> QED
  BY <1>14, <1>15, <1>16 DEF LandingOK

\* The processes that are filed are the entries there are.
LEMMA FiledEntries ==
  ASSUME SourceOK, ProcessOK, EntriesOK, NEW filed, filed = FiledProcesses
  PROVE  /\ IsList(filed)
         /\ \A p \in Nat : EntriesOf(p) = IF p + 1 \in DOMAIN filed THEN filed[p + 1] ELSE <<>>
<1>1. PICK q, all : q = process /\ all = db.processes
  OBVIOUS
<1>2. q \in -1..MaxProcess /\ IsList(all) /\ \A p \in DOMAIN all : IsList(all[p])
  BY <1>1 DEF SourceOK, ProcessOK
<1>3. \A p \in Nat : p # q => EntriesOf(p) = IF p + 1 \in DOMAIN all THEN all[p + 1] ELSE <<>>
  BY <1>1 DEF EntriesOf
<1>4. CASE q < 0
  BY <1>1, <1>2, <1>3, <1>4 DEF FiledProcesses
<1>5. CASE ~(q < 0)
  <2>1. q \in Nat
    BY <1>2, <1>5 DEF MaxProcess
  <2>2. PICK more : more = Grouped
    OBVIOUS
  <2>3. filed = NewLegacy(all, q, more) /\ IsList(more)
    BY <1>1, <1>5, <2>2, GroupedFacts DEF FiledProcesses
  <2>4. /\ IsList(filed) /\ q + 1 \in DOMAIN filed
        /\ DOMAIN all \subseteq DOMAIN filed
        /\ filed[q + 1] = WasAt(all, q + 1) \o more
        /\ \A i \in DOMAIN filed : i # q + 1 => filed[i] = WasAt(all, i)
    <3>1. IsList(all) /\ \A p \in DOMAIN all : IsList(all[p])
      BY <1>2
    <3>2. IsList(more)
      BY <2>3
    <3>3. IsList(NewLegacy(all, q, more))
      BY <2>1, <3>1, <3>2, NewLegacyFacts
    <3>4. q + 1 \in DOMAIN NewLegacy(all, q, more)
      BY <2>1, <3>1, <3>2, NewLegacyFacts
    <3>5. DOMAIN all \subseteq DOMAIN NewLegacy(all, q, more)
      BY <2>1, <3>1, <3>2, NewLegacyFacts
    <3>6. NewLegacy(all, q, more)[q + 1] = WasAt(all, q + 1) \o more
      BY <2>1, <3>1, <3>2, NewLegacyFacts
    <3>7. \A i \in DOMAIN NewLegacy(all, q, more) : i # q + 1 => NewLegacy(all, q, more)[i] = WasAt(all, i)
      BY <2>1, <3>1, <3>2, NewLegacyFacts
    <3> QED
      BY <2>3, <3>3, <3>4, <3>5, <3>6, <3>7
  <2>5. EntriesOf(q) = filed[q + 1]
    <3>1. NothingYet(q)
      BY <1>1, <2>1 DEF EntriesOK
    <3>2. WasAt(all, q + 1) = <<>>
      BY <1>1, <3>1 DEF NothingYet, WasAt
    <3>3. filed[q + 1] = more
      BY <2>3, <2>4, <3>2, EmptyConcat
    <3>4. EntriesOf(q) = more
      BY <1>1, <2>2 DEF EntriesOf
    <3> QED
      BY <3>3, <3>4
  <2>6. ASSUME NEW p \in Nat, p # q
        PROVE  EntriesOf(p) = IF p + 1 \in DOMAIN filed THEN filed[p + 1] ELSE <<>>
    <3>1. p + 1 # q + 1
      BY <2>1, <2>6
    <3> QED
      BY <1>3, <2>4, <2>6, <3>1 DEF WasAt
  <2> QED
    BY <2>4, <2>5, <2>6
<1> QED
  BY <1>4, <1>5

LEMMA OpenProcessLands ==
  ASSUME FilingOK, LandingOK, OpenProcess, ~RefuseProcess, out' = out, OpenedOnce'
  PROVE  LandingOK'
<1>1. SourceOK /\ ProcessOK /\ PendingOK /\ EntriesOK /\ LabelsOK /\ JumpsOK
  BY DEF FilingOK, LandingOK
<1>2. PICK q, r, filed : q = process /\ r = process' /\ filed = FiledProcesses
  OBVIOUS
<1>3. /\ r \in 0..MaxProcess
      /\ opened' = Append(opened, r)
      /\ blocks' = Blocked /\ mode' = "between"
      /\ entries' = <<>> /\ heads' = <<>> /\ block' = <<>>
      /\ pending' = pending /\ labels' = labels
      /\ cursor' = cursor + 1
  BY <1>2, ProcessOpened
<1>4. db'.processes = filed
  BY <1>1, <1>2, ProcessOpened, FiledKeeps
<1>5. cursor \in Nat /\ cursor' \in Nat /\ cursor' >= cursor
  BY <1>1, <1>3 DEF SourceOK
<1>6. r \in Nat /\ r \notin Range(opened) /\ r # q
      /\ \A p : p \notin Range(opened') => (p \notin Range(opened) /\ p # q) \/ p = -1
  <2>1. IsList(opened) /\ q \in Range(opened) \cup {-1} /\ r \in Nat
    BY <1>1, <1>2, <1>3 DEF ProcessOK
  <2>2. /\ DOMAIN opened = 1..Len(opened) /\ DOMAIN opened' = 1..(Len(opened) + 1)
        /\ \A i \in 1..Len(opened) : opened'[i] = opened[i]
        /\ opened'[Len(opened) + 1] = r /\ Len(opened) \in Nat
    BY <1>3, <2>1, ListFacts, ListAppend
  <2>3. r \notin Range(opened)
    <3>1. ASSUME NEW i \in DOMAIN opened, opened[i] = r
          PROVE  FALSE
      <4>1. /\ i \in DOMAIN opened' /\ Len(opened) + 1 \in DOMAIN opened' /\ i # Len(opened) + 1
            /\ opened'[i] = opened'[Len(opened) + 1]
        BY <2>2, <3>1
      <4> QED
        BY <4>1 DEF OpenedOnce
    <3> QED
      BY <3>1 DEF Range
  <2>4. \A p : p \in Range(opened) => p \in Range(opened')
    BY <2>2 DEF Range
  <2> QED
    BY <2>1, <2>3, <2>4
<1>7. /\ IsList(filed)
      /\ \A p \in Nat : EntriesOf(p) = IF p + 1 \in DOMAIN filed THEN filed[p + 1] ELSE <<>>
  BY <1>1, <1>2, FiledEntries
<1>8. \A p \in Nat : p \notin Range(opened) /\ p # q => EntriesOf(p) = <<>>
  BY <1>1, <1>2 DEF EntriesOK, NothingYet, EntriesOf
<1>9. \A p \in Nat : EntriesOf(p)' = EntriesOf(p)
  <2>1. ASSUME NEW p \in Nat, p # r
        PROVE  EntriesOf(p)' = EntriesOf(p)
    BY <1>2, <1>4, <1>7, <2>1 DEF EntriesOf
  <2>2. EntriesOf(r)' = EntriesOf(r)
    <3>1. EntriesOf(r)' = <<>>
      BY <1>2, <1>3 DEF EntriesOf, Grouped
    <3> QED
      BY <1>6, <1>8, <3>1
  <2> QED
    BY <2>1, <2>2
<1>10. /\ \A b \in DOMAIN AllBlocks : b \in DOMAIN AllBlocks' /\ AllBlocks'[b] = AllBlocks[b]
       /\ Len(blocks') = IF mode = "between" THEN Len(blocks) ELSE Len(blocks) + 1
       /\ Len(blocks) \in Nat /\ DOMAIN AllBlocks = 1..(Len(blocks) + 1)
  BY <1>1, <1>3, BlocksGoOn, BlocksFacts
<1>11. ASSUME NEW p \in Nat, NEW i \in DOMAIN EntriesOf(p)
       PROVE  EntriesOf(p)[i].block # Len(blocks') + 1 /\ p # r
  <2>1. p # r
    BY <1>6, <1>8, <1>11, EmptyList
  <2>2. /\ EntriesOf(p)[i].block \in 1..(Len(blocks) + 1)
        /\ EntriesOf(p)[i].block = Len(blocks) + 1 <=> p = process /\ i > Len(entries)
    BY <1>1, <1>10, <1>11 DEF EntriesOK
  <2>3. CASE mode = "between"
    <3>1. ~(p = q /\ i > Len(entries))
      <4>1. CASE p = q
        <5>1. EntriesOf(p) = Grouped
          BY <1>2, <4>1 DEF EntriesOf
        <5>2. /\ IsList(Grouped) /\ Len(Grouped) = Len(entries) + Len(heads) /\ Len(entries) \in Nat
              /\ Len(heads) = 0
          BY <1>1, <2>3, GroupedFacts, EmptyList DEF ProcessOK
        <5> QED
          BY <1>11, <5>1, <5>2, ListFacts
      <4> QED
        BY <4>1
    <3> QED
      BY <1>2, <1>10, <2>1, <2>2, <2>3, <3>1
  <2>4. CASE mode # "between"
    BY <1>10, <2>1, <2>2, <2>4
  <2> QED
    BY <2>3, <2>4
<1>12. \A p \in Nat : p \notin Range(opened') \/ p = r => NothingYet(p)'
  <2>1. ASSUME NEW p \in Nat, p \notin Range(opened') \/ p = r
        PROVE  EntriesOf(p) = <<>>
    BY <1>6, <1>8, <2>1
  <2> QED
    BY <1>4, <1>7, <2>1 DEF NothingYet
<1>13. EntriesOK'
  <2>1. ASSUME NEW p \in Nat, NEW all, all = EntriesOf(p)
        PROVE  /\ IsList(all)
               /\ \A i \in DOMAIN all :
                    /\ all[i].line \in Nat /\ all[i].line < cursor'
                    /\ all[i].block \in DOMAIN AllBlocks'
                    /\ all[i].block = Len(blocks') + 1 <=> p = r /\ i > Len(entries')
                    /\ \E j \in 1..i : all[j].block = all[i].block /\ Leads(all, j)
    <3>1. IsList(all)
      BY <1>1, <2>1 DEF EntriesOK
    <3>2. ASSUME NEW i \in DOMAIN all
          PROVE  /\ all[i].line \in Nat /\ all[i].line < cursor
                 /\ all[i].block \in DOMAIN AllBlocks
                 /\ \E j \in 1..i : all[j].block = all[i].block /\ Leads(all, j)
      BY <1>1, <2>1, <3>2 DEF EntriesOK
    <3>3. ASSUME NEW i \in DOMAIN all
          PROVE  all[i].block # Len(blocks') + 1 /\ p # r
      BY <1>11, <2>1, <3>3
    <3> QED
      BY <1>3, <1>5, <1>10, <3>1, <3>2, <3>3
  <2> QED
    BY <1>2, <1>9, <1>12, <2>1 DEF EntriesOK
<1>14. LabelsOK'
  BY <1>1, <1>3, <1>5, <1>9, LabelsKept
<1>15. JumpsOK'
  BY <1>1, <1>3, <1>9, <1>10, JumpsKept
<1> QED
  BY <1>13, <1>14, <1>15 DEF LandingOK

-----------------------------------------------------------------------------
\* What a jump is worth, and where it leads.

LEMMA FirstIs ==
  ASSUME NEW all, IsList(all), NEW j \in DOMAIN all, Leads(all, j)
  PROVE  FirstOf(all, all[j].block) = j
<1> DEFINE First(i) == all[i].block = all[j].block /\ \A k \in 1..(i - 1) : all[k].block # all[j].block
<1>1. DOMAIN all = 1..Len(all) /\ Len(all) \in Nat
  BY ListFacts
<1>2. First(j)
  BY DEF Leads
<1>3. ASSUME NEW i \in DOMAIN all, First(i)
      PROVE  i = j
  <2>1. ~(j \in 1..(i - 1)) /\ ~(i \in 1..(j - 1))
    BY <1>3 DEF Leads
  <2> QED
    BY <1>1, <1>3, <2>1
<1>4. FirstOf(all, all[j].block) = CHOOSE i \in DOMAIN all : First(i)
  BY DEF FirstOf
<1> HIDE DEF First
<1> QED
  BY <1>2, <1>3, <1>4

\* What comes after the first n entries.
LEMMA BelowIs ==
  ASSUME NEW all, IsList(all), NEW label, NEW n \in 0..Len(all),
         \A i \in DOMAIN all : label.line < all[i].line <=> n < i,
         label.line \in Nat, \A i \in DOMAIN all : all[i].line \in Nat
  PROVE  Below(all, label) = n + 1
<1> DEFINE after == {i \in DOMAIN all : all[i].line > label.line}
<1>1. DOMAIN all = 1..Len(all) /\ Len(all) \in Nat
  BY ListFacts
<1>2. \A i \in DOMAIN all : all[i].line > label.line <=> n < i
  OBVIOUS
<1>3. after = (n + 1)..Len(all)
  BY <1>1, <1>2
<1>4. Below(all, label) = IF after = {} THEN Len(all) + 1
                          ELSE CHOOSE i \in after : \A j \in after : i <= j
  BY DEF Below
<1> HIDE DEF after
<1>5. CASE ~(n < Len(all))
  <2>1. n + 1 = Len(all) + 1
    BY <1>1, <1>5
  <2>2. after = {}
    BY <1>1, <1>3, <2>1
  <2> QED
    BY <1>4, <2>1, <2>2
<1>6. CASE n < Len(all)
  <2>1. n \in Nat /\ n + 1 <= Len(all)
    BY <1>1, <1>6
  <2>2. n + 1 \in after /\ \A j \in after : n + 1 <= j
    BY <1>1, <1>3, <2>1
  <2>3. \A i \in after : (\A j \in after : i <= j) => i = n + 1
    BY <1>1, <1>3, <2>1, <2>2
  <2>4. (CHOOSE i \in after : \A j \in after : i <= j) = n + 1
    BY <2>2, <2>3
  <2> QED
    BY <1>4, <2>2, <2>4
<1> QED
  BY <1>5, <1>6

\* A byte holds any jump that can be made, and is read back as it was.
LEMMA JumpIsRead ==
  ASSUME NEW p, NEW from \in Int, NEW to, to.entry \in Int, CanJump(p, from, to)
  PROVE  Signed(JumpTo(from, to)) = to.entry - from - 1
BY ProcessesAssumption DEF CanJump, JumpTo, Signed

LEMMA JumpLands ==
  ASSUME NEW label, LabelOK(label), NEW all, all = EntriesOf(label.process), IsList(all),
         \A i \in DOMAIN all : all[i].line \in Nat,
         NEW j \in DOMAIN all, Leads(all, j), CanJump(label.process, j - 1, label)
  PROVE  Lands(all, all[j].block, JumpTo(j - 1, label), label)
<1>1. DOMAIN all = 1..Len(all) /\ Len(all) \in Nat /\ j \in Nat
  BY ListFacts
<1>2. label.entry \in 0..Len(all) /\ label.line \in Nat
  BY <1>1 DEF LabelOK
<1>3. FirstOf(all, all[j].block) + 1 + Signed(JumpTo(j - 1, label)) = label.entry + 1
  <2>1. Signed(JumpTo(j - 1, label)) = label.entry - (j - 1) - 1
    BY <1>1, <1>2, JumpIsRead
  <2> QED
    BY <1>1, <1>2, <2>1, FirstIs
<1>4. Meant(all, label) = label.entry + 1
  <2>1. CASE ~label.within
    <3>1. \A i \in DOMAIN all : label.line < all[i].line <=> label.entry < i
      BY <2>1 DEF LabelOK
    <3> QED
      BY <1>2, <2>1, <3>1, BelowIs DEF Meant
  <2>2. CASE label.within
    <3>1. PICK m \in label.entry..Len(all) :
            /\ all[m].block = all[label.entry].block
            /\ \A i \in DOMAIN all : label.line < all[i].line <=> m < i
      BY <2>2 DEF LabelOK
    <3>2. m \in 0..Len(all) /\ label.entry \in DOMAIN all /\ Leads(all, label.entry)
      BY <1>1, <1>2, <2>2, <3>1 DEF LabelOK
    <3>3. Below(all, label) = m + 1
      BY <1>2, <3>1, <3>2, BelowIs
    <3>4. Meant(all, label) = FirstOf(all, all[Below(all, label) - 1].block) + 1
      BY <2>2 DEF Meant
    <3>5. Below(all, label) - 1 = m
      BY <1>1, <3>2, <3>3
    <3>6. FirstOf(all, all[label.entry].block) = label.entry
      BY <3>2, FirstIs
    <3> QED
      BY <3>1, <3>4, <3>5, <3>6
  <2> QED
    BY <2>1, <2>2
<1> QED
  BY <1>3, <1>4 DEF Lands

-----------------------------------------------------------------------------
\* The end of the source.

\* What ResolvedFacts says of one condact.
LEMMA ResolvedSkip ==
  ASSUME ProcessOK, PendingOK, NEW left, left = Blocked, NEW filled, filled = Resolved(left),
         NEW b \in DOMAIN left, NEW c \in DOMAIN filled[b], NEW skip, skip = filled[b][c]
  PROVE  /\ left[b] = AllBlocks[b] /\ DOMAIN filled[b] = DOMAIN left[b]
         /\ \/ Waiting(b, c) = {} /\ skip = left[b][c]
            \/ /\ skip.op = left[b][c].op
               /\ skip.args[1].written = left[b][c].args[1].written
               /\ \E w \in Waiting(b, c) : skip.args[1].value = JumpTo(w.from, labels[w.name])
<1>1. left[b] = AllBlocks[b] /\ DOMAIN filled[b] = DOMAIN left[b]
  BY ResolvedFacts
<1>2. c \in DOMAIN left[b]
  BY <1>1
<1>3. \/ Waiting(b, c) = {} /\ filled[b][c] = left[b][c]
      \/ /\ filled[b][c].op = left[b][c].op
         /\ filled[b][c].args[1].written = left[b][c].args[1].written
         /\ \E w \in Waiting(b, c) : filled[b][c].args[1].value = JumpTo(w.from, labels[w.name])
  BY <1>2, ResolvedFacts
<1> QED
  BY <1>1, <1>3

\* Every SKIP of the source that names a label goes there in the end.
LEMMA JumpsEnd ==
  ASSUME FilingOK, LandingOK, EndOfProcesses, ~RefuseProcess,
         NEW p \in Nat, NEW all, all = EntriesOf(p), NEW i \in DOMAIN all,
         NEW b, b = all[i].block, NEW c \in DOMAIN blocks'[b], NEW skip, skip = blocks'[b][c],
         Condacts[skip.op].skip, skip.args[1].written.is = "label"
  PROVE  Lands(all, b, skip.args[1].value, labels[skip.args[1].written.name])
<1>1. SourceOK /\ ProcessOK /\ PendingOK /\ EntriesOK /\ LabelsOK /\ JumpsOK
  BY DEF FilingOK, LandingOK
<1>2. PICK left : left = Blocked
  OBVIOUS
<1>3. blocks' = Resolved(left) /\ \A w \in Range(pending) : Resolvable(w)
  BY <1>2, ProcessesEnded DEF Range
<1>4. /\ IsList(all) /\ \A m \in DOMAIN all : all[m].line \in Nat
      /\ b \in DOMAIN AllBlocks
      /\ b = Len(blocks) + 1 <=> p = process /\ i > Len(entries)
  BY <1>1 DEF EntriesOK
<1>5. PICK j \in 1..i : all[j].block = b /\ Leads(all, j)
  BY <1>1 DEF EntriesOK
<1>6. j \in DOMAIN all /\ j \in Nat
  <2>1. PICK n \in Nat : DOMAIN all = 1..n
    BY <1>4, ListFacts
  <2>2. i \in 1..n
    BY <2>1
  <2>3. j \in 1..n /\ j \in Nat
    BY <2>2
  <2> QED
    BY <2>1, <2>3
<1>7. b \in DOMAIN left
  <2>1. CASE mode = "between"
    <3>1. left = blocks
      BY <1>2, <2>1 DEF Blocked
    <3>2. Len(heads) = 0 /\ IsList(blocks)
      BY <1>1, <2>1, EmptyList DEF ProcessOK
    <3>3. ~(p = process /\ i > Len(entries))
      <4>1. CASE p = process
        <5>1. all = Grouped
          BY <4>1 DEF EntriesOf
        <5>2. Len(all) = Len(entries) /\ Len(entries) \in Nat
          BY <1>1, <3>2, <5>1, GroupedFacts
        <5> QED
          BY <1>4, <5>2, ListFacts
      <4> QED
        BY <4>1
    <3>4. b # Len(blocks) + 1
      BY <1>4, <3>3
    <3>5. b \in 1..(Len(blocks) + 1) /\ Len(blocks) \in Nat
      BY <1>1, <1>4, BlocksFacts
    <3>6. b \in 1..Len(blocks)
      BY <3>4, <3>5
    <3> QED
      BY <3>1, <3>2, <3>6, ListFacts
  <2>2. CASE mode # "between"
    BY <1>2, <1>4, <2>2 DEF Blocked, AllBlocks
  <2> QED
    BY <2>1, <2>2
<1>8. /\ left[b] = AllBlocks[b] /\ DOMAIN blocks'[b] = DOMAIN left[b]
      /\ \/ Waiting(b, c) = {} /\ skip = left[b][c]
         \/ /\ skip.op = left[b][c].op
            /\ skip.args[1].written = left[b][c].args[1].written
            /\ \E w \in Waiting(b, c) : skip.args[1].value = JumpTo(w.from, labels[w.name])
  <2>1. ProcessOK /\ PendingOK
    BY <1>1
  <2>2. PICK filled : filled = blocks'
    OBVIOUS
  <2>3. filled = Resolved(left) /\ c \in DOMAIN filled[b] /\ skip = filled[b][c]
    BY <1>3, <2>2
  <2>4. /\ left[b] = AllBlocks[b] /\ DOMAIN filled[b] = DOMAIN left[b]
        /\ \/ Waiting(b, c) = {} /\ skip = left[b][c]
           \/ /\ skip.op = left[b][c].op
              /\ skip.args[1].written = left[b][c].args[1].written
              /\ \E w \in Waiting(b, c) : skip.args[1].value = JumpTo(w.from, labels[w.name])
    BY ONLY <1>2, <1>7, <2>1, <2>3, ResolvedSkip
  <2> QED
    BY <2>2, <2>4
<1>9. PICK was : was = AllBlocks[b][c]
  OBVIOUS
<1>10. PICK name : name = skip.args[1].written.name
  OBVIOUS
<1>11. /\ c \in DOMAIN AllBlocks[b]
       /\ Condacts[was.op].skip /\ was.args[1].written.is = "label"
       /\ was.args[1].written.name = name
  BY <1>8, <1>9, <1>10
<1>12. JumpOK(p, j, b, c)
  BY <1>1, <1>5, <1>6, <1>11 DEF JumpsOK
<1>13. /\ name \in DOMAIN labels
       /\ CanJump(p, j - 1, labels[name])
       /\ skip.args[1].value = JumpTo(j - 1, labels[name])
  <2>1. CASE Waiting(b, c) = {}
    <3>1. skip = was
      BY <1>8, <1>9, <2>1
    <3> QED
      BY <1>9, <1>11, <1>12, <2>1, <3>1 DEF JumpOK
  <2>2. CASE Waiting(b, c) # {}
    <3>1. \A w \in Waiting(b, c) : w.name = name /\ w.process = p /\ w.from = j - 1
      BY <1>9, <1>11, <1>12, <2>2 DEF JumpOK
    <3>2. PICK w \in Waiting(b, c) :
            Waiting(b, c) = {} \/ skip.args[1].value = JumpTo(w.from, labels[w.name])
      BY <1>8, <2>2
    <3>3. Resolvable(w)
      BY <1>3 DEF Waiting
    <3> QED
      BY <2>2, <3>1, <3>2, <3>3 DEF Resolvable
  <2> QED
    BY <2>1, <2>2
<1>14. PICK label : label = labels[name]
  OBVIOUS
<1>15. LabelOK(label) /\ label.process = p
  BY <1>1, <1>13, <1>14 DEF LabelsOK, CanJump
<1>16. Lands(all, all[j].block, JumpTo(j - 1, label), label)
  BY <1>4, <1>5, <1>6, <1>13, <1>14, <1>15, JumpLands
<1> QED
  BY <1>5, <1>10, <1>13, <1>14, <1>16

LEMMA EndLands ==
  ASSUME FilingOK, LandingOK, EndOfProcesses, ~RefuseProcess
  PROVE  SkipsLand'
<1>1. SourceOK /\ ProcessOK /\ PendingOK /\ EntriesOK /\ LabelsOK /\ JumpsOK
  BY DEF FilingOK, LandingOK
<1>2. PICK filed : filed = FiledProcesses
  OBVIOUS
<1>3. db'.processes = filed /\ labels' = labels
  BY <1>1, <1>2, ProcessesEnded, FiledKeeps
<1>4. /\ DOMAIN filed = 1..Len(filed) /\ Len(filed) \in Nat
      /\ \A n \in Nat : EntriesOf(n) = IF n + 1 \in DOMAIN filed THEN filed[n + 1] ELSE <<>>
  BY <1>1, <1>2, FiledEntries, ListFacts
<1>5. ASSUME NEW m \in DOMAIN filed, NEW all, all = filed[m], NEW i \in DOMAIN all,
             NEW b, b = all[i].block, NEW c \in DOMAIN blocks'[b], NEW skip, skip = blocks'[b][c],
             Condacts[skip.op].skip, skip.args[1].written.is = "label"
      PROVE  Lands(all, b, skip.args[1].value, labels'[skip.args[1].written.name])
  <2>1. PICK p : p = m - 1
    OBVIOUS
  <2>2. p \in Nat /\ p + 1 = m
    BY <1>4, <2>1
  <2>3. all = EntriesOf(p)
    BY <1>4, <1>5, <2>2
  <2> QED
    BY <1>3, <1>5, <2>2, <2>3, JumpsEnd
<1> QED
  BY <1>3, <1>5 DEF SkipsLand

-----------------------------------------------------------------------------
\* Every SKIP to a label lands where the label was written.

LEMMA LandingStart ==
  ASSUME Init
  PROVE  LandingInv
<1>1. /\ process = -1 /\ mode = "between" /\ entries = <<>> /\ labels = <<>>
      /\ db.processes = <<>> /\ parsing = "reading"
  BY DEF Init, ProcessesInit, SectionsInit, EmptyDatabase
<1>2. \A p \in Nat : EntriesOf(p) = <<>> /\ NothingYet(p)
  BY <1>1, EmptyList DEF EntriesOf, NothingYet
<1>3. EntriesOK
  BY <1>2, EmptyList DEF EntriesOK
<1>4. LabelsOK
  BY <1>1, EmptyList DEF LabelsOK
<1>5. JumpsOK
  BY <1>2, EmptyList DEF JumpsOK
<1> QED
  BY <1>1, <1>3, <1>4, <1>5 DEF LandingInv, LandingOK, WholeSkipsLand, SkipsLand

\* A process is not opened a second time once it has been.
LEMMA OpenedBefore ==
  ASSUME ProcessOK, OpenedOnce', opened' = opened \/ \E r : opened' = Append(opened, r)
  PROVE  OpenedOnce
<1>1. IsList(opened)
  BY DEF ProcessOK
<1>2. \A i \in DOMAIN opened : i \in DOMAIN opened' /\ opened'[i] = opened[i]
  BY <1>1, ListAppend, ListFacts
<1> QED
  BY <1>2 DEF OpenedOnce

LEMMA LandingStep ==
  ASSUME FilingInv, LandingInv, [Next]_vars
  PROVE  LandingInv'
<1>1. CASE UNCHANGED <<sectionVars, processVars>>
  <2>1. UNCHANGED <<cursor, db, parsing, opened, blocks, labels>>
    BY <1>1 DEF sectionVars, processVars
  <2>2. WholeSkipsLand => WholeSkipsLand'
    <3>1. ASSUME SkipsLand, parsing = "done", NEW all, all = db.processes, NEW these, these = blocks,
                 NEW p \in DOMAIN all, NEW i \in DOMAIN all[p], NEW b, b = all[p][i].block,
                 NEW c \in DOMAIN these[b], NEW skip, skip = these[b][c],
                 Condacts[skip.op].skip, skip.args[1].written.is = "label"
          PROVE  Lands(all[p], b, skip.args[1].value, labels[skip.args[1].written.name])
      BY <3>1 DEF SkipsLand
    <3>2. SkipsLand => SkipsLand'
      <4>1. parsing' = parsing /\ db'.processes = db.processes /\ blocks' = blocks /\ labels' = labels
        BY <2>1
      <4>2. ASSUME SkipsLand, parsing' = "done", NEW p \in DOMAIN db'.processes,
                   NEW i \in DOMAIN db'.processes[p], NEW b, b = db'.processes[p][i].block,
                   NEW c \in DOMAIN blocks'[b], NEW skip, skip = blocks'[b][c],
                   Condacts[skip.op].skip, skip.args[1].written.is = "label"
            PROVE  Lands(db'.processes[p], b, skip.args[1].value, labels'[skip.args[1].written.name])
        BY <3>1, <4>1, <4>2
      <4> QED
        BY <4>2 DEF SkipsLand
    <3>3. OpenedOnce' <=> OpenedOnce
      BY <2>1 DEF OpenedOnce
    <3> QED
      BY <3>2, <3>3 DEF WholeSkipsLand, OpenedOnce
  <2>3. OpenedOnce' => OpenedOnce
    BY <2>1 DEF OpenedOnce
  <2>4. parsing = "reading" /\ LandingOK => LandingOK'
    <3>1. parsing = "reading" => SourceOK /\ ProcessOK /\ cursor' \in Nat /\ cursor' >= cursor
      BY <2>1 DEF FilingInv, FilingOK, SourceOK
    <3> QED
      BY <1>1, <2>1, <3>1, LandingKept
  <2> QED
    BY <2>1, <2>2, <2>3, <2>4 DEF LandingInv
<1>2. CASE ParserNext /\ out' = out
  <2>1. parsing = "reading" /\ FilingOK /\ ProcessOK
    BY <1>2, ParserSteps DEF FilingInv, FilingOK
  <2>2. parsing' = "refused" => LandingInv'
    BY DEF LandingInv, WholeSkipsLand, SkipsLand
  <2>3. parsing' = "reading" /\ (OpenedOnce' => LandingOK') => LandingInv'
    BY DEF LandingInv, WholeSkipsLand, SkipsLand
  <2>4. parsing' = "done" /\ (OpenedOnce' => SkipsLand') => LandingInv'
    BY DEF LandingInv, WholeSkipsLand, OpenedOnce
  <2>5. OpenedOnce => LandingOK
    BY <2>1 DEF LandingInv
  <2>6. CASE SectionsNext /\ UNCHANGED processVars /\ parsing' = parsing
    <3>1. OpenedOnce' => OpenedOnce
      BY <2>1, <2>6, OpenedBefore DEF processVars
    <3> QED
      BY <1>2, <2>1, <2>3, <2>5, <2>6, <3>1, SectionsLand
  <2>7. CASE ~RefuseProcess /\ OpenProcess /\ parsing' = parsing
    <3>1. OpenedOnce' => OpenedOnce
      BY <2>1, <2>7, ProcessOpened, OpenedBefore
    <3> QED
      BY <1>2, <2>1, <2>3, <2>5, <2>7, <3>1, OpenProcessLands
  <2>8. CASE ~RefuseProcess /\ DefineLabel /\ parsing' = parsing
    <3>1. OpenedOnce' => OpenedOnce
      BY <2>1, <2>8, OpenedBefore DEF DefineLabel
    <3> QED
      BY <1>2, <2>1, <2>3, <2>5, <2>8, <3>1, LabelLands
  <2>9. CASE ~RefuseProcess /\ EntryHead /\ parsing' = parsing
    <3>1. OpenedOnce' => OpenedOnce
      BY <2>1, <2>9, HeadRead, OpenedBefore
    <3> QED
      BY <1>2, <2>1, <2>3, <2>5, <2>9, <3>1, HeadLands
  <2>10. CASE Condact /\ parsing' = parsing
    <3>1. OpenedOnce' => OpenedOnce
      <4>1. opened' = opened
        BY <1>2, <2>1, <2>10, CondactWritten DEF FilingOK
      <4> QED
        BY <2>1, <4>1, OpenedBefore
    <3> QED
      BY <1>2, <2>1, <2>3, <2>5, <2>10, <3>1, CondactLands
  <2>11. CASE ~RefuseProcess /\ EndOfProcesses /\ parsing' = "done"
    <3>1. OpenedOnce' => OpenedOnce
      BY <2>1, <2>11, ProcessesEnded, OpenedBefore
    <3> QED
      BY <2>1, <2>4, <2>5, <2>11, <3>1, EndLands
  <2> QED
    BY <1>2, <2>2, <2>6, <2>7, <2>8, <2>9, <2>10, <2>11, ParserSteps
<1> QED
  BY <1>1, <1>2 DEF Next, vars, preprocessorVars

\* A SKIP that names a label moves its entry on to where the label was written,
\* before it or after, across groups that share a block (labels.go: jumpTo,
\* resolvePending), in every source that opens no process twice.
THEOREM SkipsAlwaysLand == Spec => []WholeSkipsLand
<1>1. Init => FilingInv /\ LandingInv
  BY FilingStart, LandingStart
<1>2. FilingInv /\ LandingInv /\ [Next]_vars => (FilingInv /\ LandingInv)'
  BY FilingStep, LandingStep
<1>3. LandingInv => WholeSkipsLand
  BY DEF LandingInv
<1> QED
  BY <1>1, <1>2, <1>3, PTL DEF Spec
=============================================================================
