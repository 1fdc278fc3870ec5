----------------------------- MODULE ConsoleProofs -----------------------------
(***************************************************************************)
(* The console keeps the order of the lines, for every number of games and *)
(* of lines: where the goroutine of a console stands says how far the      *)
(* lines have come.                                                        *)
(***************************************************************************)
EXTENDS ConsoleReader, FiniteSetTheorems, SequenceTheorems, TLAPS

Takings == [line : Nat, asked : Questions \ {"nothing"}]

\* The invariant: a line is in a goroutine's hand, or it has been taken; and a goroutine
\* that has returned has seen the end of everything, or an error.
HandsOK ==
  /\ taken \in Seq(Takings)
  /\ \A c \in 1..Games : reader[c] = "sending" => held[c] # 0
  /\ \A c \in 1..Games : reader[c] = "gone" => broken \/ (closed /\ scanned = typed)

OrderOK == OneReader =>
  /\ \A c \in InHand : held[c] = scanned /\ scanned = Len(taken) + 1
  /\ InHand = {} => scanned = Len(taken)
  /\ \A i \in DOMAIN taken : taken[i].line = i

ConsoleInv == ConsoleTypeOK /\ HandsOK /\ OrderOK /\ EndComesLast

\* Numbers and states of one kind or another.
LEMMA ConsoleTypes ==
  ASSUME ConsoleTypeOK
  PROVE  /\ Games \in Nat \ {0} /\ MaxLines \in Nat
         /\ typed \in Nat /\ scanned \in Nat /\ scanned <= typed /\ typed <= MaxLines
         /\ \A c \in 1..Games : held[c] \in Nat
         /\ game \in 1..Games
BY ConsoleAssumption DEF ConsoleTypeOK

\* With one reader, at most one line is in hand.
LEMMA OneHand ==
  ASSUME OneReader
  PROVE  \A c, d \in InHand : c = d
BY DEF OneReader, InHand

LEMMA InOrderFollows ==
  ASSUME ConsoleInv, OneReader
  PROVE  LinesComeInOrder
<1>1. taken \in Seq(Takings) /\ Len(taken) \in Nat
  BY DEF ConsoleInv, HandsOK
<1>2. CASE InHand = {}
  BY <1>1, <1>2, FS_EmptySet DEF ConsoleInv, OrderOK, LinesComeInOrder
<1>3. CASE InHand # {}
  <2>1. PICK c \in InHand : TRUE
    BY <1>3
  <2>2. InHand = {c}
    BY <2>1, OneHand
  <2>3. Cardinality(InHand) = 1
    BY <2>2, FS_Singleton
  <2> QED
    BY <1>1, <2>1, <2>3 DEF ConsoleInv, OrderOK, LinesComeInOrder
<1> QED
  BY <1>2, <1>3

-----------------------------------------------------------------------------
LEMMA ConsoleStarts == Init => ConsoleInv
<1> SUFFICES ASSUME Init PROVE ConsoleInv
  OBVIOUS
<1> USE DEF Init
<1>1. InHand = {}
  BY DEF InHand
<1>2. ConsoleTypeOK
  <2>1. typed \in 0..MaxLines /\ scanned \in 0..typed /\ game \in 1..Games
    BY ConsoleAssumption
  <2>2. reader \in [1..Games -> ReaderStates] /\ held \in [1..Games -> 0..scanned]
    BY DEF ReaderStates
  <2>3. asking \in Questions /\ DOMAIN taken = {}
    BY DEF Questions
  <2> QED
    BY <2>1, <2>2, <2>3 DEF ConsoleTypeOK
<1>3. HandsOK
  BY DEF HandsOK
<1>4. OrderOK
  BY <1>1 DEF OrderOK
<1> QED
  BY <1>2, <1>3, <1>4 DEF ConsoleInv, EndComesLast

\* A goroutine that has been started is never unstarted, so with one reader after a step
\* there was one before it.
LEMMA ReadersStay ==
  ASSUME ConsoleTypeOK, [Next]_vars, OneReader'
  PROVE  OneReader
<1>1. \A c \in 1..Games : reader[c] # "unborn" => reader'[c] # "unborn"
  <2> SUFFICES ASSUME NEW c \in 1..Games, reader[c] # "unborn" PROVE reader'[c] # "unborn"
    OBVIOUS
  <2>1. reader \in [1..Games -> ReaderStates]
    BY DEF ConsoleTypeOK
  <2>2. ASSUME NEW d \in 1..Games, ScanLine(d) \/ ScanEnd(d) \/ ScanFails(d)
               PROVE reader'[c] # "unborn"
    BY <2>1, <2>2 DEF ScanLine, ScanEnd, ScanFails
  <2>3. ASSUME NEW what, Ask(what) PROVE reader'[c] # "unborn"
    BY <2>1, <2>3 DEF Ask, Started
  <2>4. CASE Receive
    BY <2>1, <2>4 DEF Receive
  <2>5. CASE UNCHANGED reader
    BY <2>5
  <2> QED
    BY <2>2, <2>3, <2>4, <2>5
    DEF Next, vars, Goroutines, AsksForAnOrder, Type, Close, ReceiveEnd, Expire, NextGame, Ended
<1>2. Games' = Games
  OBVIOUS
<1> QED
  BY <1>1 DEF OneReader

-----------------------------------------------------------------------------
LEMMA TypeKeeps ==
  ASSUME ConsoleInv, Type PROVE ConsoleInv'
<1> USE DEF ConsoleInv, Type, machine
<1>1. ConsoleTypeOK'
  <2>1. typed' \in 0..MaxLines /\ scanned' \in 0..typed' /\ 1..typed \subseteq 1..typed'
    BY ConsoleTypes
  <2>2. \A i \in DOMAIN taken' : taken'[i] \in [line : 1..typed', asked : Questions \ {"nothing"}]
    BY <2>1 DEF ConsoleTypeOK
  <2> QED
    BY <2>1, <2>2 DEF ConsoleTypeOK
<1>2. HandsOK' /\ OrderOK'
  BY DEF HandsOK, OrderOK, OneReader, InHand, machine
<1>3. EndComesLast'
  BY DEF EndComesLast, OneReader, machine
<1> QED
  BY <1>1, <1>2, <1>3

LEMMA CloseKeeps ==
  ASSUME ConsoleInv, Close PROVE ConsoleInv'
<1> USE DEF ConsoleInv, Close
<1>1. ConsoleTypeOK'
  BY DEF ConsoleTypeOK, machine
<1>2. HandsOK' /\ OrderOK'
  BY DEF HandsOK, OrderOK, OneReader, InHand, machine
<1>3. EndComesLast'
  BY DEF EndComesLast, OneReader, machine
<1> QED
  BY <1>1, <1>2, <1>3

LEMMA ScanLineKeeps ==
  ASSUME ConsoleInv, NEW c \in 1..Games, ScanLine(c) PROVE ConsoleInv'
<1> USE DEF ConsoleInv, ScanLine, input, machine
<1>1. ConsoleTypeOK'
  <2>1. scanned' \in 0..typed' /\ held' \in [1..Games -> 0..scanned']
    BY ConsoleTypes DEF ConsoleTypeOK
  <2>2. reader' \in [1..Games -> ReaderStates]
    BY DEF ConsoleTypeOK, ReaderStates
  <2> QED
    BY <2>1, <2>2 DEF ConsoleTypeOK
<1>2. reader \in [1..Games -> ReaderStates] /\ held \in [1..Games -> 0..scanned]
  BY DEF ConsoleTypeOK
<1>3. HandsOK'
  BY <1>2, ConsoleTypes DEF HandsOK
<1>4. ASSUME OneReader' PROVE OneReader
  BY <1>4, ReadersStay DEF Next, Goroutines
<1>5. ASSUME OneReader' PROVE InHand = {} /\ InHand' = {c}
  <2>1. c \notin InHand /\ c \in InHand'
    BY <1>2 DEF InHand
  <2>2. \A d \in InHand : d = c
    BY <1>4, <1>5 DEF OneReader, InHand
  <2>3. \A d \in InHand' : d = c
    BY <1>2, <2>2, <1>5 DEF OneReader, InHand
  <2> QED
    BY <2>1, <2>2, <2>3
<1>6. OrderOK'
  BY <1>2, <1>4, <1>5, ConsoleTypes DEF OrderOK
<1>7. EndComesLast'
  <2> SUFFICES ASSUME OneReader', told', ~broken' PROVE FALSE
    BY DEF EndComesLast
  <2>1. OneReader /\ InHand = {}
    BY <1>4, <1>5
  <2>2. Len(taken) = typed /\ scanned = Len(taken)
    BY <2>1 DEF EndComesLast, OrderOK
  <2> QED
    BY <2>2, ConsoleTypes
<1> QED
  BY <1>1, <1>3, <1>6, <1>7

LEMMA ScanEndKeeps ==
  ASSUME ConsoleInv, NEW c \in 1..Games, ScanEnd(c) PROVE ConsoleInv'
<1> USE DEF ConsoleInv, ScanEnd, input, machine
<1>1. reader \in [1..Games -> ReaderStates]
  BY DEF ConsoleTypeOK
<1>2. ConsoleTypeOK'
  BY DEF ConsoleTypeOK, ReaderStates
<1>3. HandsOK'
  BY <1>1 DEF HandsOK
<1>4. InHand' = InHand
  BY <1>1 DEF InHand
<1>5. ASSUME OneReader' PROVE OneReader
  BY <1>5, ReadersStay DEF Next, Goroutines
<1>6. OrderOK' /\ EndComesLast'
  BY <1>4, <1>5 DEF OrderOK, EndComesLast
<1> QED
  BY <1>2, <1>3, <1>6

LEMMA ScanFailsKeeps ==
  ASSUME ConsoleInv, NEW c \in 1..Games, ScanFails(c) PROVE ConsoleInv'
<1> USE DEF ConsoleInv, ScanFails, machine
<1>1. reader \in [1..Games -> ReaderStates]
  BY DEF ConsoleTypeOK
<1>2. ConsoleTypeOK'
  BY DEF ConsoleTypeOK, ReaderStates
<1>3. HandsOK'
  BY <1>1 DEF HandsOK
<1>4. InHand' = InHand
  BY <1>1 DEF InHand
<1>5. ASSUME OneReader' PROVE OneReader
  BY <1>5, ReadersStay DEF Next
<1>6. OrderOK' /\ EndComesLast'
  BY <1>4, <1>5 DEF OrderOK, EndComesLast
<1> QED
  BY <1>2, <1>3, <1>6

LEMMA AskKeeps ==
  ASSUME ConsoleInv, NEW what \in Questions \ {"nothing"}, Ask(what) PROVE ConsoleInv'
<1> USE DEF ConsoleInv, Ask, Started, input
<1>1. reader \in [1..Games -> ReaderStates]
  BY DEF ConsoleTypeOK
<1>2. ConsoleTypeOK'
  BY DEF ConsoleTypeOK, ReaderStates
<1>3. HandsOK'
  BY <1>1 DEF HandsOK
<1>4. InHand' = InHand
  BY <1>1 DEF InHand
<1>5. ASSUME OneReader' PROVE OneReader
  BY <1>1, <1>5 DEF OneReader
<1>6. OrderOK' /\ EndComesLast'
  BY <1>4, <1>5 DEF OrderOK, EndComesLast
<1> QED
  BY <1>2, <1>3, <1>6

LEMMA TakingType ==
  ASSUME ConsoleTypeOK, NEW line \in 1..typed, NEW asked \in Questions \ {"nothing"}
  PROVE  [line |-> line, asked |-> asked] \in Takings
<1>1. line \in Nat
  BY ConsoleTypes
<1> QED
  BY <1>1 DEF Takings

LEMMA ReceiveKeeps ==
  ASSUME ConsoleInv, Receive PROVE ConsoleInv'
<1> USE DEF ConsoleInv, Receive, input
<1> DEFINE one == [line |-> held[game], asked |-> asking]
<1>1. /\ reader \in [1..Games -> ReaderStates] /\ held \in [1..Games -> 0..scanned]
      /\ game \in 1..Games /\ asking \in Questions \ {"nothing"}
  BY DEF ConsoleTypeOK
<1>2. taken \in Seq(Takings) /\ Len(taken) \in Nat
  BY DEF HandsOK
<1>3. held[game] \in 1..typed
  <2>1. reader[game] = "sending"
    OBVIOUS
  <2>2. held[game] # 0
    BY <1>1, <2>1 DEF HandsOK
  <2>3. held[game] \in 0..scanned /\ scanned \in Nat /\ typed \in Nat /\ scanned <= typed
    BY <1>1, ConsoleTypes
  <2> HIDE DEF ConsoleInv, Receive
  <2> QED
    BY <2>2, <2>3
<1>4. one \in Takings
  BY <1>1, <1>3, TakingType
<1>5. /\ taken' \in Seq(Takings) /\ Len(taken') = Len(taken) + 1
      /\ taken'[Len(taken) + 1] = one
      /\ \A i \in DOMAIN taken : taken'[i] = taken[i]
      /\ DOMAIN taken = 1..Len(taken) /\ DOMAIN taken' = 1..(Len(taken) + 1)
  BY <1>2, <1>4
<1>6. ConsoleTypeOK'
  <2>1. \A i \in DOMAIN taken' : taken'[i] \in [line : 1..typed, asked : Questions \ {"nothing"}]
    <3> SUFFICES ASSUME NEW i \in DOMAIN taken'
                 PROVE  taken'[i] \in [line : 1..typed, asked : Questions \ {"nothing"}]
      OBVIOUS
    <3>1. CASE i \in DOMAIN taken
      BY <3>1, <1>5 DEF ConsoleTypeOK
    <3>2. CASE i = Len(taken) + 1
      BY <3>2, <1>5, <1>3, <1>1
    <3> QED
      BY <3>1, <3>2, <1>5, <1>2
  <2>2. reader' \in [1..Games -> ReaderStates] /\ asking' \in Questions
    BY <1>1 DEF ReaderStates, Questions
  <2> QED
    BY <2>1, <2>2 DEF ConsoleTypeOK
<1>7. HandsOK'
  BY <1>1, <1>5 DEF HandsOK
<1>8. ASSUME OneReader' PROVE OneReader
  BY <1>8, ReadersStay DEF Next
<1>9. game \in InHand
  BY <1>1 DEF InHand
<1>10. ASSUME OneReader PROVE InHand' = {}
  BY <1>1, <1>9, <1>10, OneHand DEF InHand
<1>11. OrderOK'
  <2> SUFFICES ASSUME OneReader' PROVE /\ scanned = Len(taken')
                                       /\ \A i \in DOMAIN taken' : taken'[i].line = i
    BY <1>8, <1>10 DEF OrderOK
  <2>1. held[game] = scanned /\ scanned = Len(taken) + 1
    BY <1>8, <1>9 DEF OrderOK
  <2>2. \A i \in DOMAIN taken : taken[i].line = i
    BY <1>8 DEF OrderOK
  <2> QED
    BY <2>1, <2>2, <1>5, <1>2
<1>12. EndComesLast'
  <2> SUFFICES ASSUME OneReader', told', ~broken' PROVE FALSE
    BY DEF EndComesLast
  <2>1. scanned = Len(taken) + 1 /\ Len(taken) = typed
    BY <1>8, <1>9 DEF OrderOK, EndComesLast
  <2> QED
    BY <2>1, ConsoleTypes
<1> QED
  BY <1>6, <1>7, <1>11, <1>12

LEMMA ReceiveEndKeeps ==
  ASSUME ConsoleInv, ReceiveEnd PROVE ConsoleInv'
<1> USE DEF ConsoleInv, ReceiveEnd, input
<1>1. ConsoleTypeOK'
  BY DEF ConsoleTypeOK, Questions
<1>2. HandsOK' /\ OrderOK'
  BY DEF HandsOK, OrderOK, OneReader, InHand
<1>3. EndComesLast'
  <2> SUFFICES ASSUME OneReader, ~broken PROVE closed /\ Len(taken) = typed
    BY DEF EndComesLast, OneReader
  <2>1. game \in 1..Games
    BY DEF ConsoleTypeOK
  <2>2. closed /\ scanned = typed
    BY <2>1 DEF HandsOK
  <2>3. InHand = {}
    BY <2>1 DEF OneReader, InHand
  <2> QED
    BY <2>2, <2>3 DEF OrderOK
<1> QED
  BY <1>1, <1>2, <1>3

LEMMA ExpireKeeps ==
  ASSUME ConsoleInv, Expire PROVE ConsoleInv'
BY DEF ConsoleInv, Expire, input, ConsoleTypeOK, Questions, HandsOK, OrderOK, EndComesLast,
       OneReader, InHand

LEMMA NextGameKeeps ==
  ASSUME ConsoleInv, NextGame PROVE ConsoleInv'
<1> USE DEF ConsoleInv, NextGame, input
<1>1. ConsoleTypeOK'
  <2>1. game' \in 1..Games
    BY ConsoleTypes
  <2> QED
    BY <2>1 DEF ConsoleTypeOK
<1>2. HandsOK' /\ OrderOK' /\ EndComesLast'
  BY DEF HandsOK, OrderOK, EndComesLast, OneReader, InHand
<1> QED
  BY <1>1, <1>2

LEMMA ConsoleStands ==
  ASSUME ConsoleInv, UNCHANGED vars PROVE ConsoleInv'
BY DEF vars, input, machine, ConsoleInv, ConsoleTypeOK, HandsOK, OrderOK, EndComesLast,
       OneReader, InHand

LEMMA ConsoleKeeps == ConsoleInv /\ [Next]_vars => ConsoleInv'
<1> SUFFICES ASSUME ConsoleInv, [Next]_vars PROVE ConsoleInv'
  OBVIOUS
<1>1. CASE Goroutines
  BY <1>1, ScanLineKeeps, ScanEndKeeps DEF Goroutines
<1>2. CASE AsksForAnOrder \/ Ask("key")
  <2>1. {"order", "order in time", "key"} \subseteq Questions \ {"nothing"}
    BY DEF Questions
  <2> QED
    BY <1>2, <2>1, AskKeeps DEF AsksForAnOrder
<1> QED
  BY <1>1, <1>2, TypeKeeps, CloseKeeps, ScanFailsKeeps, ReceiveKeeps, ReceiveEndKeeps, ExpireKeeps, NextGameKeeps,
     ConsoleStands DEF Next, Ended

-----------------------------------------------------------------------------
\* However many games and lines there are: as long as one console has been asked for a
\* line, the lines come in the order they were typed, none twice and none left out, whatever
\* clocks run out (console, reading, InputWithin).
THEOREM LinesKeepTheirOrder == Spec => []OneReaderKeepsOrder
<1>1. ConsoleInv => OneReaderKeepsOrder
  BY InOrderFollows DEF ConsoleInv, OneReaderKeepsOrder
<1> QED
  BY <1>1, ConsoleStarts, ConsoleKeeps, PTL DEF Spec

\* What was typed is split between the queue, the reader and the adventure, each with
\* lines that exist: nothing is read past the end (console, reading).
THEOREM ConsoleStaysTyped == Spec => []ConsoleTypeOK
<1>1. ConsoleInv => ConsoleTypeOK
  BY DEF ConsoleInv
<1> QED
  BY <1>1, ConsoleStarts, ConsoleKeeps, PTL DEF Spec

\* And as long as no Scan fails, the adventure is told that there is no more only once it has
\* had every line typed ahead of the end (Input, InputWithin).
THEOREM EndAlwaysComesLast == Spec => []EndComesLast
<1>1. ConsoleInv => EndComesLast
  BY DEF ConsoleInv
<1> QED
  BY <1>1, ConsoleStarts, ConsoleKeeps, PTL DEF Spec
=============================================================================
