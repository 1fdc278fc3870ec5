---------------------------- MODULE ConsoleReader ----------------------------
(***************************************************************************)
(* A person at qrun's console (cmd/qrun/qrun.go: console, run, test): the  *)
(* goroutine that reads the input and hands its lines over an unbuffered   *)
(* channel, and the adventure, which takes them for orders, with a clock   *)
(* or without, and for keypresses.  Lines are numbered as they are typed.  *)
(*                                                                         *)
(* qrun makes one console for a game, and one for every script it tests,   *)
(* all of them on the one standard input.                                  *)
(***************************************************************************)
EXTENDS Integers, Sequences, FiniteSets

CONSTANTS Games,        \* how many consoles are made, one after another
          MaxLines      \* how many lines are typed at most

ASSUME ConsoleAssumption == Games \in Nat \ {0} /\ MaxLines \in Nat

VARIABLES waits,        \* console.waits: whether there is a person to wait for
          typed,        \* how many lines have been typed
          closed,       \* whether the input has ended behind them
          broken,       \* history: whether a Scan has ended on an error
          scanned,      \* how many of them some scanner has taken
          reader,       \* where the goroutine of each console stands
          held,         \* the line each of them holds, or has held
          game,         \* the console in use
          asking,       \* what the adventure waits for, see Questions
          told,         \* whether it has been told that there is no more
          taken         \* history: the lines taken, each for an order or a key

input == <<waits, typed, closed, broken>>
machine == <<game, asking, told, taken>>
vars == <<input, scanned, reader, held, machine>>

\* Not started; in Scan; at the send; returned, and with it the channel closed.
ReaderStates == {"unborn", "scanning", "sending", "gone"}

\* Input, InputWithin and AnyKey, or none of them.
Questions == {"nothing", "order", "order in time", "key"}

-----------------------------------------------------------------------------
\* The person.

Type ==
    /\ ~closed /\ typed < MaxLines
    /\ typed' = typed + 1
    /\ UNCHANGED <<waits, closed, broken, scanned, reader, held, machine>>

Close ==
    /\ ~closed
    /\ closed' = TRUE
    /\ UNCHANGED <<waits, typed, broken, scanned, reader, held, machine>>

-----------------------------------------------------------------------------
\* The goroutine of a console (reading).

\* Mutant: what has not been typed yet is a line as well.
ScanLine_Past(c) ==
    /\ reader[c] = "scanning" /\ scanned <= typed
    /\ scanned' = scanned + 1
    /\ held' = [held EXCEPT ![c] = scanned']
    /\ reader' = [reader EXCEPT ![c] = "sending"]
    /\ UNCHANGED <<input, machine>>

ScanLine(c) ==
    /\ reader[c] = "scanning" /\ scanned < typed
    /\ scanned' = scanned + 1
    /\ held' = [held EXCEPT ![c] = scanned']
    /\ reader' = [reader EXCEPT ![c] = "sending"]
    /\ UNCHANGED <<input, machine>>

\* Mutant: the end of the input is taken for granted.
ScanEnd_Hasty(c) ==
    /\ reader[c] = "scanning" /\ closed
    /\ reader' = [reader EXCEPT ![c] = "gone"]
    /\ UNCHANGED <<input, scanned, held, machine>>

ScanEnd(c) ==
    /\ reader[c] = "scanning" /\ scanned = typed /\ closed
    /\ reader' = [reader EXCEPT ![c] = "gone"]
    /\ UNCHANGED <<input, scanned, held, machine>>

\* Scan is false as well when the input cannot be read, and at a line longer than it
\* has room for; what it was is not asked (Err), and what comes after is not read.
ScanFails(c) ==
    /\ reader[c] = "scanning"
    /\ reader' = [reader EXCEPT ![c] = "gone"]
    /\ broken' = TRUE
    /\ UNCHANGED <<waits, typed, closed, scanned, held, machine>>

-----------------------------------------------------------------------------
\* The adventure.  Whatever asks first starts the goroutine; one that was told there
\* is no more asks for no more orders.

Started == [reader EXCEPT ![game] = IF @ = "unborn" THEN "scanning" ELSE @]

\* A pause with nobody there to press a key is over at once (AnyKey).
Ask(what) ==
    /\ asking = "nothing"
    /\ IF what = "key" THEN waits ELSE ~told
    /\ asking' = what
    /\ reader' = Started
    /\ UNCHANGED <<input, scanned, held, game, told, taken>>

\* Mutant: an answer that is only just in time is dropped, and the wait goes on.
Receive_Drops ==
    /\ asking # "nothing" /\ reader[game] = "sending"
    /\ reader' = [reader EXCEPT ![game] = "scanning"]
    /\ \/ /\ asking' = "nothing"
          /\ taken' = Append(taken, [line |-> held[game], asked |-> asking])
       \/ asking = "order in time" /\ UNCHANGED <<asking, taken>>
    /\ UNCHANGED <<input, scanned, held, game, told>>

\* Mutant: the goroutine reads one line and returns.
Receive_LastOne ==
    /\ asking # "nothing" /\ reader[game] = "sending"
    /\ reader' = [reader EXCEPT ![game] = "gone"]
    /\ asking' = "nothing"
    /\ taken' = Append(taken, [line |-> held[game], asked |-> asking])
    /\ UNCHANGED <<input, scanned, held, game, told>>

\* The send and the receive happen as one.
Receive ==
    /\ asking # "nothing" /\ reader[game] = "sending"
    /\ reader' = [reader EXCEPT ![game] = "scanning"]
    /\ asking' = "nothing"
    /\ taken' = Append(taken, [line |-> held[game], asked |-> asking])
    /\ UNCHANGED <<input, scanned, held, game, told>>

\* A closed channel always answers: an order is told so, a pause is over.
ReceiveEnd ==
    /\ asking # "nothing" /\ reader[game] = "gone"
    /\ asking' = "nothing"
    /\ told' = (told \/ asking # "key")
    /\ UNCHANGED <<input, scanned, reader, held, game, taken>>

\* The clock runs out, and may do so with a line or the end there as well: a select
\* with both of its cases ready takes either.
Expire ==
    /\ asking = "order in time"
    /\ asking' = "nothing"
    /\ UNCHANGED <<input, scanned, reader, held, game, told, taken>>

\* One script is over, and the next one has a console of its own (test).
NextGame ==
    /\ asking = "nothing" /\ game < Games
    /\ game' = game + 1
    /\ told' = FALSE
    /\ UNCHANGED <<input, scanned, reader, held, asking, taken>>

\* The last game is over once nobody is left to give an order.
Ended == told /\ asking = "nothing" /\ game = Games /\ UNCHANGED vars

-----------------------------------------------------------------------------
Init ==
    /\ waits \in BOOLEAN
    /\ typed = 0 /\ closed = FALSE /\ broken = FALSE /\ scanned = 0
    /\ reader = [c \in 1..Games |-> "unborn"]
    /\ held = [c \in 1..Games |-> 0]
    /\ game = 1 /\ asking = "nothing" /\ told = FALSE
    /\ taken = <<>>

Goroutines == \E c \in 1..Games : ScanLine(c) \/ ScanEnd(c)
AsksForAnOrder == Ask("order") \/ Ask("order in time")

Next ==
    \/ Type \/ Close
    \/ Goroutines \/ \E c \in 1..Games : ScanFails(c)
    \/ AsksForAnOrder \/ Ask("key")
    \/ Receive \/ ReceiveEnd \/ Expire
    \/ NextGame \/ Ended

\* The goroutines run, and nothing makes a Scan fail; an adventure goes on asking for orders while there are any; a
\* line that is there for one question after another is taken in the end, for the
\* clock starts anew each time and takes at least a second; and the person ends.
Spec ==
    /\ Init /\ [][Next]_vars
    /\ WF_vars(Goroutines) /\ SF_vars(Receive) /\ SF_vars(ReceiveEnd)
    /\ SF_vars(AsksForAnOrder) /\ WF_vars(Close)

-----------------------------------------------------------------------------
\* The input, the goroutines and the questions are where they can be.
ConsoleTypeOK ==
    /\ typed \in 0..MaxLines /\ scanned \in 0..typed
    /\ waits \in BOOLEAN /\ closed \in BOOLEAN /\ broken \in BOOLEAN /\ told \in BOOLEAN
    /\ reader \in [1..Games -> ReaderStates]
    /\ held \in [1..Games -> 0..scanned]
    /\ game \in 1..Games /\ asking \in Questions
    /\ \A i \in DOMAIN taken : taken[i] \in [line : 1..typed, asked : Questions \ {"nothing"}]

\* Whatever clocks run out in between, the lines come to the adventure in the order
\* they were typed, none twice, and none left out but the one that is being handed
\* to it (reading, "the only place the scanner is read from").
InHand == {c \in 1..Games : reader[c] = "sending"}

LinesComeInOrder ==
    /\ scanned = Len(taken) + Cardinality(InHand)
    /\ \A i \in DOMAIN taken : taken[i].line = i

\* No console but one has ever been asked for a line: the others, if they are made,
\* played scripts that never stopped at a breakpoint.
OneReader == \A c, d \in 1..Games : (reader[c] # "unborn" /\ reader[d] # "unborn") => c = d

\* The same of a game, and of the one script that stops, whichever of them it is.
OneReaderKeepsOrder == OneReader => LinesComeInOrder

\* Nor is the adventure told that there is no more before every line typed ahead of
\* the end has been taken, however many of its waits ran out (Input, InputWithin);
\* unless a Scan failed, which ends the lines where it does.
EndComesLast == (told /\ OneReader /\ ~broken) => closed /\ Len(taken) = typed

\* Every line typed is taken in the end, if no Scan fails.
EveryLineIsTaken ==
    \A n \in 1..MaxLines : (typed >= n) ~> (Len(taken) >= n \/ ~OneReader \/ broken)
=============================================================================
