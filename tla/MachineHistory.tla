--------------------------- MODULE MachineHistory ---------------------------
(***************************************************************************)
(* ProcessMachine with what only an onlooker remembers, for the properties *)
(* that relate a state to an earlier one.  The history variables follow    *)
(* the machine and never constrain it.                                     *)
(***************************************************************************)
EXTENDS ProcessMachine

VARIABLES told,         \* one record per frame of the stack, see Untold
          asked         \* how the last question for an order ended, or "hand": see Asking

history == <<told, asked>>

\* acted: the frame's process, or one it called, has done something since it was
\* called.  stayed: what was in the DOALL's place when it began, but for the object
\* excepted, and has been ever since.  taken: the objects it has come to.
Untold == [acted |-> FALSE, stayed |-> {}, taken |-> {}]

Running(op) == Executing /\ Current.op = op

Acts == done' /\ ~done

\* The loop of the frame on top begins, or goes round: the object it is on now.
Begins == Running("DOALL") /\ Len(stack') = Len(stack)
Rounds == /\ InTurn /\ status' = "turn" /\ Len(stack') = Len(stack)
          /\ Top.doallCondact >= 0
          /\ Running("DONE") \/ (~Top.running /\ Answering = {})

Following(t) ==
    [acted |-> t.acted \/ Acts,
     stayed |-> IF Begins THEN Remaining(LoopFrom(Operands[1]), 0) ELSE t.stayed,
     taken |-> IF Begins THEN {flags'[FlagDoallObj]}
               ELSE IF Rounds THEN t.taken \cup {flags'[FlagDoallObj]} ELSE t.taken]

\* The records as the frames come and go,
Follow ==
    LET top == told[Len(told)]
        rest == SubSeq(told, 1, Len(told) - 1)
    IN  IF stack' = <<>> THEN <<>>
        ELSE IF status = "between" THEN <<Untold>>
        ELSE IF Len(stack') > Len(stack) THEN Append(told, Untold)
        ELSE IF Len(stack') < Len(stack)
             THEN [rest EXCEPT ![Len(rest)].acted = @ \/ top.acted \/ Acts]
        ELSE Append(rest, Following(top))

\* and with what has left the place of its loop forgotten.
Still(records) ==
    [i \in DOMAIN records |->
       [records[i] EXCEPT !.stayed = @ \cap Remaining(stack[i], 0)']]

\* A table writes the flag of the clock itself.
SetsTheClock == Executing /\ Writes([op |-> Current.op, a |-> Operands], FlagTimeFlags)

Asking ==
    IF Running("PARSE") /\ Asks(Operands)
    THEN IF inputs' # inputs THEN "line" ELSE IF finished' THEN "end" ELSE "clock"
    ELSE IF restart' /\ ~restart /\ ~Running("RESTART") THEN "nothing"
    ELSE IF SetsTheClock THEN "hand" ELSE asked

HInit ==
    /\ Init
    /\ told = <<>>
    /\ asked = "nothing"

HNext ==
    /\ Next
    /\ told' = Still(Follow)
    /\ asked' = Asking

HSpec == HInit /\ [][HNext]_<<vars, history>> /\ WF_<<vars, history>>(HNext)

-----------------------------------------------------------------------------
\* An ISDONE answers about the process that has just run: done is never left over
\* from what the caller did before the call (push).
DoneIsTheProcessesOwn ==
    (status = "turn" /\ done /\ stack # <<>>) => told[Len(told)].acted

\* While a loop is on, nothing but the loop moves the flag it counts in: no condact
\* of its entries, and no DOALL of a process it calls.
LoopsOn(f) == f.doallCondact >= 0
GoesOn(i) == i = Len(stack) /\ (Begins \/ Rounds)

CountAlone ==
    \A i \in DOMAIN stack :
       LoopsOn(stack[i]) /\ i \in DOMAIN stack' /\ ~GoesOn(i) =>
          flags'[FlagDoallObj] = flags[FlagDoallObj]

LoopsCountAlone == [][CountAlone]_<<vars, history>>

\* One command becomes one per object: a loop that runs to its end has come to
\* every object that was in its place from the beginning to the end, and on the way
\* it never comes to the same object twice (DOALL, objects.go:307).
LoopEnds ==
    /\ InTurn /\ Len(stack') < Len(stack)
    /\ LoopsOn(Top)
    /\ ~Executing \/ Current.op = "DONE"

EveryObjectGetsItsTurn ==
    [][LoopEnds => told[Len(told)].stayed \subseteq told[Len(told)].taken]_<<vars, history>>

NoObjectGetsTwo ==
    [][Rounds => flags'[FlagDoallObj] \notin told[Len(told)].taken]_<<vars, history>>

\* The bit that tells the tables the clock ran out says so of the last question
\* asked and of none before it (waitForLine), until a table writes its flag by hand.
ClockBitIsNews == asked = "hand" \/ ((flags[FlagTimeFlags] >= TimedOut) <=> (asked = "clock"))
=============================================================================
