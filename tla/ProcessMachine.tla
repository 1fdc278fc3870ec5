--------------------------- MODULE ProcessMachine ---------------------------
(***************************************************************************)
(* The interpreter: Machine.Run's loop of turns, the process stack of      *)
(* run.go and the condacts that move control (condacts.go, objects.go).    *)
(*                                                                         *)
(* One step is one of: a turn begins, the frame on top looks for its next  *)
(* entry, a condact runs, an entry runs out of condacts, a turn ends.      *)
(* Processes, entries and condacts are numbered from 0 as in the code, so  *)
(* that the -1 a frame starts at and the positions DOALL keeps are the     *)
(* code's own.                                                             *)
(***************************************************************************)
EXTENDS World

CONSTANTS Lines,        \* what the player may type: records [said, quoted, reply]
          Impatient,    \* whether the console can be told to stop waiting
          MaxInputs,    \* how many lines the player types before walking away
          SpinLimit     \* turns without a line before Run gives up; 1000 in the code

\* What a line answers to QUIT and to END: the letter it begins with.
Replies == {"yes", "no", "other"}

\* A process is entries, and an entry the words it answers and its condacts.
Condact == {c \in [op : STRING, a : Seq(Byte), indirect : BOOLEAN] : HasOperands(c.op, c.a)}
Entry == [verb : Byte, noun : Byte, condacts : Seq(Condact)]

ASSUME MachineAssumption ==
    /\ \A d \in Databases : d.processes \in Seq(Seq(Entry))
    /\ Lines \subseteq [said : Seq(Word), quoted : Seq(Word), reply : Replies]
    /\ Impatient \in BOOLEAN
    /\ MaxInputs \in Nat
    /\ SpinLimit \in Nat

VARIABLES stack,        \* Machine.stack, the top last
          finished, restart, inputs,    \* the fields of Machine with those names
          literal,      \* Machine.literal, as words
          indir,        \* the value an INDIR left for the next condact, or None
          before,       \* Run's local: inputs as the turn began
          spins,        \* Run's local
          status        \* where Run stands; see Statuses

run == <<finished, restart, inputs, literal>>
loop == <<before, spins, status>>
vars == <<db, world, stack, run, indir, loop>>

None == -1

\* "between" two turns, in a "turn", or returned: the game is "over", an error
\* "looping" or "broken", or a panic, "crashed".
Statuses == {"between", "turn", "over", "looping", "broken", "crashed"}

\* Conditions that fail with an opcode nothing implements ("not implemented yet").
NotImplemented == {"WEAR", "AUTOW", "AUTOR", "SYNONYM", "AUTOP", "AUTOT", "PUTIN",
                   "TAKEOUT", "EXTERN", "CALL", "INKEY", "COPYOF", "COPYOO", "COPYFO",
                   "XMES"}

-----------------------------------------------------------------------------
\* Frames.

\* Mutant: a frame is called with no loop set aside, and zero is one.
Frame_Unset(process) ==
    [process |-> process, entry |-> -1, condact |-> 0, running |-> FALSE,
     doallEntry |-> 0, doallCondact |-> 0, doallWhere |-> 0]

Frame(process) ==
    [process |-> process, entry |-> -1, condact |-> 0, running |-> FALSE,
     doallEntry |-> -1, doallCondact |-> -1, doallWhere |-> 0]

Top == stack[Len(stack)]
Below == SubSeq(stack, 1, Len(stack) - 1)
WithTop(f) == Append(Below, f)

EntriesOf(process) ==
    IF process + 1 \in DOMAIN db.processes THEN db.processes[process + 1] ELSE <<>>

HasEntry(process, entry) == 0 <= entry /\ entry < Len(EntriesOf(process))
Block(process, entry) == EntriesOf(process)[entry + 1].condacts

\* Mutant: the end of the input is noticed by nobody.
InTurn_Deaf == status = "turn" /\ stack # <<>> /\ ~restart

InTurn == status = "turn" /\ stack # <<>> /\ ~finished /\ ~restart

\* The condact the frame on top is about to run, and whether there is one.
Executing == InTurn /\ Top.running /\ HasEntry(Top.process, Top.entry)
             /\ Top.condact < Len(Block(Top.process, Top.entry))
Current == Block(Top.process, Top.entry)[Top.condact + 1]

\* The frame on top as a condact sees it, already past that condact.
Here == [Top EXCEPT !.condact = @ + 1]

\* exec: the operands, the first one read through its flag when the condact is
\* indirect and the second one what an INDIR in front left there.
Operands ==
    LET given == IF Current.indirect /\ Current.a # <<>>
                 THEN [Current.a EXCEPT ![1] = flags[@]] ELSE Current.a
    IN  IF indir # None /\ Len(given) > 1 THEN [given EXCEPT ![2] = indir] ELSE given

-----------------------------------------------------------------------------
\* DOALL.

Place(f) == Resolved(flags, f.doallWhere)

\* The objects a frame's DOALL has still to come to, from the number n on: those in
\* its place but for the one the sentence excepts (doallSearch).
Remaining(f, n) ==
    {o \in Objects : /\ n <= o /\ loc[o] = Place(f)
                     /\ ~(Data(o).noun = flags[FlagNoun2]
                          /\ Data(o).adjective = flags[FlagAdject2])}

\* Mutant: the object the loop is on comes up again.
NextObject_Same == flags[FlagDoallObj] % 256

\* Mutant: the loop counts twice.
NextObject_SkipsOne == (flags[FlagDoallObj] + 2) % 256

NextObject == (flags[FlagDoallObj] + 1) % 256

\* Go round with the first of those objects: it becomes the sentence's noun.
GoRound(f, objects) ==
    /\ stack' = WithTop([f EXCEPT !.entry = f.doallEntry, !.condact = f.doallCondact,
                                  !.running = TRUE])
    /\ flags' = [flags EXCEPT ![FlagDoallObj] = First(objects),
                              ![FlagNoun1] = Data(First(objects)).noun,
                              ![FlagAdject1] = Data(First(objects)).adjective]

Looping(f) == f.doallCondact >= 0 /\ Remaining(f, NextObject) # {}

-----------------------------------------------------------------------------
\* The turn.

\* Run: the head of its loop.
BeginTurn ==
    /\ status = "between"
    /\ before' = inputs
    /\ restart' = FALSE
    /\ stack' = <<Frame(0)>>
    /\ done' = FALSE
    /\ status' = "turn"
    /\ UNCHANGED <<db, flags, loc, continuing, picture, finished, inputs, literal, indir,
                   spins>>

\* The condition of Run's loop, met again after a turn that restarts.
Again == IF finished THEN "over" ELSE "between"

TurnEnds == status = "turn" /\ (stack = <<>> \/ finished \/ restart)

\* Mutant: no number of idle turns is too many.
EndTurn_Unguarded ==
    /\ TurnEnds
    /\ IF ~restart THEN status' = "over" /\ UNCHANGED spins
       ELSE status' = Again /\ spins' = IF inputs > before THEN 0 ELSE spins + 1
    /\ UNCHANGED <<db, world, stack, run, indir, before>>

\* Mutant: idle turns are not counted.
EndTurn_Uncounted ==
    /\ TurnEnds
    /\ status' = IF ~restart THEN "over" ELSE Again
    /\ UNCHANGED <<db, world, stack, run, indir, before, spins>>

\* Run: what follows runStack.
EndTurn ==
    /\ TurnEnds
    /\ IF ~restart THEN status' = "over" /\ UNCHANGED spins
       ELSE IF inputs > before THEN status' = Again /\ spins' = 0
       ELSE /\ spins' = spins + 1
            /\ status' = IF spins + 1 > SpinLimit THEN "looping" ELSE Again
    /\ UNCHANGED <<db, world, stack, run, indir, before>>

Matches(e) == e.verb \in {NoWord, flags[FlagVerb]} /\ e.noun \in {NoWord, flags[FlagNoun1]}

\* The entries the frame on top has still to come to that answer the sentence.
Answering ==
    {n \in (Top.entry + 1)..(Len(EntriesOf(Top.process)) - 1) :
       Matches(EntriesOf(Top.process)[n + 1])}

\* findEntry and loopOrPop: the next entry that answers; or, when there is none, the
\* next object of the DOALL; or, when there is none, back to the caller.
FindEntry ==
    /\ InTurn
    /\ ~Top.running
    /\ Top.entry + 1 >= 0
    /\ \/ /\ Answering # {}
          /\ stack' = WithTop([Top EXCEPT !.entry = First(Answering), !.condact = 0,
                                          !.running = TRUE])
          /\ UNCHANGED flags
       \/ Answering = {} /\ Looping(Top) /\ GoRound(Top, Remaining(Top, NextObject))
       \/ Answering = {} /\ ~Looping(Top) /\ stack' = Below /\ UNCHANGED flags
    /\ continuing' = TRUE
    /\ UNCHANGED <<db, loc, done, picture, run, indir, loop>>

\* A SKIP beyond the first entry leaves an index that no entry has.
Crash ==
    /\ InTurn
    /\ ~Top.running
    /\ Top.entry + 1 < 0
    /\ status' = "crashed"
    /\ UNCHANGED <<db, world, stack, run, indir, before, spins>>

\* The entry has run out of condacts, or a jump has left it nowhere.
LeaveEntry ==
    /\ InTurn
    /\ Top.running
    /\ ~Executing
    /\ stack' = WithTop([Top EXCEPT !.running = FALSE])
    /\ UNCHANGED <<db, world, run, indir, loop>>

-----------------------------------------------------------------------------
\* The condacts that move control.  Each is one alternative of Exec, which has
\* moved the frame past the condact and resolved its operands, a.

\* A condact that only changes data; a condition that fails gives up the entry.
DataCondact(op, a) ==
    /\ Do(op, a)
    /\ stack' = WithTop([Here EXCEPT !.running = continuing'])
    /\ UNCHANGED <<run, status>>

\* DONE ends the process, except that in a DOALL it ends one turn of it (doneOrLoop).
Done(op) ==
    /\ op = "DONE"
    /\ IF Looping(Here) THEN GoRound(Here, Remaining(Here, NextObject)) /\ UNCHANGED done
       ELSE stack' = Below /\ done' = TRUE /\ UNCHANGED flags
    /\ UNCHANGED <<db, loc, continuing, picture, run, status>>

\* OK and NOTDONE end the process whatever its DOALL has left.
Return(op) ==
    /\ op \in {"OK", "NOTDONE"}
    /\ done' = (op = "OK")
    /\ stack' = Below
    /\ UNCHANGED <<db, flags, loc, continuing, picture, run, status>>

\* Mutant: a process starts with what its caller did still standing.
Call_DoneStands(op, a) ==
    /\ op = "PROCESS"
    /\ stack' = Append(WithTop(Here), Frame(a[1]))
    /\ UNCHANGED <<db, flags, loc, done, continuing, picture, run, status>>

\* PROCESS, and push.
Call(op, a) ==
    /\ op = "PROCESS"
    /\ stack' = Append(WithTop(Here), Frame(a[1]))
    /\ done' = FALSE
    /\ UNCHANGED <<db, flags, loc, continuing, picture, run, status>>

\* A byte read as the signed operand of SKIP.
Signed(byte) == IF byte >= 128 THEN byte - 256 ELSE byte

\* Mutant: a jump does not look for an entry that answers.
Jump_Blind(op, a) ==
    /\ \/ op = "REDO" /\ stack' = WithTop([Here EXCEPT !.entry = -1, !.condact = 0])
       \/ op = "SKIP" /\ stack' = WithTop([Here EXCEPT !.entry = @ + Signed(a[1]),
                                                       !.condact = 0])
    /\ continuing' = FALSE
    /\ UNCHANGED <<db, flags, loc, done, picture, run, status>>

\* REDO goes back before the first entry and SKIP some entries away (redo, skip).
Jump(op, a) ==
    /\ \/ op = "REDO" /\ stack' = WithTop([Here EXCEPT !.entry = -1, !.condact = 0,
                                                       !.running = FALSE])
       \/ op = "SKIP" /\ stack' = WithTop([Here EXCEPT !.entry = @ + Signed(a[1]),
                                                       !.condact = 0, !.running = FALSE])
    /\ continuing' = FALSE
    /\ UNCHANGED <<db, flags, loc, done, picture, run, status>>

\* Mutant: a DOALL comes back to itself.
LoopFrom_Itself(where) ==
    [Here EXCEPT !.doallEntry = Top.entry, !.doallCondact = Top.condact, !.doallWhere = where]

\* The frame of a DOALL: it comes back to where it stands, just past itself.
LoopFrom(where) ==
    [Here EXCEPT !.doallEntry = Top.entry, !.doallCondact = Top.condact + 1,
                 !.doallWhere = where]

\* DOALL: start the loop, or return at once with the sentence forgotten.
Doall(op, a) ==
    /\ op = "DOALL"
    /\ LET f == LoopFrom(a[1])
       IN  IF Remaining(f, 0) # {}
           THEN GoRound(f, Remaining(f, 0)) /\ UNCHANGED <<done, continuing>>
           ELSE /\ stack' = Below
                /\ flags' = [n \in FlagNo |->
                               IF n \in {FlagVerb, FlagNoun1, FlagAdject1, FlagAdverb,
                                         FlagPrep, FlagNoun2, FlagAdject2, FlagDoallObj}
                               THEN NoWord ELSE flags[n]]
                /\ done' = FALSE
                /\ continuing' = FALSE
    /\ UNCHANGED <<db, loc, picture, run, status>>

\* The flags of a game that has not begun, the objects back in their places and
\* counted, and nothing left on the stack (reset, resetObjects).
FirstPlaces == [o \in Objects |-> IF Data(o).initial = LocHere THEN 0 ELSE Data(o).initial]

NewGame ==
    /\ loc' = FirstPlaces
    /\ flags' = Recounted([n \in FlagNo |-> 0], FirstPlaces)
    /\ done' = FALSE /\ continuing' = FALSE /\ picture' = NoPicture
    /\ stack' = <<>> /\ finished' = FALSE /\ restart' = TRUE

Finish ==
    /\ finished' = TRUE
    /\ stack' = WithTop(Here)
    /\ UNCHANGED <<world, restart>>

Restart(op, a) ==
    /\ \/ /\ op = "RESTART"
          /\ restart' = TRUE
          /\ stack' = WithTop(Here)
          /\ UNCHANGED <<world, finished>>
       \/ op = "EXIT" /\ a[1] = 0 /\ Finish
       \/ op = "EXIT" /\ a[1] # 0 /\ NewGame
    /\ UNCHANGED <<db, inputs, literal, status>>

\* Nobody is left to answer: QUIT and END ask no more, and PARSE neither.
WalkAway(op) ==
    /\ op \in {"QUIT", "END"}
    /\ Finish
    /\ UNCHANGED <<db, inputs, literal, status>>

\* QUIT goes on only when the answer is yes; END stops only when it is no.
Answer(op) ==
    /\ op \in {"QUIT", "END"}
    /\ inputs < MaxInputs
    /\ inputs' = inputs + 1
    /\ \E line \in Lines :
          \/ /\ op = "QUIT"
             /\ stack' = WithTop([Here EXCEPT !.running = (line.reply = "yes")])
             /\ continuing' = (line.reply = "yes")
             /\ UNCHANGED <<flags, loc, done, picture, finished, restart>>
          \/ op = "END" /\ line.reply = "no" /\ Finish
          \/ op = "END" /\ line.reply # "no" /\ NewGame
    /\ UNCHANGED <<db, literal, status>>

-----------------------------------------------------------------------------
\* PARSE.

\* The flags f once a line has been read into them (words, place, remember).
Told(f, words) ==
    LET s == WithVerb(Filed(words))
    IN  [f EXCEPT ![FlagVerb] = s.verb, ![FlagAdverb] = s.adverb,
                  ![FlagNoun1] = s.noun1, ![FlagAdject1] = s.adject1,
                  ![FlagPrep] = s.prep, ![FlagNoun2] = s.noun2, ![FlagAdject2] = s.adject2,
                  ![FlagCPNoun] = IF Pronounable(s.noun1) THEN s.noun1 ELSE @,
                  ![FlagCPAdject] = IF Pronounable(s.noun1) THEN s.adject1 ELSE @]

\* The top bit of the clock's flags says that the last wait ran out.
TimedOut == 128
\* Mutant: a wait that ran out is news for ever.
Unexpired_Never(f) == f
Unexpired(f) == [f EXCEPT ![FlagTimeFlags] = @ % TimedOut]
Expired(f) == [f EXCEPT ![FlagTimeFlags] = TimedOut + (@ % TimedOut)]

\* PARSE goes on with the entry when nothing was understood.
Reads(f, words) ==
    /\ flags' = Told(f, words)
    /\ continuing' = ~Understood(words)
    /\ stack' = WithTop([Here EXCEPT !.running = ~Understood(words)])
    /\ UNCHANGED <<loc, done, picture, restart>>

\* PARSE 0, or PARSE alone.
Asks(a) == \A i \in DOMAIN a : a[i] = 0

\* PARSE 1: the phrase in quotes, which asks the player nothing.
ParseLiteral(op, a) ==
    /\ op = "PARSE" /\ ~Asks(a)
    /\ Reads(flags, literal)
    /\ UNCHANGED <<db, finished, inputs, literal, status>>

\* PARSE 0: a line comes,
ParseLine(op, a) ==
    /\ op = "PARSE" /\ Asks(a)
    /\ inputs < MaxInputs
    /\ inputs' = inputs + 1
    /\ \E line \in Lines : Reads(Unexpired(flags), line.said) /\ literal' = line.quoted
    /\ UNCHANGED <<db, finished, status>>

\* or the clock runs out, where the adventure set one and the console can tell,
ParseExpired(op, a) ==
    /\ op = "PARSE" /\ Asks(a)
    /\ Impatient /\ flags[FlagTime] # 0
    /\ Reads(Expired(flags), <<>>)
    /\ UNCHANGED <<db, finished, inputs, literal, status>>

\* or there is no more input.
ParseEnd(op, a) ==
    /\ op = "PARSE" /\ Asks(a)
    /\ finished' = TRUE
    /\ flags' = Unexpired(flags)
    /\ stack' = WithTop(Here)
    /\ UNCHANGED <<db, loc, done, continuing, picture, restart, inputs, literal, status>>

-----------------------------------------------------------------------------
\* ANYKEY waits and INDIR leaves a value: neither changes anything else.
Wait(op) ==
    /\ op \in {"ANYKEY", "INDIR"}
    /\ stack' = WithTop(Here)
    /\ UNCHANGED <<db, world, run, status>>

\* An opcode nothing implements stops the run with an error.
Broken(op) ==
    /\ op \in NotImplemented
    /\ status' = "broken"
    /\ stack' = WithTop(Here)
    /\ UNCHANGED <<db, world, run>>

\* One condact of the frame on top (the body of runStack's inner loop, and exec).
Exec ==
    /\ Executing
    /\ LET op == Current.op
           a == Operands
       IN  /\ \/ DataCondact(op, a) \/ Done(op) \/ Return(op) \/ Call(op, a) \/ Jump(op, a)
              \/ Doall(op, a) \/ Restart(op, a) \/ WalkAway(op) \/ Answer(op)
              \/ ParseLiteral(op, a) \/ ParseLine(op, a) \/ ParseExpired(op, a)
              \/ ParseEnd(op, a) \/ Wait(op) \/ Broken(op)
           /\ indir' = IF op = "INDIR" THEN flags[a[1]] ELSE None
           /\ UNCHANGED <<before, spins>>

\* Run has returned.
Terminated ==
    /\ status \in {"over", "looping", "broken", "crashed"}
    /\ UNCHANGED vars

-----------------------------------------------------------------------------
\* New and the reset Run starts with.
Init ==
    /\ WorldInit
    /\ stack = <<>>
    /\ finished = FALSE /\ restart = FALSE /\ inputs = 0
    /\ literal = <<>>
    /\ indir = None
    /\ before = 0 /\ spins = 0
    /\ status = "between"

Next == BeginTurn \/ FindEntry \/ Exec \/ LeaveEntry \/ Crash \/ EndTurn \/ Terminated

Spec == Init /\ [][Next]_vars

\* The machine never stops by itself, and the console always answers in the end:
\* with a line, with the clock or with the end of input.
FairSpec == Spec /\ WF_vars(Next)

-----------------------------------------------------------------------------
FrameType == [process : Byte, entry : Int, condact : Nat, running : BOOLEAN,
              doallEntry : Int, doallCondact : Int, doallWhere : Byte]

TypeOK ==
    /\ WorldTypeOK
    /\ stack \in Seq(FrameType)
    /\ finished \in BOOLEAN /\ restart \in BOOLEAN
    /\ inputs \in 0..MaxInputs
    /\ literal \in Seq(Word)
    /\ indir \in Byte \cup {None}
    /\ before \in 0..inputs
    /\ spins \in 0..(SpinLimit + 1)
    /\ status \in Statuses

\* A frame that is running an entry stands in or just past a condact of an entry
\* its process has: the machine "cannot read off the end of a block" (vm.go:15).
StandsInside(f) ==
    f.running => /\ HasEntry(f.process, f.entry)
                 /\ f.condact \in 0..Len(Block(f.process, f.entry))

RunningInside == \A i \in DOMAIN stack : StandsInside(stack[i])

\* A caller waits in the middle of an entry, just past a PROCESS, so that the
\* process it called returns to the condact after the call and nowhere else
\* (push and pop, vm.go:397).
AwaitsItsCall(f) ==
    /\ f.running
    /\ f.condact >= 1
    /\ Block(f.process, f.entry)[f.condact].op = "PROCESS"

CallersWait == \A i \in 1..(Len(stack) - 1) : AwaitsItsCall(stack[i])

\* Wherever a DOALL would go back to is the place just past a DOALL, in an entry
\* the process has, whatever jumps and calls came in between (doallSearch).
LoopIsThere(f) ==
    f.doallCondact >= 0 =>
        /\ HasEntry(f.process, f.doallEntry)
        /\ f.doallCondact \in 1..Len(Block(f.process, f.doallEntry))
        /\ Block(f.process, f.doallEntry)[f.doallCondact].op = "DOALL"

LoopsReturnToTheirDoall == \A i \in DOMAIN stack : LoopIsThere(stack[i])

\* Calls and loops go back where they were made, and nowhere else.
ReturnsToItsPlace == CallersWait /\ LoopsReturnToTheirDoall

StackOK == RunningInside /\ CallersWait /\ LoopsReturnToTheirDoall

\* The machine that lost its last line stops: no adventure goes on by itself once
\* the input has ended (Machine.finished).
EndOfInputStops == finished ~> (status = "over")

\* An adventure cannot restart for ever without the player (Run's guard): once the
\* lines are over, the turns are too.
RestartsRunOut == ~[]<>(status = "between")
=============================================================================
