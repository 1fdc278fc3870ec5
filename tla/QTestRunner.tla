----------------------------- MODULE QTestRunner -----------------------------
(***************************************************************************)
(* A .qtest script played against an adventure (internal/qtest/run.go):    *)
(* the Runner is the console the adventure speaks to and asks, and each    *)
(* time it is asked it pumps the script until the script has an answer.    *)
(*                                                                         *)
(* The adventure (internal/vm) is whatever may speak, ask for an order     *)
(* with a clock or without, pause, end or break.  What it says is a        *)
(* sequence of numbered texts, for the order they come in is the test.     *)
(***************************************************************************)
EXTENDS Integers, Sequences

CONSTANTS Scripts,      \* the scripts, sequences of steps
          Texts,        \* what the adventure may say
          Clocks,       \* the seconds it may give a question; none is 0
          MaxSaid       \* how many texts it says at most

ASSUME RunnerAssumption ==
    /\ Scripts \subseteq Seq([op : STRING, text : STRING, secs : Nat])
    /\ Clocks \subseteq Nat
    /\ MaxSaid \in Nat

VARIABLES script, person,       \* the script, and who is behind Options.Breakpoint
          at, waited,           \* the step being run, and what it has waited
          typed,                \* the keyboard buffer
          said,                 \* what no EXPECT has matched yet
          stopped, manual,      \* a failure has happened; a BREAKPOINT is in force
          report,               \* the steps passed and failed
          where, clock,         \* what the adventure is stopped for, and its TIME
          ended, over,          \* the adventure is over; the run is
          gave,                 \* the last thing the adventure was given
          spoken, matched,      \* history: texts said, and the last one matched
          pressed, given,       \* history: what steps typed, and what was handed over
          slept, quiet          \* history: seconds waited by this step, on this question

setting == <<script, person>>
keyboard == <<typed, pressed, given>>
heard == <<said, spoken, matched>>
adventure == <<where, ended, over, gave>>
time == <<slept, quiet>>
vars == <<setting, at, waited, keyboard, heard, stopped, manual, report, adventure, clock, time>>

\* Nobody is given as the console; a terminal is, with a person at it; a console is,
\* with nothing to read behind it.
People == {"none", "there", "nobody"}

Moments == {"none", "line", "key", "end"}
Outcomes == {"nothing", "line", "key", "clock", "over"}

-----------------------------------------------------------------------------
Step == script[at]

\* The script is asked, and this is the step it has come to (pump).
Pumping == where # "none" /\ ~over
HasStep == at <= Len(script)
Comes(op) == Pumping /\ ~manual /\ ~stopped /\ HasStep /\ Step.op = op

\* Nothing further will be said until there is an order (nothingMore).
NothingMore == where \in {"key", "end"} \/ clock = 0

Advance == at' = at + 1 /\ waited' = 0 /\ slept' = 0
Wait(secs) == slept' = slept + secs /\ quiet' = quiet + secs

\* What the adventure is given.  An order that does not come ends it; and the run is
\* over once the script has been asked about the end.
Reply(outcome) ==
    /\ gave' = outcome
    /\ IF where = "end" THEN over' = TRUE /\ UNCHANGED <<where, ended>>
       ELSE /\ where' = "none"
            /\ ended' = (ended \/ (where = "line" /\ outcome = "over"))
            /\ UNCHANGED over

Passed == report' = [report EXCEPT !.passed = @ + 1]
Failed == report' = [report EXCEPT !.failed = @ + 1]

Fail ==
    /\ stopped' = TRUE
    /\ Failed
    /\ Reply("over")
    /\ UNCHANGED <<at, waited>>

GoOn ==
    /\ Advance
    /\ UNCHANGED <<stopped, report, adventure>>

-----------------------------------------------------------------------------
\* The steps of a script that only look, or only say something.
Remark ==
    /\ Comes("STEP") \/ Comes("END") \/ Comes("TRACE") \/ Comes("DEBUG")
    /\ IF Step.op = "END" THEN Passed ELSE UNCHANGED report
    /\ Advance
    /\ UNCHANGED <<setting, keyboard, heard, stopped, manual, adventure, clock, quiet>>

\* ENDED looks at whether the adventure is over; what else an ASSERT looks at is
\* however the adventure has left it.
Assert ==
    /\ Comes("ASSERT")
    /\ \E holds \in IF Step.text = "ENDED" THEN {ended} ELSE BOOLEAN :
          IF holds THEN GoOn ELSE Fail /\ UNCHANGED slept
    /\ UNCHANGED <<setting, keyboard, heard, manual, clock, quiet>>

Heard(text) == {i \in DOMAIN said : said[i].text = text}

ExpectNot ==
    /\ Comes("EXPECT NOT")
    /\ IF Heard(Step.text) = {} THEN GoOn ELSE Fail /\ UNCHANGED slept
    /\ UNCHANGED <<setting, keyboard, heard, manual, clock, quiet>>

\* The first match is swallowed with everything before it.
Hear ==
    \E i \in Heard(Step.text) :
        /\ \A j \in Heard(Step.text) : i <= j
        /\ said' = SubSeq(said, i + 1, Len(said))
        /\ matched' = said[i].n
        /\ UNCHANGED spoken

ExpectHears ==
    /\ Comes("EXPECT") /\ Hear
    /\ GoOn
    /\ UNCHANGED <<setting, keyboard, manual, clock, quiet>>

ExpectTooEarly ==
    /\ Comes("EXPECT") /\ Heard(Step.text) = {} /\ NothingMore
    /\ Fail
    /\ UNCHANGED <<setting, keyboard, heard, manual, clock, time>>

\* Mutant: every question is given the whole of the step's seconds.
Left_Whole == Step.secs

Left == Step.secs - waited

\* Whoever runs out first decides.  The adventure's clock: the step is still waiting.
ClockRunsOut ==
    /\ Pumping /\ ~NothingMore /\ Left >= clock
    /\ Wait(clock)
    /\ waited' = waited + clock
    /\ Reply("clock")

ExpectWaits ==
    /\ Comes("EXPECT") /\ Heard(Step.text) = {}
    /\ ClockRunsOut
    /\ UNCHANGED <<setting, at, keyboard, heard, stopped, manual, report, clock>>

ExpectGivesUp ==
    /\ Comes("EXPECT") /\ Heard(Step.text) = {} /\ ~NothingMore /\ Left < clock
    /\ Wait(Left)
    /\ Fail
    /\ UNCHANGED <<setting, keyboard, heard, manual, clock>>

WaitWaits ==
    /\ Comes("WAIT")
    /\ ClockRunsOut
    /\ UNCHANGED <<setting, at, keyboard, heard, stopped, manual, report, clock>>

WaitIsOver ==
    /\ Comes("WAIT") /\ ~NothingMore /\ Left < clock
    /\ quiet' = quiet + Left
    /\ GoOn
    /\ UNCHANGED <<setting, keyboard, heard, manual, clock>>

\* Mutant: a WAIT with nothing to wait for is noted, and noted again.
WaitForNothing_Stays ==
    /\ Comes("WAIT") /\ NothingMore
    /\ IF where = "key" THEN Fail ELSE UNCHANGED <<at, waited, stopped, report, adventure>>
    /\ UNCHANGED <<setting, keyboard, heard, manual, clock, time>>

\* A pause has no clock on it; elsewhere it is only noted.
WaitForNothing ==
    /\ Comes("WAIT") /\ NothingMore
    /\ IF where = "key" THEN Fail /\ UNCHANGED slept ELSE GoOn
    /\ UNCHANGED <<setting, keyboard, heard, manual, clock, quiet>>

\* Mutant: the buffer keeps what has been handed over.
HandOver_Keeps(text) ==
    /\ given' = given \o typed \o text
    /\ typed' = typed \o text
    /\ pressed' = pressed \o text
    /\ Reply("line")
    /\ Advance

\* Into the buffer and then over.
HandOver(text) ==
    /\ given' = given \o typed \o text
    /\ typed' = <<>>
    /\ pressed' = pressed \o text
    /\ Reply("line")
    /\ Advance

Input ==
    /\ Comes("INPUT")
    /\ IF where = "line" THEN HandOver(<<Step.text>>) /\ UNCHANGED <<stopped, report>>
       ELSE Fail /\ UNCHANGED <<keyboard, slept>>
    /\ UNCHANGED <<setting, heard, manual, clock, quiet>>

\* A pause takes whichever key comes next.
Key ==
    /\ Comes("KEY")
    /\ \/ /\ where = "key" /\ Reply("key") /\ Advance
          /\ UNCHANGED <<keyboard, stopped, report>>
       \/ /\ where = "end" /\ Fail
          /\ UNCHANGED <<keyboard, slept>>
       \/ /\ where = "line" /\ Step.text = "RETURN" /\ HandOver(<<>>)
          /\ UNCHANGED <<stopped, report>>
       \/ /\ where = "line" /\ Step.text # "RETURN" /\ GoOn
          /\ typed' = Append(typed, Step.text) /\ pressed' = Append(pressed, Step.text)
          /\ UNCHANGED given
    /\ UNCHANGED <<setting, heard, manual, clock, quiet>>

\* Mutant: there is always somebody to hand the adventure to.
Break_Always ==
    /\ Comes("BREAKPOINT")
    /\ Advance
    /\ manual' = TRUE
    /\ IF where = "end" THEN Reply("over") ELSE UNCHANGED adventure
    /\ UNCHANGED <<setting, keyboard, heard, stopped, report, clock, quiet>>

\* With a console to hand it to, the adventure belongs to whoever is there; without
\* one that is noted.
Break ==
    /\ Comes("BREAKPOINT")
    /\ Advance
    /\ manual' = (person # "none")
    /\ IF manual' /\ where = "end" THEN Reply("over") ELSE UNCHANGED adventure
    /\ UNCHANGED <<setting, keyboard, heard, stopped, report, clock, quiet>>

\* The script is over, or failed, or is not consulted and there is no more to play.
ScriptIsOver ==
    /\ Pumping
    /\ IF manual THEN where = "end" ELSE stopped \/ ~HasStep
    /\ Reply("over")
    /\ UNCHANGED <<setting, at, waited, keyboard, heard, stopped, manual, report, clock, time>>

-----------------------------------------------------------------------------
\* Whoever is behind the console, while a BREAKPOINT is in force.
Theirs(moment) == manual /\ where = moment /\ ~over

scriptIsIdle == <<at, waited, keyboard, heard, stopped, report, clock, slept>>

\* A line is the adventure's, unless it is the one that ends this (played).
TheyOrder ==
    /\ Theirs("line") /\ person = "there"
    /\ Reply("line")
    /\ UNCHANGED <<setting, scriptIsIdle, manual, quiet>>

TheyResume ==
    /\ Theirs("line") /\ person = "there"
    /\ manual' = FALSE
    /\ UNCHANGED <<setting, scriptIsIdle, adventure, quiet>>

TheirInputEnds ==
    /\ Theirs("line")
    /\ Reply("over")
    /\ UNCHANGED <<setting, scriptIsIdle, manual, quiet>>

TheyTimeOut ==
    /\ Theirs("line") /\ person = "there" /\ clock > 0
    /\ Reply("clock")
    /\ quiet' = quiet + clock
    /\ UNCHANGED <<setting, scriptIsIdle, manual>>

\* One of their keys; with nobody there a pause is over at once.
TheyPress ==
    /\ Theirs("key")
    /\ Reply("key")
    /\ UNCHANGED <<setting, scriptIsIdle, manual, quiet>>

-----------------------------------------------------------------------------
\* The adventure.
Playing == where = "none" /\ ~ended /\ ~over

runnerWaits == <<setting, at, waited, keyboard, stopped, manual, over>>

\* Mutant: what is said to the person at a breakpoint is only said to them.
Speak_Elsewhere(text) ==
    /\ Playing /\ spoken < MaxSaid
    /\ spoken' = spoken + 1
    /\ said' = IF manual THEN said ELSE Append(said, [n |-> spoken', text |-> text])
    /\ UNCHANGED <<runnerWaits, matched, report, where, ended, gave, clock, time>>

Speak(text) ==
    /\ Playing /\ spoken < MaxSaid
    /\ spoken' = spoken + 1
    /\ said' = Append(said, [n |-> spoken', text |-> text])
    /\ UNCHANGED <<runnerWaits, matched, report, where, ended, gave, clock, time>>

AskLine ==
    /\ Playing
    /\ where' = "line"
    /\ clock' \in Clocks
    /\ gave' = "nothing" /\ quiet' = 0
    /\ UNCHANGED <<runnerWaits, heard, report, ended, slept>>

AskKey ==
    /\ Playing
    /\ where' = "key" /\ clock' = 0
    /\ gave' = "nothing" /\ quiet' = 0
    /\ UNCHANGED <<runnerWaits, heard, report, ended, slept>>

Quit ==
    /\ Playing
    /\ ended' = TRUE
    /\ UNCHANGED <<runnerWaits, heard, report, where, gave, clock, time>>

\* Run gives up: a failure of the run, and the script is asked no more (Broke).
GivesUp ==
    /\ Playing
    /\ over' = TRUE /\ Failed
    /\ UNCHANGED <<setting, at, waited, keyboard, heard, stopped, manual, where, ended, gave,
                   clock, time>>

\* Mutant: what is left of the script when the game is over is left.
GameOver_Unasked ==
    /\ where = "none" /\ ended /\ ~over
    /\ over' = TRUE
    /\ UNCHANGED <<setting, at, waited, keyboard, heard, stopped, manual, report, where, ended,
                   gave, clock, time>>

\* Run returns, and what is left of the script is asked about the end (Play).
GameOver ==
    /\ where = "none" /\ ended /\ ~over
    /\ where' = "end" /\ clock' = 0
    /\ UNCHANGED <<runnerWaits, heard, report, ended, gave, time>>

-----------------------------------------------------------------------------
Init ==
    /\ script \in Scripts /\ person \in People
    /\ at = 1 /\ waited = 0 /\ typed = <<>> /\ said = <<>>
    /\ stopped = FALSE /\ manual = FALSE
    /\ report = [passed |-> 0, failed |-> 0]
    /\ where = "none" /\ clock = 0 /\ ended = FALSE /\ over = FALSE /\ gave = "nothing"
    /\ spoken = 0 /\ matched = 0 /\ pressed = <<>> /\ given = <<>>
    /\ slept = 0 /\ quiet = 0

Pump ==
    \/ Remark \/ Assert \/ ExpectNot
    \/ ExpectHears \/ ExpectTooEarly \/ ExpectWaits \/ ExpectGivesUp
    \/ WaitWaits \/ WaitIsOver \/ WaitForNothing
    \/ Input \/ Key \/ Break \/ ScriptIsOver

Person == TheyOrder \/ TheyResume \/ TheirInputEnds \/ TheyTimeOut \/ TheyPress

Adventure == (\E text \in Texts : Speak(text)) \/ AskLine \/ AskKey \/ Quit \/ GivesUp \/ GameOver

Done == over /\ UNCHANGED vars

Next == Pump \/ Person \/ Adventure \/ Done

\* The script is pumped; an adventure asks for an order again and again, or ends, for
\* it is written around its input; and one that has ended returns.
Spec ==
    /\ Init /\ [][Next]_vars
    /\ WF_vars(Pump) /\ SF_vars(AskLine) /\ WF_vars(GameOver)

-----------------------------------------------------------------------------
\* The run is where it can be.
RunnerTypeOK ==
    /\ script \in Scripts /\ person \in People
    /\ at \in 1..Len(script) + 1 /\ waited \in Nat
    /\ {stopped, manual, ended, over} \subseteq BOOLEAN
    /\ report \in [passed : Nat, failed : Nat]
    /\ where \in Moments /\ clock \in Clocks \cup {0} /\ gave \in Outcomes
    /\ \A i \in DOMAIN said : said[i].n \in 1..spoken /\ said[i].text \in Texts
    /\ spoken \in 0..MaxSaid /\ matched \in 0..spoken
    /\ manual => person # "none"

\* The buffer the EXPECTs read is all that was said since the last match, in the order
\* it was said, whoever was playing meanwhile (said, Print, hear).
SaidIsTheRest ==
    /\ Len(said) = spoken - matched
    /\ \A i \in DOMAIN said : said[i].n = matched + i

\* A run that holds has had every step of its script hold, the ones after the game was
\* over included, unless it was a person who never gave the script the game back (Play).
HoldingIsTheWholeScript ==
    (over /\ report.failed = 0) => (at > Len(script) \/ manual)

\* The same in a suite, where nobody is at a terminal: a script with a BREAKPOINT left
\* in it still runs (docs/qtest.md:170, Options.Breakpoint).
SuiteIsTheWholeScript ==
    (over /\ report.failed = 0 /\ person # "there") => at > Len(script)

\* No order is given that nobody wrote: what the adventure has been handed, and what is
\* still in the buffer, is what the steps typed, each key once and in their order.
EveryKeyOnce == pressed = given \o typed

\* However many of the adventure's clocks run out meanwhile, a step waits no longer than
\* its own seconds (waited), and the adventure is never told that its time ran out before
\* that question has had all of it (pause).
WaitsNoLonger ==
    /\ HasStep => slept <= Step.secs
    /\ gave = "clock" => quiet >= clock

\* Whatever the adventure does, a run comes to an end: it cannot hang, but for a person
\* who goes on playing (AnyKey, InputWithin, pump).
RunEnds == <>over \/ <>[]manual
=============================================================================
