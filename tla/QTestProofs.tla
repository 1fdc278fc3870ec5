------------------------------ MODULE QTestProofs ------------------------------
(***************************************************************************)
(* What a script's run can be trusted for, whatever the script, whatever   *)
(* the adventure and whoever takes it over at a breakpoint.                *)
(***************************************************************************)
EXTENDS QTestRunner, SequenceTheorems, TLAPS

Steps == [op : STRING, text : STRING, secs : Nat]
Keys == STRING
Sayings == [n : Nat, text : Texts]

\* The invariant.  A step has waited what was slept, until one fails; and what has failed
\* stands in the report.
WaitsOK ==
  /\ slept \in Nat /\ quiet \in Nat
  /\ ~stopped => slept = waited
  /\ WaitsNoLonger

HoldingOK ==
  /\ stopped => report.failed # 0
  /\ HoldingIsTheWholeScript

HeardOK == said \in Seq(Sayings) /\ SaidIsTheRest

KeysOK ==
  /\ {typed, pressed, given} \subseteq Seq(Keys)
  /\ EveryKeyOnce

RunnerInv == RunnerTypeOK /\ WaitsOK /\ HoldingOK /\ HeardOK /\ KeysOK

LEMMA Numbers == Clocks \subseteq Nat /\ MaxSaid \in Nat
BY RunnerAssumption

LEMMA RunnerTypes ==
  ASSUME RunnerTypeOK
  PROVE  /\ script \in Seq(Steps) /\ Len(script) \in Nat /\ DOMAIN script = 1..Len(script)
         /\ at \in Nat \ {0}
         /\ HasStep => Step \in Steps
         /\ clock \in Nat /\ waited \in Nat
         /\ report.passed \in Nat /\ report.failed \in Nat
         /\ spoken \in Nat /\ matched \in Nat /\ MaxSaid \in Nat
<1>1. script \in Seq(Steps) /\ clock \in Nat
  BY RunnerAssumption DEF RunnerTypeOK, Steps
<1>2. Len(script) \in Nat /\ DOMAIN script = 1..Len(script)
  BY <1>1
<1>3. at \in Nat \ {0} /\ (HasStep => Step \in Steps)
  BY <1>1, <1>2 DEF RunnerTypeOK, HasStep, Step
<1> QED
  BY <1>1, <1>2, <1>3, RunnerAssumption DEF RunnerTypeOK

\* What the replies do to the moment.
LEMMA ReplyTypes ==
  ASSUME RunnerTypeOK, NEW outcome \in Outcomes, Reply(outcome)
  PROVE  /\ where' \in Moments /\ gave' = outcome /\ gave' \in Outcomes
         /\ {ended', over'} \subseteq BOOLEAN
BY DEF RunnerTypeOK, Reply, Moments

LEMMA FailTypes ==
  ASSUME RunnerTypeOK, Fail
  PROVE  /\ where' \in Moments /\ gave' \in Outcomes
         /\ {stopped', ended', over'} \subseteq BOOLEAN
         /\ report' \in [passed : Nat, failed : Nat]
         /\ report'.failed = report.failed + 1 /\ stopped' = TRUE
         /\ gave' = "over"
         /\ at' = at /\ waited' = waited
<1>1. "over" \in Outcomes
  BY DEF Outcomes
<1> QED
  BY <1>1, ReplyTypes DEF Fail, Failed, RunnerTypeOK

LEMMA GoOnTypes ==
  ASSUME RunnerTypeOK, HasStep, Advance
  PROVE  at' \in 1..Len(script) + 1 /\ waited' \in Nat
BY RunnerTypes DEF HasStep, Advance

-----------------------------------------------------------------------------
\* The parts of the type invariant, by who disturbs them.
ScriptTypeOK ==
  /\ script \in Scripts /\ person \in People
  /\ at \in 1..Len(script) + 1 /\ waited \in Nat
  /\ {stopped, manual} \subseteq BOOLEAN
  /\ report \in [passed : Nat, failed : Nat]
  /\ manual => person # "none"

AdventureTypeOK ==
  /\ {ended, over} \subseteq BOOLEAN
  /\ where \in Moments /\ clock \in Clocks \cup {0} /\ gave \in Outcomes

HeardTypeOK ==
  /\ \A i \in DOMAIN said : said[i].n \in 1..spoken /\ said[i].text \in Texts
  /\ spoken \in 0..MaxSaid /\ matched \in 0..spoken

LEMMA TypeParts == RunnerTypeOK <=> ScriptTypeOK /\ AdventureTypeOK /\ HeardTypeOK
BY DEF RunnerTypeOK, ScriptTypeOK, AdventureTypeOK, HeardTypeOK

LEMMA RunnerStarts == Init => RunnerInv
<1> SUFFICES ASSUME Init PROVE RunnerInv
  OBVIOUS
<1> USE DEF Init
<1>1. script \in Seq(Steps) /\ Len(script) \in Nat
  BY RunnerAssumption DEF Steps
<1>2. ScriptTypeOK /\ AdventureTypeOK
  <2>1. at \in 1..Len(script) + 1 /\ waited \in Nat
    BY <1>1
  <2>2. report \in [passed : Nat, failed : Nat]
    OBVIOUS
  <2>3. AdventureTypeOK
    BY DEF AdventureTypeOK, Moments, Outcomes
  <2> QED
    BY <2>1, <2>2, <2>3 DEF ScriptTypeOK
<1>3. HeardTypeOK
  BY RunnerAssumption DEF HeardTypeOK
<1>4. RunnerTypeOK
  BY <1>2, <1>3, TypeParts
<1>5. WaitsOK
  <2>1. HasStep => Step.secs \in Nat
    BY <1>4, RunnerTypes DEF Steps
  <2> QED
    BY <2>1 DEF WaitsOK, WaitsNoLonger
<1>6. HoldingOK /\ HeardOK /\ KeysOK
  BY DEF HoldingOK, HoldingIsTheWholeScript, HeardOK, SaidIsTheRest, KeysOK, EveryKeyOnce
<1> QED
  BY <1>4, <1>5, <1>6 DEF RunnerInv

-----------------------------------------------------------------------------
\* The script and the adventure stay what they are.
LEMMA MomentsKeep ==
  ASSUME RunnerTypeOK, [Next]_vars
  PROVE  AdventureTypeOK'
<1> USE DEF AdventureTypeOK
<1> {"line", "key", "clock", "over", "nothing"} \subseteq Outcomes
  BY DEF Outcomes
<1> /\ {ended, over} \subseteq BOOLEAN /\ where \in Moments /\ clock \in Clocks \cup {0}
    /\ gave \in Outcomes
  BY DEF RunnerTypeOK
<1>1. CASE Remark
  BY <1>1 DEF Remark, adventure
<1>2. CASE Assert
  BY <1>2, FailTypes DEF Assert, GoOn, adventure
<1>3. CASE ExpectNot
  BY <1>3, FailTypes DEF ExpectNot, GoOn, adventure
<1>4. CASE ExpectHears
  BY <1>4 DEF ExpectHears, GoOn, adventure
<1>5. CASE ExpectTooEarly
  BY <1>5, FailTypes DEF ExpectTooEarly
<1>6. CASE ExpectWaits
  BY <1>6, ReplyTypes DEF ExpectWaits, ClockRunsOut
<1>7. CASE ExpectGivesUp
  BY <1>7, FailTypes DEF ExpectGivesUp
<1>8. CASE WaitWaits
  BY <1>8, ReplyTypes DEF WaitWaits, ClockRunsOut
<1>9. CASE WaitIsOver
  BY <1>9 DEF WaitIsOver, GoOn, adventure
<1>10. CASE WaitForNothing
  BY <1>10, FailTypes DEF WaitForNothing, GoOn, adventure
<1>11. CASE Input
  BY <1>11, FailTypes, ReplyTypes DEF Input, HandOver
<1>12. CASE Key
  BY <1>12, FailTypes, ReplyTypes DEF Key, HandOver, GoOn, adventure
<1>13. CASE Break
  BY <1>13, ReplyTypes DEF Break, adventure
<1>14. CASE ScriptIsOver
  BY <1>14, ReplyTypes DEF ScriptIsOver
<1>15. CASE Person
  BY <1>15, ReplyTypes DEF Person, TheyOrder, TheyResume, TheirInputEnds, TheyTimeOut, TheyPress,
     scriptIsIdle, adventure
<1>16. CASE Adventure
  BY <1>16 DEF Adventure, Speak, AskLine, AskKey, Quit, GivesUp, GameOver, runnerWaits, Moments
<1>17. CASE UNCHANGED vars
  BY <1>17 DEF vars, adventure
<1> QED
  BY <1>1, <1>2, <1>3, <1>4, <1>5, <1>6, <1>7, <1>8, <1>9, <1>10, <1>11, <1>12, <1>13, <1>14,
     <1>15, <1>16, <1>17 DEF Next, Pump, Done

LEMMA ScriptKeeps ==
  ASSUME RunnerTypeOK, [Next]_vars
  PROVE  ScriptTypeOK'
<1> USE DEF ScriptTypeOK, setting
<1> /\ script \in Scripts /\ person \in People
    /\ at \in 1..Len(script) + 1 /\ waited \in Nat
    /\ {stopped, manual} \subseteq BOOLEAN
    /\ report \in [passed : Nat, failed : Nat]
    /\ manual => person # "none"
  BY DEF RunnerTypeOK
<1>1. CASE Remark
  BY <1>1, GoOnTypes DEF Remark, Comes, Passed
<1>2. CASE Assert
  BY <1>2, FailTypes, GoOnTypes DEF Assert, GoOn, Comes
<1>3. CASE ExpectNot
  BY <1>3, FailTypes, GoOnTypes DEF ExpectNot, GoOn, Comes
<1>4. CASE ExpectHears
  BY <1>4, GoOnTypes DEF ExpectHears, GoOn, Comes
<1>5. CASE ExpectTooEarly
  BY <1>5, FailTypes DEF ExpectTooEarly
<1>6. CASE ExpectWaits
  BY <1>6, RunnerTypes DEF ExpectWaits, ClockRunsOut
<1>7. CASE ExpectGivesUp
  BY <1>7, FailTypes DEF ExpectGivesUp
<1>8. CASE WaitWaits
  BY <1>8, RunnerTypes DEF WaitWaits, ClockRunsOut
<1>9. CASE WaitIsOver
  BY <1>9, GoOnTypes DEF WaitIsOver, GoOn, Comes
<1>10. CASE WaitForNothing
  BY <1>10, FailTypes, GoOnTypes DEF WaitForNothing, GoOn, Comes
<1>11. CASE Input
  BY <1>11, FailTypes, GoOnTypes DEF Input, HandOver, Comes
<1>12. CASE Key
  BY <1>12, FailTypes, GoOnTypes DEF Key, HandOver, GoOn, Comes
<1>13. CASE Break
  BY <1>13, GoOnTypes DEF Break, Comes
<1>14. CASE ScriptIsOver
  BY <1>14 DEF ScriptIsOver
<1>15. CASE Person
  <2>1. UNCHANGED <<setting, at, waited, stopped, report>>
    BY <1>15 DEF Person, TheyOrder, TheyResume, TheirInputEnds, TheyTimeOut, TheyPress, scriptIsIdle
  <2>2. UNCHANGED manual \/ manual' = FALSE
    BY <1>15 DEF Person, TheyOrder, TheyResume, TheirInputEnds, TheyTimeOut, TheyPress, scriptIsIdle
  <2>3. CASE UNCHANGED manual
    BY <2>1, <2>3
  <2>4. CASE manual' = FALSE
    BY <2>1, <2>4
  <2> QED
    BY <2>2, <2>3, <2>4
<1>16. CASE Adventure
  <2>1. UNCHANGED <<setting, at, waited, stopped, manual>>
    BY <1>16 DEF Adventure, Speak, AskLine, AskKey, Quit, GivesUp, GameOver, runnerWaits
  <2>2. report' = report \/ Failed
    BY <1>16 DEF Adventure, Speak, AskLine, AskKey, Quit, GivesUp, GameOver, runnerWaits
  <2>3. report' \in [passed : Nat, failed : Nat]
    BY <2>2 DEF Failed
  <2> QED
    BY <2>1, <2>3
<1>17. CASE UNCHANGED vars
  BY <1>17 DEF vars
<1> QED
  BY <1>1, <1>2, <1>3, <1>4, <1>5, <1>6, <1>7, <1>8, <1>9, <1>10, <1>11, <1>12, <1>13, <1>14,
     <1>15, <1>16, <1>17 DEF Next, Pump, Done
-----------------------------------------------------------------------------
\* What is heard.
LEMMA HeardTypes ==
  ASSUME RunnerTypeOK, HeardOK
  PROVE  /\ said \in Seq(Sayings) /\ Len(said) \in Nat /\ DOMAIN said = 1..Len(said)
         /\ Len(said) = spoken - matched
         /\ \A i \in DOMAIN said : said[i].n = matched + i /\ said[i].text \in Texts
         /\ spoken \in Nat /\ matched \in Nat /\ MaxSaid \in Nat
         /\ spoken <= MaxSaid /\ matched <= spoken
BY RunnerAssumption DEF RunnerTypeOK, HeardOK, SaidIsTheRest

LEMMA Afterwards ==
  ASSUME NEW S, NEW s \in Seq(S), NEW i \in 1..Len(s)
  PROVE  /\ SubSeq(s, i + 1, Len(s)) \in Seq(S)
         /\ Len(SubSeq(s, i + 1, Len(s))) = Len(s) - i
         /\ \A j \in 1..(Len(s) - i) : SubSeq(s, i + 1, Len(s))[j] = s[i + j]
<1>1. Len(s) \in Nat /\ \A k \in (i + 1)..Len(s) : s[k] \in S
  OBVIOUS
<1>2. /\ SubSeq(s, i + 1, Len(s)) \in Seq(S)
      /\ Len(SubSeq(s, i + 1, Len(s))) = IF i + 1 <= Len(s) THEN Len(s) - (i + 1) + 1 ELSE 0
      /\ \A j \in 1..(Len(s) - (i + 1) + 1) : SubSeq(s, i + 1, Len(s))[j] = s[(i + 1) + j - 1]
  BY <1>1, SubSeqProperties
<1> QED
  BY <1>1, <1>2

LEMMA HearKeeps ==
  ASSUME RunnerTypeOK, HeardOK, Hear
  PROVE  HeardTypeOK' /\ HeardOK'
<1>0. /\ said \in Seq(Sayings) /\ Len(said) \in Nat /\ DOMAIN said = 1..Len(said)
      /\ Len(said) = spoken - matched
      /\ \A i \in 1..Len(said) : said[i].n = matched + i /\ said[i].text \in Texts
      /\ spoken \in Nat /\ matched \in Nat /\ MaxSaid \in Nat
      /\ spoken <= MaxSaid /\ matched <= spoken
  BY HeardTypes
<1>1. PICK i \in DOMAIN said : /\ said' = SubSeq(said, i + 1, Len(said))
                              /\ matched' = said[i].n /\ spoken' = spoken
  BY DEF Hear, Heard
<1>2. i \in 1..Len(said) /\ matched' = matched + i
  BY <1>0, <1>1
<1>3. /\ said' \in Seq(Sayings) /\ Len(said') = Len(said) - i
      /\ DOMAIN said' = 1..(Len(said) - i)
      /\ \A j \in 1..(Len(said) - i) : said'[j] = said[i + j]
  <2> DEFINE rest == SubSeq(said, i + 1, Len(said))
  <2>1. /\ rest \in Seq(Sayings) /\ Len(rest) = Len(said) - i
        /\ \A j \in 1..(Len(said) - i) : rest[j] = said[i + j]
    BY <1>0, <1>2, Afterwards
  <2> HIDE DEF rest
  <2>2. DOMAIN rest = 1..(Len(said) - i)
    BY <2>1
  <2> QED
    BY <2>1, <2>2, <1>1 DEF rest
<1>4. \A j \in DOMAIN said' : said'[j].n = matched' + j /\ said'[j].text \in Texts
  <2> TAKE j \in DOMAIN said'
  <2>1. j \in 1..(Len(said) - i) /\ said'[j] = said[i + j]
    BY <1>3
  <2>2. i + j \in 1..Len(said) /\ matched + (i + j) = (matched + i) + j
    BY <1>0, <1>2, <2>1
  <2>3. said[i + j].n = matched + (i + j) /\ said[i + j].text \in Texts
    BY <1>0, <2>2
  <2>4. said'[j].n = (matched + i) + j
    BY <2>1, <2>2, <2>3
  <2>5. said'[j].n = matched' + j
    BY <1>2, <2>4
  <2> QED
    BY <2>1, <2>3, <2>5
<1>5. Len(said') = spoken' - matched' /\ matched' \in 0..spoken' /\ spoken' \in 0..MaxSaid
  BY <1>0, <1>1, <1>2, <1>3
<1>6. HeardOK'
  BY <1>3, <1>4, <1>5 DEF HeardOK, SaidIsTheRest
<1>7. \A j \in DOMAIN said' : said'[j].n \in 1..spoken'
  <2> TAKE j \in DOMAIN said'
  <2>1. j \in 1..(Len(said) - i) /\ said'[j].n = (matched + i) + j
    BY <1>2, <1>3, <1>4
  <2>2. (matched + i) + j \in 1..spoken
    BY <1>0, <1>2, <2>1
  <2> QED
    BY <2>1, <2>2, <1>1
<1> QED
  BY <1>4, <1>5, <1>6, <1>7 DEF HeardTypeOK

LEMMA SpeakKeeps ==
  ASSUME RunnerTypeOK, HeardOK, NEW text \in Texts, Speak(text)
  PROVE  HeardTypeOK' /\ HeardOK'
<1> DEFINE saying == [n |-> spoken', text |-> text]
<1>0. /\ said \in Seq(Sayings) /\ Len(said) \in Nat
      /\ Len(said) = spoken - matched
      /\ \A i \in 1..Len(said) : said[i].n = matched + i /\ said[i].text \in Texts
      /\ spoken \in Nat /\ matched \in Nat /\ MaxSaid \in Nat /\ matched <= spoken
  BY HeardTypes
<1>1. spoken' = spoken + 1 /\ spoken < MaxSaid /\ said' = Append(said, saying) /\ matched' = matched
  BY DEF Speak
<1>2. spoken' \in Nat /\ saying \in Sayings
  BY <1>0, <1>1 DEF Sayings
<1> HIDE DEF saying
<1>3. /\ said' \in Seq(Sayings) /\ Len(said') = Len(said) + 1
      /\ DOMAIN said' = 1..(Len(said) + 1)
      /\ said'[Len(said) + 1] = saying
      /\ \A j \in 1..Len(said) : said'[j] = said[j]
  BY <1>0, <1>1, <1>2
<1>4. saying.n = matched' + (Len(said) + 1) /\ saying.text \in Texts
  BY <1>0, <1>1 DEF saying
<1>5. \A j \in DOMAIN said' : said'[j].n = matched' + j /\ said'[j].text \in Texts
  <2> TAKE j \in DOMAIN said'
  <2>1. CASE j \in 1..Len(said)
    BY <2>1, <1>0, <1>1, <1>3
  <2>2. CASE j = Len(said) + 1
    BY <2>2, <1>3, <1>4
  <2> QED
    BY <1>0, <2>1, <2>2, <1>3
<1>6. Len(said') = spoken' - matched' /\ matched' \in 0..spoken' /\ spoken' \in 0..MaxSaid
  BY <1>0, <1>1, <1>3
<1>7. HeardOK'
  BY <1>3, <1>5, <1>6 DEF HeardOK, SaidIsTheRest
<1>8. \A j \in DOMAIN said' : said'[j].n \in 1..spoken'
  BY <1>0, <1>1, <1>3, <1>5
<1> QED
  BY <1>5, <1>6, <1>7, <1>8 DEF HeardTypeOK

LEMMA HeardKeeps ==
  ASSUME RunnerTypeOK, HeardOK, [Next]_vars
  PROVE  HeardTypeOK' /\ HeardOK'
<1>1. CASE ExpectHears
  BY <1>1, HearKeeps DEF ExpectHears
<1>2. CASE \E text \in Texts : Speak(text)
  BY <1>2, SpeakKeeps
<1>3. CASE UNCHANGED heard
  BY <1>3, TypeParts DEF heard, HeardTypeOK, HeardOK, SaidIsTheRest
<1>4. Pump /\ ~ExpectHears => UNCHANGED heard
  BY DEF Pump, Remark, Assert, ExpectNot, ExpectTooEarly, ExpectWaits, ExpectGivesUp, WaitWaits,
     WaitIsOver, WaitForNothing, Input, Key, Break, ScriptIsOver
<1>5. Person => UNCHANGED heard
  BY DEF Person, TheyOrder, TheyResume, TheirInputEnds, TheyTimeOut, TheyPress, scriptIsIdle
<1>6. Adventure => (\E text \in Texts : Speak(text)) \/ UNCHANGED heard
  BY DEF Adventure, AskLine, AskKey, Quit, GivesUp, GameOver
<1>7. Done \/ UNCHANGED vars => UNCHANGED heard
  BY DEF Done, vars
<1> QED
  BY <1>1, <1>2, <1>3, <1>4, <1>5, <1>6, <1>7 DEF Next

-----------------------------------------------------------------------------
\* What is typed.
LEMMA AppendStaysIn ==
  ASSUME NEW S, NEW s \in Seq(S), NEW x \in S
  PROVE  Append(s, x) \in Seq(S)
OBVIOUS

LEMMA KeysKeep ==
  ASSUME RunnerTypeOK, KeysOK, [Next]_vars
  PROVE  KeysOK'
<1>1. CASE UNCHANGED keyboard
  BY <1>1 DEF keyboard, KeysOK, EveryKeyOnce
<1>2. ASSUME NEW text \in Seq(Keys), HandOver(text)
      PROVE  KeysOK'
  <2>1. /\ given \in Seq(Keys) /\ typed \in Seq(Keys) /\ pressed \in Seq(Keys)
        /\ pressed = given \o typed
    BY DEF KeysOK, EveryKeyOnce
  <2>2. /\ given' = given \o typed \o text /\ typed' = <<>> /\ pressed' = pressed \o text
    BY <1>2 DEF HandOver
  <2>3. given' \in Seq(Keys) /\ pressed' \in Seq(Keys) /\ typed' \in Seq(Keys)
    BY <2>1, <2>2
  <2>4. given' \o typed' = given'
    BY <2>2, <2>3, ConcatEmptySeq
  <2> QED
    BY <2>1, <2>2, <2>3, <2>4 DEF KeysOK, EveryKeyOnce
<1>3. ASSUME NEW key \in Keys,
             typed' = Append(typed, key), pressed' = Append(pressed, key), given' = given
      PROVE  KeysOK'
  <2>0. pressed = given \o typed
    BY DEF KeysOK, EveryKeyOnce
  <2>1. given \in Seq(Keys) /\ typed \in Seq(Keys) /\ pressed \in Seq(Keys)
    BY DEF KeysOK
  <2>2. typed' \in Seq(Keys) /\ pressed' \in Seq(Keys)
    BY <1>3, <2>1, AppendStaysIn
  <2>3. Append(given \o typed, key) = given \o Append(typed, key)
    <3>1. <<key>> \in Seq(Keys) /\ given \o typed \in Seq(Keys)
      BY <1>3, <2>1
    <3>2. Append(given \o typed, key) = (given \o typed) \o <<key>>
      BY <1>3, <3>1, AppendIsConcat
    <3>3. Append(typed, key) = typed \o <<key>>
      BY <1>3, <2>1, AppendIsConcat
    <3> QED
      BY <2>1, <3>1, <3>2, <3>3, ConcatAssociative
  <2> QED
    BY <1>3, <2>0, <2>1, <2>2, <2>3 DEF KeysOK, EveryKeyOnce
<1>4. CASE Input
  <2>1. Step.text \in Keys
    BY <1>4, RunnerTypes DEF Input, Comes, Steps, Keys
  <2>2. <<Step.text>> \in Seq(Keys)
    BY <2>1
  <2> QED
    BY <1>4, <2>2, <1>1, <1>2 DEF Input
<1>5. CASE Key
  <2>1. Step.text \in Keys
    BY <1>5, RunnerTypes DEF Key, Comes, Steps, Keys
  <2>2. <<>> \in Seq(Keys)
    OBVIOUS
  <2> QED
    BY <1>5, <2>1, <2>2, <1>1, <1>2, <1>3 DEF Key, keyboard
<1>6. Pump => Input \/ Key \/ UNCHANGED keyboard
  BY DEF Pump, Remark, Assert, ExpectNot, ExpectHears, ExpectTooEarly, ExpectWaits, ExpectGivesUp,
     WaitWaits, WaitIsOver, WaitForNothing, Break, ScriptIsOver
<1>7. Person => UNCHANGED keyboard
  BY DEF Person, TheyOrder, TheyResume, TheirInputEnds, TheyTimeOut, TheyPress, scriptIsIdle
<1>8. Adventure => UNCHANGED keyboard
  BY DEF Adventure, Speak, AskLine, AskKey, Quit, GivesUp, GameOver, runnerWaits
<1>9. Done \/ UNCHANGED vars => UNCHANGED keyboard
  BY DEF Done, vars
<1> QED
  BY <1>1, <1>4, <1>5, <1>6, <1>7, <1>8, <1>9 DEF Next

-----------------------------------------------------------------------------
\* What is waited.
LEMMA WaitTypes ==
  ASSUME RunnerTypeOK, WaitsOK
  PROVE  /\ slept \in Nat /\ quiet \in Nat /\ clock \in Nat /\ waited \in Nat
         /\ HasStep => Step.secs \in Nat /\ slept <= Step.secs
         /\ gave = "clock" => quiet >= clock
         /\ ~stopped => slept = waited
BY RunnerTypes DEF WaitsOK, WaitsNoLonger, Steps

\* A new step has waited nothing, and nothing is said to the adventure meanwhile.
LEMMA AdvanceWaits ==
  ASSUME RunnerTypeOK, WaitsOK, Advance, script' = script, clock' = clock,
         quiet' \in Nat, quiet' >= quiet, gave' = gave \/ gave' # "clock"
  PROVE  WaitsOK'
<1>1. at' \in Nat \ {0} /\ script \in Seq(Steps)
  BY RunnerTypes DEF Advance
<1>2. HasStep' => Step' \in Steps
  BY <1>1 DEF HasStep, Step
<1>3. HasStep' => Step'.secs \in Nat
  BY <1>2 DEF Steps
<1>4. slept' = 0 /\ waited' = 0
  BY DEF Advance
<1>5. HasStep' => slept' <= Step'.secs
  BY <1>3, <1>4
<1>6. gave' = "clock" => quiet' >= clock'
  BY WaitTypes
<1> QED
  BY <1>4, <1>5, <1>6 DEF WaitsOK, WaitsNoLonger

\* Nothing is waited while the step stands.
LEMMA StandsWaits ==
  ASSUME RunnerTypeOK, WaitsOK, UNCHANGED <<script, at, slept>>,
         (stopped' = stopped /\ waited' = waited) \/ stopped' = TRUE,
         quiet' \in Nat, clock' \in Nat, gave' = "clock" => quiet' >= clock'
  PROVE  WaitsOK'
BY WaitTypes DEF WaitsOK, WaitsNoLonger, HasStep, Step

LEMMA ClockWaits ==
  ASSUME RunnerTypeOK, WaitsOK, HasStep, ~stopped, ClockRunsOut, UNCHANGED <<script, at, stopped, clock>>
  PROVE  WaitsOK'
<1>1. /\ slept' = slept + clock /\ quiet' = quiet + clock /\ waited' = waited + clock
      /\ Step.secs - waited >= clock
  BY DEF ClockRunsOut, Wait, Left
<1>2. slept' \in Nat /\ quiet' \in Nat /\ slept' = waited' /\ slept' <= Step.secs /\ quiet' >= clock
  BY <1>1, WaitTypes
<1> QED
  BY <1>2 DEF WaitsOK, WaitsNoLonger, HasStep, Step

LEMMA WaitsKeep ==
  ASSUME RunnerTypeOK, WaitsOK, [Next]_vars
  PROVE  WaitsOK'
<1> USE DEF setting
<1>1. ASSUME GoOn, UNCHANGED <<script, clock>>, quiet' \in Nat, quiet' >= quiet
      PROVE  WaitsOK'
  BY <1>1, AdvanceWaits DEF GoOn, adventure
<1>2. ASSUME Fail, UNCHANGED <<script, clock, time>>
      PROVE  WaitsOK'
  <2>1. gave' # "clock" /\ stopped' = TRUE /\ at' = at
    BY <1>2, FailTypes
  <2> QED
    BY <1>2, <2>1, WaitTypes, StandsWaits DEF time
<1>3. quiet \in Nat /\ quiet >= quiet /\ clock \in Nat
  BY WaitTypes
<1>4. CASE Remark
  BY <1>4, <1>3, AdvanceWaits DEF Remark, adventure
<1>5. CASE Assert
  BY <1>5, <1>1, <1>2, <1>3 DEF Assert, time
<1>6. CASE ExpectNot
  BY <1>6, <1>1, <1>2, <1>3 DEF ExpectNot, time
<1>7. CASE ExpectHears
  BY <1>7, <1>1, <1>3 DEF ExpectHears
<1>8. CASE ExpectTooEarly
  BY <1>8, <1>2 DEF ExpectTooEarly
<1>9. CASE ExpectWaits
  BY <1>9, ClockWaits DEF ExpectWaits, Comes
<1>10. CASE ExpectGivesUp
  <2>1. HasStep /\ ~stopped /\ Fail /\ UNCHANGED <<script, clock>>
    BY <1>10 DEF ExpectGivesUp, Comes
  <2>2. slept' = slept + (Step.secs - waited) /\ quiet' = quiet + (Step.secs - waited)
    BY <1>10 DEF ExpectGivesUp, Wait, Left
  <2>3. slept' \in Nat /\ quiet' \in Nat /\ slept' = Step.secs
    BY <2>1, <2>2, WaitTypes
  <2>4. gave' # "clock" /\ stopped' = TRUE /\ at' = at
    BY <2>1, FailTypes
  <2> QED
    BY <2>1, <2>3, <2>4 DEF WaitsOK, WaitsNoLonger, HasStep, Step
<1>11. CASE WaitWaits
  BY <1>11, ClockWaits DEF WaitWaits, Comes
<1>12. CASE WaitIsOver
  <2>1. HasStep /\ ~stopped /\ GoOn /\ UNCHANGED <<script, clock>>
    BY <1>12 DEF WaitIsOver, Comes
  <2>2. quiet' = quiet + (Step.secs - waited)
    BY <1>12 DEF WaitIsOver, Left
  <2>3. quiet' \in Nat /\ quiet' >= quiet
    BY <2>1, <2>2, WaitTypes
  <2> QED
    BY <2>1, <2>3, <1>1
<1>13. CASE WaitForNothing
  BY <1>13, <1>1, <1>2, <1>3 DEF WaitForNothing, time
<1>14. ASSUME NEW outcome, outcome # "clock", Reply(outcome), Advance, UNCHANGED <<script, clock, quiet>>
       PROVE  WaitsOK'
  BY <1>14, <1>3, AdvanceWaits DEF Reply
<1>15. CASE Input
  BY <1>15, <1>2, <1>14 DEF Input, HandOver, time
<1>16. CASE Key
  BY <1>16, <1>1, <1>2, <1>3, <1>14 DEF Key, HandOver, time
<1>17. CASE Break
  BY <1>17, <1>3, AdvanceWaits DEF Break, Reply, adventure
<1>18. CASE ScriptIsOver
  BY <1>18, <1>3, StandsWaits DEF ScriptIsOver, Reply, time
<1>19. CASE TheyTimeOut
  <2>1. quiet' = quiet + clock /\ UNCHANGED <<script, at, slept, stopped, waited, clock>>
    BY <1>19 DEF TheyTimeOut, scriptIsIdle
  <2>2. quiet' \in Nat /\ quiet' >= clock
    BY <2>1, WaitTypes
  <2> QED
    BY <2>1, <2>2, <1>3, StandsWaits
<1>20. CASE TheyOrder \/ TheyResume \/ TheirInputEnds \/ TheyPress
  <2>1. UNCHANGED <<script, at, slept, stopped, waited, clock, quiet>>
    BY <1>20 DEF TheyOrder, TheyResume, TheirInputEnds, TheyPress, scriptIsIdle
  <2>2. gave' = gave \/ gave' # "clock"
    BY <1>20 DEF TheyOrder, TheyResume, TheirInputEnds, TheyPress, Reply, adventure
  <2> QED
    BY <2>1, <2>2, <1>3, WaitTypes, StandsWaits
<1>21. CASE AskLine \/ AskKey
  <2>1. UNCHANGED <<script, at, slept, stopped, waited>> /\ gave' = "nothing" /\ quiet' = 0
    BY <1>21 DEF AskLine, AskKey, runnerWaits
  <2>2. clock' \in Nat
    <3>1. CASE AskLine
      BY <3>1, Numbers DEF AskLine
    <3>2. CASE AskKey
      BY <3>2 DEF AskKey
    <3> QED
      BY <1>21, <3>1, <3>2
  <2> QED
    BY <2>1, <2>2, StandsWaits
<1>22. CASE GameOver
  <2>1. UNCHANGED <<script, at, slept, stopped, waited, quiet>> /\ clock' = 0
    BY <1>22 DEF GameOver, runnerWaits, time
  <2> QED
    BY <2>1, <1>3, StandsWaits
<1>23. ASSUME UNCHANGED <<script, at, slept, stopped, waited, quiet, clock, gave>>
       PROVE  WaitsOK'
  BY <1>23, <1>3, WaitTypes, StandsWaits
<1>24. CASE Adventure
  BY <1>24, <1>21, <1>22, <1>23 DEF Adventure, Speak, Quit, GivesUp, runnerWaits, time
<1>25. CASE Done \/ UNCHANGED vars
  BY <1>25, <1>23 DEF Done, vars, adventure, time
<1> QED
  BY <1>4, <1>5, <1>6, <1>7, <1>8, <1>9, <1>10, <1>11, <1>12, <1>13, <1>15, <1>16, <1>17, <1>18,
     <1>19, <1>20, <1>24, <1>25 DEF Next, Pump, Person

-----------------------------------------------------------------------------
\* What is reported.

\* Nothing more is said of the run once it is over, and while it is not no promise is made.
LEMMA HoldsMeanwhile ==
  ASSUME RunnerTypeOK, HoldingOK, UNCHANGED stopped,
         report'.failed = report.failed \/ report'.failed = report.failed + 1,
         ~over' \/ report'.failed # 0
  PROVE  HoldingOK'
BY RunnerTypes DEF HoldingOK, HoldingIsTheWholeScript

LEMMA HoldingKeeps ==
  ASSUME RunnerTypeOK, HoldingOK, [Next]_vars
  PROVE  HoldingOK'
<1> USE DEF setting
<1>1. report.failed \in Nat /\ report.passed \in Nat /\ report \in [passed : Nat, failed : Nat]
  BY RunnerTypes DEF RunnerTypeOK
<1>2. ASSUME Fail
      PROVE  HoldingOK'
  BY <1>1, <1>2, FailTypes DEF HoldingOK, HoldingIsTheWholeScript
<1>3. ASSUME ~over, UNCHANGED <<stopped, over>>, report'.failed = report.failed
      PROVE  HoldingOK'
  BY <1>3, HoldsMeanwhile
<1>4. ASSUME ~over, GoOn
      PROVE  HoldingOK'
  BY <1>3, <1>4 DEF GoOn, adventure
<1>5. ASSUME NEW outcome, Reply(outcome), where # "end", ~over, UNCHANGED <<stopped, report>>
      PROVE  HoldingOK'
  BY <1>3, <1>5 DEF Reply
<1>6. CASE Remark
  BY <1>6, <1>1, <1>3 DEF Remark, Comes, Pumping, Passed, adventure
<1>7. CASE Assert
  BY <1>7, <1>2, <1>4 DEF Assert, Comes, Pumping
<1>8. CASE ExpectNot
  BY <1>8, <1>2, <1>4 DEF ExpectNot, Comes, Pumping
<1>9. CASE ExpectHears
  BY <1>9, <1>4 DEF ExpectHears, Comes, Pumping
<1>10. CASE ExpectTooEarly
  BY <1>10, <1>2 DEF ExpectTooEarly
<1>11. CASE ExpectWaits
  BY <1>11, <1>5 DEF ExpectWaits, ClockRunsOut, NothingMore, Pumping
<1>12. CASE ExpectGivesUp
  BY <1>12, <1>2 DEF ExpectGivesUp
<1>13. CASE WaitWaits
  BY <1>13, <1>5 DEF WaitWaits, ClockRunsOut, NothingMore, Pumping
<1>14. CASE WaitIsOver
  BY <1>14, <1>4 DEF WaitIsOver, Comes, Pumping
<1>15. CASE WaitForNothing
  BY <1>15, <1>2, <1>4 DEF WaitForNothing, Comes, Pumping
<1>16. CASE Input
  BY <1>16, <1>2, <1>5 DEF Input, HandOver, Comes, Pumping
<1>17. CASE Key
  BY <1>17, <1>2, <1>4, <1>5 DEF Key, HandOver, Comes, Pumping
<1>18. CASE Break
  <2>1. CASE manual' /\ where = "end"
    BY <1>18, <2>1 DEF Break, Comes, HoldingOK, HoldingIsTheWholeScript
  <2>2. CASE ~(manual' /\ where = "end")
    BY <1>18, <2>2, <1>3 DEF Break, Comes, Pumping, adventure
  <2> QED
    BY <2>1, <2>2
<1>19. CASE ScriptIsOver
  <2>1. UNCHANGED <<script, at, stopped, manual, report>> /\ ~over
    BY <1>19 DEF ScriptIsOver, Pumping
  <2>2. CASE manual
    BY <2>1, <2>2 DEF HoldingOK, HoldingIsTheWholeScript
  <2>3. CASE ~manual /\ stopped
    BY <2>1, <2>3 DEF HoldingOK, HoldingIsTheWholeScript
  <2>4. CASE ~manual /\ ~HasStep
    BY <2>1, <2>4, RunnerTypes DEF HoldingOK, HoldingIsTheWholeScript, HasStep
  <2> QED
    BY <1>19, <2>2, <2>3, <2>4 DEF ScriptIsOver
<1>20. CASE Person
  BY <1>20, <1>3, <1>5 DEF Person, TheyOrder, TheyResume, TheirInputEnds, TheyTimeOut, TheyPress,
     Theirs, scriptIsIdle, adventure
<1>21. CASE GivesUp
  BY <1>21, <1>1, HoldsMeanwhile DEF GivesUp, Failed
<1>22. CASE Adventure
  BY <1>22, <1>3, <1>21 DEF Adventure, Speak, AskLine, AskKey, Quit, GameOver, Playing, runnerWaits
<1>23. CASE Done \/ UNCHANGED vars
  BY <1>23 DEF Done, vars, adventure, HoldingOK, HoldingIsTheWholeScript
<1> QED
  BY <1>6, <1>7, <1>8, <1>9, <1>10, <1>11, <1>12, <1>13, <1>14, <1>15, <1>16, <1>17, <1>18,
     <1>19, <1>20, <1>22, <1>23 DEF Next, Pump

-----------------------------------------------------------------------------
LEMMA RunnerKeeps == RunnerInv /\ [Next]_vars => RunnerInv'
<1> SUFFICES ASSUME RunnerInv, [Next]_vars PROVE RunnerInv'
  OBVIOUS
<1>1. RunnerTypeOK /\ WaitsOK /\ HoldingOK /\ HeardOK /\ KeysOK
  BY DEF RunnerInv
<1>2. RunnerTypeOK'
  BY <1>1, ScriptKeeps, MomentsKeep, HeardKeeps
  DEF RunnerTypeOK, ScriptTypeOK, AdventureTypeOK, HeardTypeOK
<1> QED
  BY <1>1, <1>2, WaitsKeep, HoldingKeeps, HeardKeeps, KeysKeep DEF RunnerInv

LEMMA RunnerHolds == Spec => []RunnerInv
BY RunnerStarts, RunnerKeeps, PTL DEF Spec

\* Whatever the script, the adventure and the person at the breakpoint: a run reported as
\* holding ran the whole of its script, unless the game was never given back (Play).
THEOREM HoldingIsHonest == Spec => []HoldingIsTheWholeScript
<1>1. RunnerInv => HoldingIsTheWholeScript
  BY DEF RunnerInv, HoldingOK
<1> QED
  BY <1>1, RunnerHolds, PTL

\* What an EXPECT looks through is all that was said since the last match, in its order
\* (said, Print, hear).
THEOREM NothingSaidIsLost == Spec => []SaidIsTheRest
<1>1. RunnerInv => SaidIsTheRest
  BY DEF RunnerInv, HeardOK
<1> QED
  BY <1>1, RunnerHolds, PTL

\* Every key a script types is handed over once, and in its order (HandOver, typed).
THEOREM KeysAreHandedOverOnce == Spec => []EveryKeyOnce
<1>1. RunnerInv => EveryKeyOnce
  BY DEF RunnerInv, KeysOK
<1> QED
  BY <1>1, RunnerHolds, PTL

\* A step waits its own seconds and no more, over however many questions; and an adventure
\* is told that its time ran out when it has (pause, waited).
THEOREM ClocksAreHonest == Spec => []WaitsNoLonger
<1>1. RunnerInv => WaitsNoLonger
  BY DEF RunnerInv, WaitsOK
<1> QED
  BY <1>1, RunnerHolds, PTL

\* The run is where it can be.
THEOREM RunnerTypesHold == Spec => []RunnerTypeOK
<1>1. RunnerInv => RunnerTypeOK
  BY DEF RunnerInv
<1> QED
  BY <1>1, RunnerHolds, PTL
=============================================================================
