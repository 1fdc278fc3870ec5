------------------------------ MODULE MCQTest ------------------------------
(***************************************************************************)
(* QTestRunner on every script of up to two steps of this kind and that,   *)
(* and on some longer ones, of the shapes docs/qtest.md gives.             *)
(***************************************************************************)
EXTENDS QTestRunner

S(op, text, secs) == [op |-> op, text |-> text, secs |-> secs]

Open == S("STEP", "", 0)
Close == S("END", "", 0)
Expect(text, secs) == S("EXPECT", text, secs)
ExpectNone(text) == S("EXPECT NOT", text, 0)
Waiting(secs) == S("WAIT", "", secs)
Order(text) == S("INPUT", text, 0)
Press(key) == S("KEY", key, 0)
Breakpoint == S("BREAKPOINT", "", 0)
Ended == S("ASSERT", "ENDED", 0)
Carried == S("ASSERT", "CARRIED", 0)

Steps == {Close, Expect("key", 1), Expect("door", 5), ExpectNone("key"), Waiting(1), Waiting(4),
          Order("north"), Press("s"), Press("RETURN"), Breakpoint, Ended, Carried}

MCScripts == (UNION {[1..n -> Steps] : n \in 0..2}) \cup
    { <<Open, Order("north"), Expect("key", 5), Close, Breakpoint, Order("south"), Expect("door", 5)>>,
      <<Expect("key", 5), Expect("door", 3), ExpectNone("key"), Press("s"), Press("RETURN"), Ended>>,
      <<Waiting(3), Order("north"), Waiting(1), Waiting(3), Expect("door", 3)>>,
      <<Press("s"), Waiting(2), Press("i"), Press("RETURN"), Order("north")>>,
      <<Breakpoint, Carried, Order("north"), Breakpoint, Ended>> }

MCTexts == {"key", "door"}
=============================================================================
