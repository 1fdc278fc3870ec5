--------------------------- MODULE MachineProofs ---------------------------
(***************************************************************************)
(* Where the machine stands, for every adventure: the types of its         *)
(* variables and StackOK, proved together as one inductive invariant.      *)
(* StackOK is inductive only beside the types: that a frame goes to an     *)
(* entry there is rests on Answering being numbers, and a caller's place   *)
(* on the condact it was running having been one of its entry's.           *)
(***************************************************************************)
EXTENDS MachineHistory, WorldProofs, SequenceTheorems

\* A turn only begins when the one before it has not passed the limit.
SpinsBelow == status \in {"between", "turn"} => spins <= SpinLimit

IInv == TypeOK /\ StackOK /\ SpinsBelow

\* What is asked of any frame of the stack.
FrameOK(f) == f \in FrameType /\ StandsInside(f) /\ LoopIsThere(f)

-----------------------------------------------------------------------------
\* The adventure's parts.

\* A process is entries, one the adventure does not have is none (entriesOf).
LEMMA EntriesType ==
    ASSUME db \in Databases, NEW process
    PROVE  EntriesOf(process) \in Seq(Entry)
<1>1. db.processes \in Seq(Seq(Entry))
    BY MachineAssumption
<1>2. CASE process + 1 \in DOMAIN db.processes
    BY <1>1, <1>2, ElementType DEF EntriesOf
<1>3. CASE process + 1 \notin DOMAIN db.processes
    BY <1>3 DEF EntriesOf
<1> QED  BY <1>2, <1>3

\* The condacts of an entry the process has.
LEMMA BlockType ==
    ASSUME db \in Databases, NEW process, NEW entry \in Int, HasEntry(process, entry)
    PROVE  Block(process, entry) \in Seq(Condact)
<1>1. EntriesOf(process) \in Seq(Entry)
    BY EntriesType
<1>2. entry + 1 \in DOMAIN EntriesOf(process)
    BY <1>1 DEF HasEntry
<1>3. EntriesOf(process)[entry + 1] \in Entry
    BY <1>1, <1>2, ElementType
<1> QED  BY <1>3 DEF Block, Entry

-----------------------------------------------------------------------------
\* The stack: popped, with another frame on top, with a call on top.

\* The stack without its top is the frames under it, unchanged (pop).
LEMMA BelowFacts ==
    ASSUME stack \in Seq(FrameType), stack # <<>>
    PROVE  /\ Below \in Seq(FrameType)
           /\ Len(Below) = Len(stack) - 1
           /\ \A i \in 1..(Len(stack) - 1) : Below[i] = stack[i]
           /\ Len(stack) \in Nat /\ Len(stack) >= 1
<1>1. Len(stack) \in Nat /\ Len(stack) >= 1
    OBVIOUS
<1>2. /\ Below \in Seq(FrameType)
      /\ Len(Below) = IF 1 <= Len(stack) - 1 THEN Len(stack) - 1 - 1 + 1 ELSE 0
    <2>1. \A i \in 1..(Len(stack) - 1) : stack[i] \in FrameType
        BY <1>1, ElementType
    <2> QED  BY <1>1, <2>1, SubSeqProperties DEF Below
<1>3. \A i \in 1..(Len(stack) - 1) : Below[i] = stack[i]
    BY <1>1 DEF Below
<1>4. Len(Below) = Len(stack) - 1
    <2> DEFINE n == Len(stack)
    <2>1. n \in Nat /\ n >= 1 /\ Len(Below) = IF 1 <= n - 1 THEN n - 1 - 1 + 1 ELSE 0
        BY <1>1, <1>2
    <2> HIDE DEF n
    <2>2. Len(Below) = n - 1
        BY <2>1
    <2> QED  BY <2>2 DEF n
<1> QED  BY <1>1, <1>2, <1>3, <1>4

\* The stack with its top replaced is the frames under it and that one.
LEMMA WithTopFacts ==
    ASSUME stack \in Seq(FrameType), stack # <<>>, NEW f \in FrameType
    PROVE  /\ WithTop(f) \in Seq(FrameType)
           /\ Len(WithTop(f)) = Len(stack)
           /\ WithTop(f)[Len(stack)] = f
           /\ \A i \in 1..(Len(stack) - 1) : WithTop(f)[i] = stack[i]
<1> DEFINE B == Below
<1>1. /\ B \in Seq(FrameType) /\ Len(B) = Len(stack) - 1
      /\ \A i \in 1..(Len(stack) - 1) : B[i] = stack[i]
      /\ Len(stack) \in Nat /\ Len(stack) >= 1
    BY BelowFacts
<1> HIDE DEF B
<1>2. WithTop(f) = Append(B, f)
    BY DEF B, WithTop
<1>3. /\ Append(B, f) \in Seq(FrameType)
      /\ Len(Append(B, f)) = Len(B) + 1
      /\ Append(B, f)[Len(B) + 1] = f
      /\ \A i \in 1..Len(B) : Append(B, f)[i] = B[i]
    BY <1>1, AppendProperties
<1> QED  BY <1>1, <1>2, <1>3

\* What is true of a frame's place in the database stays true while the database does.
LEMMA FrameKept ==
    ASSUME db' = db, NEW i, NEW f, stack'[i] = f, StandsInside(f), LoopIsThere(f)
    PROVE  StandsInside(stack[i])' /\ LoopIsThere(stack[i])'
<1>1. StandsInside(stack[i])'
    BY DEF StandsInside, HasEntry, Block, EntriesOf
<1>2. LoopIsThere(stack[i])'
    BY DEF LoopIsThere, HasEntry, Block, EntriesOf
<1> QED  BY <1>1, <1>2

\* Returning to the caller leaves the stack in order.
LEMMA PoppedOK ==
    ASSUME IInv, stack # <<>>, db' = db, stack' = Below
    PROVE  stack' \in Seq(FrameType) /\ StackOK'
<1>1. stack \in Seq(FrameType) /\ Len(stack) \in Nat /\ Len(stack) >= 1
    BY DEF IInv, TypeOK
<1>2. /\ stack' \in Seq(FrameType)
      /\ Len(stack') = Len(stack) - 1
      /\ \A i \in 1..(Len(stack) - 1) : stack'[i] = stack[i]
    BY <1>1, BelowFacts
<1>3. \A i \in DOMAIN stack' : i \in DOMAIN stack /\ i \in 1..(Len(stack) - 1)
    BY <1>1, <1>2
<1>4. RunningInside'
    BY <1>2, <1>3 DEF IInv, StackOK, RunningInside, StandsInside, HasEntry, Block, EntriesOf
<1>5. LoopsReturnToTheirDoall'
    BY <1>2, <1>3
       DEF IInv, StackOK, LoopsReturnToTheirDoall, LoopIsThere, HasEntry, Block, EntriesOf
<1>6. CallersWait'
    <2>1. ASSUME NEW i \in 1..(Len(stack') - 1)
          PROVE  AwaitsItsCall(stack[i])'
        <3>1. i \in 1..(Len(stack) - 1)
            BY <1>1, <1>2
        <3>2. AwaitsItsCall(stack[i]) /\ stack'[i] = stack[i]
            BY <1>2, <3>1 DEF IInv, StackOK, CallersWait
        <3> QED  BY <3>2 DEF AwaitsItsCall, Block, EntriesOf
    <2> QED  BY <2>1 DEF CallersWait
<1> QED  BY <1>2, <1>4, <1>5, <1>6 DEF StackOK

\* Replacing the top by a frame in order leaves the stack in order.
LEMMA ToppedOK ==
    ASSUME IInv, stack # <<>>, db' = db, NEW f, FrameOK(f), stack' = WithTop(f)
    PROVE  stack' \in Seq(FrameType) /\ StackOK'
<1>1. stack \in Seq(FrameType) /\ Len(stack) \in Nat /\ Len(stack) >= 1 /\ f \in FrameType
    BY DEF IInv, TypeOK, FrameOK
<1>2. /\ stack' \in Seq(FrameType)
      /\ Len(stack') = Len(stack)
      /\ stack'[Len(stack)] = f
      /\ \A i \in 1..(Len(stack) - 1) : stack'[i] = stack[i]
    BY <1>1, WithTopFacts
<1>3. \A i \in DOMAIN stack' : i = Len(stack) \/ (i \in DOMAIN stack /\ i \in 1..(Len(stack) - 1))
    BY <1>1, <1>2
<1>4. RunningInside'
    BY <1>2, <1>3
       DEF IInv, StackOK, RunningInside, FrameOK, StandsInside, HasEntry, Block, EntriesOf
<1>5. LoopsReturnToTheirDoall'
    BY <1>2, <1>3
       DEF IInv, StackOK, LoopsReturnToTheirDoall, FrameOK, LoopIsThere, HasEntry, Block,
           EntriesOf
<1>6. CallersWait'
    BY <1>1, <1>2 DEF IInv, StackOK, CallersWait, AwaitsItsCall, Block, EntriesOf
<1> QED  BY <1>2, <1>4, <1>5, <1>6 DEF StackOK

\* So does a call from a frame that stands just past its PROCESS (push).
LEMMA CalledOK ==
    ASSUME IInv, stack # <<>>, db' = db, NEW f, FrameOK(f), AwaitsItsCall(f),
           NEW g, FrameOK(g), stack' = Append(WithTop(f), g)
    PROVE  stack' \in Seq(FrameType) /\ StackOK'
<1>1. /\ stack \in Seq(FrameType) /\ Len(stack) \in Nat /\ Len(stack) >= 1
      /\ f \in FrameType /\ g \in FrameType
    BY DEF IInv, TypeOK, FrameOK
<1>2. /\ stack' \in Seq(FrameType)
      /\ Len(stack') = Len(stack) + 1
      /\ stack'[Len(stack)] = f
      /\ stack'[Len(stack) + 1] = g
      /\ \A i \in 1..(Len(stack) - 1) : stack'[i] = stack[i]
    <2> DEFINE T == WithTop(f)
    <2>1. /\ T \in Seq(FrameType) /\ Len(T) = Len(stack) /\ T[Len(stack)] = f
          /\ \A i \in 1..(Len(stack) - 1) : T[i] = stack[i]
        BY <1>1, WithTopFacts
    <2> HIDE DEF T
    <2>2. stack' = Append(T, g)
        BY DEF T
    <2>3. /\ Append(T, g) \in Seq(FrameType)
          /\ Len(Append(T, g)) = Len(T) + 1
          /\ Append(T, g)[Len(T) + 1] = g
          /\ \A i \in 1..Len(T) : Append(T, g)[i] = T[i]
        BY <1>1, <2>1, AppendProperties
    <2> QED  BY <1>1, <2>1, <2>2, <2>3
<1>3. \A i \in DOMAIN stack' : \/ i = Len(stack) + 1
                              \/ i = Len(stack)
                              \/ (i \in DOMAIN stack /\ i \in 1..(Len(stack) - 1))
    BY <1>1, <1>2
<1>4. ASSUME NEW i \in DOMAIN stack'
      PROVE  StandsInside(stack[i])' /\ LoopIsThere(stack[i])'
    <2>1. CASE i = Len(stack) + 1
        BY <1>2, <2>1, FrameKept DEF FrameOK
    <2>2. CASE i = Len(stack)
        BY <1>2, <2>2, FrameKept DEF FrameOK
    <2>3. CASE i \in DOMAIN stack /\ i \in 1..(Len(stack) - 1)
        <3>1. StandsInside(stack[i]) /\ LoopIsThere(stack[i]) /\ stack'[i] = stack[i]
            BY <1>2, <2>3 DEF IInv, StackOK, RunningInside, LoopsReturnToTheirDoall
        <3> QED  BY <3>1, FrameKept
    <2> QED  BY <1>3, <2>1, <2>2, <2>3
<1>5. RunningInside' /\ LoopsReturnToTheirDoall'
    BY <1>4 DEF RunningInside, LoopsReturnToTheirDoall
<1>6. CallersWait'
    <2>1. SUFFICES ASSUME NEW i \in 1..(Len(stack') - 1)
                   PROVE  AwaitsItsCall(stack[i])'
        BY DEF CallersWait
    <2>2. CASE i = Len(stack)
        BY <1>2, <2>2 DEF AwaitsItsCall, Block, EntriesOf
    <2>3. CASE i # Len(stack)
        <3>1. i \in 1..(Len(stack) - 1)
            BY <1>1, <1>2, <2>1, <2>3
        <3>2. AwaitsItsCall(stack[i]) /\ stack'[i] = stack[i]
            BY <1>2, <3>1 DEF IInv, StackOK, CallersWait
        <3> QED  BY <3>2 DEF AwaitsItsCall, Block, EntriesOf
    <2> QED  BY <2>2, <2>3
<1> QED  BY <1>2, <1>5, <1>6 DEF StackOK

-----------------------------------------------------------------------------
\* The frame on top, before and after the condact it runs.

\* The frame on top is a frame in order.
LEMMA TopOK ==
    ASSUME IInv, stack # <<>>
    PROVE  FrameOK(Top)
<1>1. stack \in Seq(FrameType) /\ Len(stack) \in DOMAIN stack
    BY DEF IInv, TypeOK
<1>2. Top \in FrameType
    BY <1>1, ElementType DEF Top
<1>3. StandsInside(Top) /\ LoopIsThere(Top)
    BY <1>1 DEF IInv, StackOK, RunningInside, LoopsReturnToTheirDoall, Top
<1> QED  BY <1>2, <1>3 DEF FrameOK

\* Past the condact it is running, the frame still stands in its entry, and that
\* condact is the one just behind it.
LEMMA HereOK ==
    ASSUME IInv, Executing
    PROVE  /\ stack # <<>>
           /\ FrameOK(Here)
           /\ \A b \in BOOLEAN : FrameOK([Here EXCEPT !.running = b])
           /\ Here.running /\ Here.condact >= 1
           /\ HasEntry(Here.process, Here.entry)
           /\ Here.process = Top.process /\ Here.entry = Top.entry
           /\ Here.condact = Top.condact + 1
           /\ Here.condact \in 1..Len(Block(Here.process, Here.entry))
           /\ Current = Block(Here.process, Here.entry)[Here.condact]
<1>1. /\ stack # <<>> /\ Top.running /\ HasEntry(Top.process, Top.entry)
      /\ Top.condact < Len(Block(Top.process, Top.entry))
    BY DEF Executing, InTurn
<1>2. FrameOK(Top)
    BY <1>1, TopOK
<1>3. Top \in FrameType /\ Top.entry \in Int /\ Top.condact \in Nat
    BY <1>2 DEF FrameOK, FrameType
<1>4. Block(Top.process, Top.entry) \in Seq(Condact)
    BY <1>1, <1>3, BlockType DEF IInv, TypeOK, WorldTypeOK
<1>5. /\ Here \in FrameType
      /\ Here.running = Top.running /\ Here.process = Top.process
      /\ Here.entry = Top.entry /\ Here.condact = Top.condact + 1
      /\ Here.doallEntry = Top.doallEntry /\ Here.doallCondact = Top.doallCondact
    BY <1>3 DEF Here, FrameType
<1>6. Here.condact \in 1..Len(Block(Here.process, Here.entry))
    BY <1>1, <1>3, <1>4, <1>5
<1>7. StandsInside(Here) /\ LoopIsThere(Here)
    BY <1>1, <1>2, <1>5, <1>6 DEF FrameOK, StandsInside, LoopIsThere
<1>8. ASSUME NEW b \in BOOLEAN
      PROVE  FrameOK([Here EXCEPT !.running = b])
    <2> DEFINE g == [Here EXCEPT !.running = b]
    <2>1. /\ g \in FrameType /\ g.running = b
          /\ g.process = Here.process /\ g.entry = Here.entry /\ g.condact = Here.condact
          /\ g.doallEntry = Here.doallEntry /\ g.doallCondact = Here.doallCondact
        BY <1>5, <1>8 DEF FrameType
    <2> HIDE DEF g
    <2>2. Here.running
        BY <1>1, <1>5
    <2>3. StandsInside(g) /\ LoopIsThere(g)
        BY <1>7, <2>1, <2>2 DEF StandsInside, LoopIsThere
    <2> QED  BY <2>1, <2>3 DEF FrameOK, g
<1> QED  BY <1>1, <1>3, <1>5, <1>6, <1>7, <1>8 DEF FrameOK, Current

\* Reading an operand through a flag, or taking it from an INDIR, leaves it a byte
\* and leaves as many of them.
LEMMA OperandsType ==
    ASSUME AllFlags, IInv, Executing
    PROVE  Operands \in Seq(Byte) /\ HasOperands(Current.op, Operands)
<1>1. HasEntry(Top.process, Top.entry) /\ Top.entry \in Int /\ Top.condact \in Nat
    BY HereOK, TopOK DEF Executing, FrameOK, FrameType
<1>2. Block(Top.process, Top.entry) \in Seq(Condact)
    BY <1>1, BlockType DEF IInv, TypeOK, WorldTypeOK
<1>3. Top.condact + 1 \in DOMAIN Block(Top.process, Top.entry)
    BY <1>1, <1>2 DEF Executing
<1>4. Current \in Condact
    BY <1>2, <1>3, ElementType DEF Current
<1>5. Current.a \in Seq(Byte) /\ HasOperands(Current.op, Current.a)
    BY <1>4 DEF Condact
<1> DEFINE given == IF Current.indirect /\ Current.a # <<>>
                    THEN [Current.a EXCEPT ![1] = flags[@]] ELSE Current.a
<1>6. given \in Seq(Byte) /\ Len(given) = Len(Current.a)
    <2>1. CASE Current.a # <<>>
        <3>1. Current.a[1] \in Byte
            BY <1>5, <2>1
        <3>2. flags[Current.a[1]] \in Byte
            BY <3>1 DEF AllFlags, IInv, TypeOK, WorldTypeOK
        <3> QED  BY <1>5, <3>2
    <2>2. CASE Current.a = <<>>
        BY <1>5, <2>2
    <2> QED  BY <2>1, <2>2
<1> HIDE DEF given
<1>7. Operands \in Seq(Byte) /\ Len(Operands) = Len(given)
    <2>1. Operands = IF indir # None /\ Len(given) > 1 THEN [given EXCEPT ![2] = indir]
                     ELSE given
        BY DEF Operands, given
    <2>2. indir # None => indir \in Byte
        BY DEF IInv, TypeOK
    <2> QED  BY <1>6, <2>1, <2>2
<1> QED  BY <1>5, <1>6, <1>7 DEF HasOperands

-----------------------------------------------------------------------------
\* DOALL.

\* What is left of a loop is objects, numbered.
LEMMA RemainingType ==
    ASSUME db \in Databases, NEW f, NEW n
    PROVE  Remaining(f, n) \subseteq Objects /\ Remaining(f, n) \in SUBSET Nat
BY ObjectsAreBytes DEF Remaining, Byte

\* Going round puts the frame just past its DOALL, with an object for a noun.
LEMMA GoRoundOK ==
    ASSUME AllFlags, IInv, stack # <<>>, db' = db, NEW f, FrameOK(f), f.doallCondact >= 0,
           NEW S, S \subseteq Objects, S \in SUBSET Nat, S # {}, GoRound(f, S)
    PROVE  /\ stack' \in Seq(FrameType) /\ StackOK'
           /\ flags' \in [FlagNo -> Byte]
<1> DEFINE g == [f EXCEPT !.entry = f.doallEntry, !.condact = f.doallCondact,
                          !.running = TRUE]
<1>1. /\ f \in FrameType /\ HasEntry(f.process, f.doallEntry)
      /\ f.doallCondact \in 1..Len(Block(f.process, f.doallEntry))
      /\ Block(f.process, f.doallEntry)[f.doallCondact].op = "DOALL"
    BY DEF FrameOK, LoopIsThere
<1>2. db \in Databases /\ flags \in [FlagNo -> Byte]
    BY DEF IInv, TypeOK, WorldTypeOK
<1>3. Len(Block(f.process, f.doallEntry)) \in Nat
    BY <1>1, <1>2, BlockType DEF FrameType
<1>4. /\ g \in FrameType
      /\ g.process = f.process /\ g.entry = f.doallEntry /\ g.condact = f.doallCondact
      /\ g.doallEntry = f.doallEntry /\ g.doallCondact = f.doallCondact
    <2>1. f.doallCondact \in Nat /\ f.doallEntry \in Int
        BY <1>1, <1>3 DEF FrameType
    <2>2. f \in FrameType
        BY <1>1
    <2> QED  BY <2>1, <2>2 DEF FrameType
<1> HIDE DEF g
<1>5. FrameOK(g)
    BY <1>1, <1>3, <1>4 DEF FrameOK, StandsInside, LoopIsThere
<1>6. stack' = WithTop(g)
    BY DEF GoRound, g
<1>7. stack' \in Seq(FrameType) /\ StackOK'
    BY <1>5, <1>6, ToppedOK
<1>8. First(S) \in Objects /\ First(S) \in Byte
    BY <1>2, FirstIsLeast, ObjectsAreBytes
<1>9. Data(First(S)).noun \in Byte /\ Data(First(S)).adjective \in Byte
    BY <1>2, <1>8, DataType DEF ObjectData
<1>10. flags' \in [FlagNo -> Byte]
    <2>1. ASSUME NEW x \in Byte, NEW y \in Byte, NEW z \in Byte
          PROVE  [flags EXCEPT ![FlagDoallObj] = x, ![FlagNoun1] = y, ![FlagAdject1] = z]
                    \in [FlagNo -> Byte]
        BY <1>2
    <2> QED  BY <1>8, <1>9, <2>1 DEF GoRound
<1> QED  BY <1>7, <1>10

-----------------------------------------------------------------------------
\* The condacts that move control.

\* A stack with nothing on it is in order.
LEMMA EmptiedOK ==
    ASSUME stack' = <<>>
    PROVE  stack' \in Seq(FrameType) /\ StackOK'
<1>1. DOMAIN stack' = {} /\ 1..(Len(stack') - 1) = {}
    OBVIOUS
<1> QED
    BY <1>1 DEF StackOK, RunningInside, CallersWait, LoopsReturnToTheirDoall

\* The frame steps past its condact, and goes on or gives up its entry.
LEMMA SteppedOK ==
    ASSUME IInv, Executing, db' = db,
           \/ stack' = WithTop(Here)
           \/ \E b \in BOOLEAN : stack' = WithTop([Here EXCEPT !.running = b])
    PROVE  stack' \in Seq(FrameType) /\ StackOK'
<1>1. CASE stack' = WithTop(Here)
    BY <1>1, HereOK, ToppedOK
<1>2. CASE \E b \in BOOLEAN : stack' = WithTop([Here EXCEPT !.running = b])
    <2>1. PICK b \in BOOLEAN : stack' = WithTop([Here EXCEPT !.running = b])
        BY <1>2
    <2>2. stack # <<>> /\ FrameOK([Here EXCEPT !.running = b])
        BY HereOK
    <2> HIDE DEF Here
    <2> QED  BY <2>1, <2>2, ToppedOK
<1> QED  BY <1>1, <1>2

\* A condact that only changes data, and the entry that goes on or gives up.
LEMMA DataCondactOK ==
    ASSUME AllFlags, IInv, Executing, NEW op, NEW a \in Seq(Byte), HasOperands(op, a),
           DataCondact(op, a)
    PROVE  WorldTypeOK' /\ stack' \in Seq(FrameType) /\ StackOK'
<1>1. WorldTypeOK'
    BY DoKeepsTypes DEF DataCondact, IInv, TypeOK
<1>2. db' = db /\ continuing' \in BOOLEAN
    BY <1>1 DEF WorldTypeOK, DataCondact, Do
<1>3. \E b \in BOOLEAN : stack' = WithTop([Here EXCEPT !.running = b])
    BY <1>2 DEF DataCondact
<1> QED  BY <1>1, <1>2, <1>3, SteppedOK

\* DONE, OK and NOTDONE: back to the caller, or once more round the loop.
LEMMA DoneOK ==
    ASSUME AllFlags, IInv, Executing, NEW op, Done(op) \/ Return(op)
    PROVE  WorldTypeOK' /\ stack' \in Seq(FrameType) /\ StackOK'
<1>1. /\ stack # <<>> /\ db' = db /\ FrameOK(Here)
      /\ UNCHANGED <<loc, continuing, picture>>
    BY HereOK DEF Done, Return
<1>2. db \in Databases /\ WorldTypeOK
    BY DEF IInv, TypeOK, WorldTypeOK
<1>3. CASE stack' = Below /\ flags' = flags /\ done' \in BOOLEAN
    <2>1. stack' \in Seq(FrameType) /\ StackOK'
        BY <1>1, <1>3, PoppedOK
    <2> QED  BY <1>1, <1>2, <1>3, <2>1 DEF WorldTypeOK, Objects
<1>4. CASE /\ Looping(Here) /\ GoRound(Here, Remaining(Here, NextObject))
           /\ UNCHANGED done
    <2>1. /\ Remaining(Here, NextObject) \subseteq Objects
          /\ Remaining(Here, NextObject) \in SUBSET Nat
        BY <1>2, RemainingType
    <2>2. /\ stack' \in Seq(FrameType) /\ StackOK'
          /\ flags' \in [FlagNo -> Byte]
        BY <1>1, <1>4, <2>1, GoRoundOK DEF Looping
    <2> QED  BY <1>1, <1>2, <1>4, <2>2 DEF WorldTypeOK, Objects
<1>5. (op = "OK") \in BOOLEAN
    OBVIOUS
<1> QED  BY <1>3, <1>4, <1>5 DEF Done, Return

\* PROCESS: the caller is left just past it, the callee before its first entry.
LEMMA CallOK ==
    ASSUME IInv, Executing, NEW a \in Seq(Byte), HasOperands("PROCESS", a),
           Current.op = "PROCESS", Call("PROCESS", a)
    PROVE  WorldTypeOK' /\ stack' \in Seq(FrameType) /\ StackOK'
<1>1. a[1] \in Byte
    BY DEF HasOperands, TakesOne
<1>2. FrameOK(Frame(a[1]))
    <2> DEFINE g == Frame(a[1])
    <2>1. g \in FrameType
        <3>1. 0 \in Byte
            BY DEF Byte
        <3> QED  BY <1>1, <3>1 DEF Frame, FrameType
    <2>2. ~g.running /\ ~(g.doallCondact >= 0)
        BY DEF Frame
    <2> HIDE DEF g
    <2> QED  BY <2>1, <2>2 DEF FrameOK, StandsInside, LoopIsThere, g
<1>3. FrameOK(Here) /\ AwaitsItsCall(Here) /\ stack # <<>>
    BY HereOK DEF AwaitsItsCall
<1>4. db' = db /\ stack' = Append(WithTop(Here), Frame(a[1]))
    BY DEF Call
<1>5. stack' \in Seq(FrameType) /\ StackOK'
    BY <1>2, <1>3, <1>4, CalledOK
<1>6. WorldTypeOK'
    BY DEF Call, IInv, TypeOK, WorldTypeOK, Objects
<1> QED  BY <1>5, <1>6

\* A jump leaves the frame between entries: it may be anywhere, but it stands nowhere.
LEMMA JumpOK ==
    ASSUME IInv, Executing, NEW op, NEW a \in Seq(Byte), HasOperands(op, a), Jump(op, a)
    PROVE  WorldTypeOK' /\ stack' \in Seq(FrameType) /\ StackOK'
<1>1. stack # <<>> /\ FrameOK(Here) /\ db' = db
    BY HereOK DEF Jump
<1>2. ASSUME NEW n \in Int
      PROVE  FrameOK([Here EXCEPT !.entry = n, !.condact = 0, !.running = FALSE])
    BY <1>1 DEF FrameOK, FrameType, StandsInside, LoopIsThere
<1>3. \/ stack' = WithTop([Here EXCEPT !.entry = -1, !.condact = 0, !.running = FALSE])
      \/ /\ op = "SKIP"
         /\ stack' = WithTop([Here EXCEPT !.entry = Here.entry + Signed(a[1]),
                                          !.condact = 0, !.running = FALSE])
    BY DEF Jump
<1>4. stack' \in Seq(FrameType) /\ StackOK'
    <2>1. CASE stack' = WithTop([Here EXCEPT !.entry = -1, !.condact = 0,
                                             !.running = FALSE])
        <3>1. -1 \in Int
            OBVIOUS
        <3> QED  BY <1>1, <1>2, <2>1, <3>1, ToppedOK
    <2>2. CASE /\ op = "SKIP"
               /\ stack' = WithTop([Here EXCEPT !.entry = Here.entry + Signed(a[1]),
                                                !.condact = 0, !.running = FALSE])
        <3>1. Here.entry \in Int
            BY <1>1 DEF FrameOK, FrameType
        <3>2. a[1] \in Byte
            BY <2>2 DEF HasOperands, TakesOne
        <3>3. ASSUME NEW x \in Byte
              PROVE  Signed(x) \in Int
            BY DEF Signed, Byte
        <3>4. Here.entry + Signed(a[1]) \in Int
            BY <3>1, <3>2, <3>3
        <3> QED  BY <1>1, <1>2, <2>2, <3>4, ToppedOK
    <2> QED  BY <1>3, <2>1, <2>2
<1>5. WorldTypeOK'
    BY DEF Jump, IInv, TypeOK, WorldTypeOK, Objects
<1> QED  BY <1>4, <1>5

\* DOALL: the loop comes back to just past itself, or the process returns.
LEMMA DoallOK ==
    ASSUME AllFlags, IInv, Executing, NEW a \in Seq(Byte), HasOperands("DOALL", a),
           Current.op = "DOALL", Doall("DOALL", a)
    PROVE  WorldTypeOK' /\ stack' \in Seq(FrameType) /\ StackOK'
<1> DEFINE f == LoopFrom(a[1])
<1>1. a[1] \in Byte
    BY DEF HasOperands, TakesOne
<1>2. /\ stack # <<>> /\ FrameOK(Here) /\ Here.running
      /\ HasEntry(Here.process, Here.entry)
      /\ Here.entry = Top.entry /\ Here.condact = Top.condact + 1 /\ Here.condact >= 1
      /\ Here.condact \in 1..Len(Block(Here.process, Here.entry))
      /\ Block(Here.process, Here.entry)[Here.condact].op = "DOALL"
    BY HereOK
<1>3. /\ f \in FrameType
      /\ f.process = Here.process /\ f.entry = Here.entry /\ f.condact = Here.condact
      /\ f.doallEntry = Here.entry /\ f.doallCondact = Here.condact
    <2>1. Here \in FrameType /\ Here.entry \in Int /\ Here.condact \in Nat
        BY <1>2 DEF FrameOK, FrameType
    <2>2. f = [Here EXCEPT !.doallEntry = Here.entry, !.doallCondact = Here.condact,
                           !.doallWhere = a[1]]
        BY <1>2 DEF LoopFrom
    <2> HIDE DEF f, Here
    <2> DEFINE h == Here
               i == Here.entry
               k == Here.condact
               p == a[1]
               g == [h EXCEPT !.doallEntry = i, !.doallCondact = k, !.doallWhere = p]
    <2>3. /\ h \in FrameType /\ i \in Int /\ k \in Int /\ p \in Byte
          /\ f = g /\ i = h.entry /\ k = h.condact
        BY <1>1, <2>1, <2>2
    <2> HIDE DEF h, i, k, p
    <2>4. /\ g \in FrameType
          /\ g.process = h.process /\ g.entry = h.entry /\ g.condact = h.condact
          /\ g.doallEntry = i /\ g.doallCondact = k
        BY <2>3 DEF FrameType
    <2> HIDE DEF g
    <2> QED  BY <2>3, <2>4 DEF h, i, k
<1> HIDE DEF f
<1>4. FrameOK(f) /\ f.doallCondact >= 0
    BY <1>2, <1>3 DEF FrameOK, StandsInside, LoopIsThere
<1>5. /\ db' = db /\ UNCHANGED <<loc, picture>>
      /\ db \in Databases /\ WorldTypeOK
    BY DEF Doall, IInv, TypeOK, WorldTypeOK
<1>6. CASE Remaining(f, 0) # {}
    <2>1. GoRound(f, Remaining(f, 0)) /\ UNCHANGED <<done, continuing>>
        BY <1>6 DEF Doall, f
    <2>2. Remaining(f, 0) \subseteq Objects /\ Remaining(f, 0) \in SUBSET Nat
        BY <1>5, RemainingType
    <2>3. /\ stack' \in Seq(FrameType) /\ StackOK'
          /\ flags' \in [FlagNo -> Byte]
        BY <1>2, <1>4, <1>5, <1>6, <2>1, <2>2, GoRoundOK
    <2> QED  BY <1>5, <2>1, <2>3 DEF WorldTypeOK, Objects
<1>7. CASE Remaining(f, 0) = {}
    <2>1. stack' = Below /\ done' = FALSE /\ continuing' = FALSE
        BY <1>7 DEF Doall, f
    <2>2. flags' \in [FlagNo -> Byte]
        <3>1. NoWord \in Byte /\ flags \in [FlagNo -> Byte]
            BY <1>5 DEF NoWord, Byte, WorldTypeOK
        <3> QED  BY <1>7, <3>1 DEF Doall, f
    <2>3. stack' \in Seq(FrameType) /\ StackOK'
        BY <1>2, <1>5, <2>1, PoppedOK
    <2> QED  BY <1>5, <2>1, <2>2, <2>3 DEF WorldTypeOK, Objects
<1> QED  BY <1>6, <1>7

-----------------------------------------------------------------------------
\* A new game, and the end of one.

\* A new game puts everything back where the adventure has it (reset).
LEMMA NewGameOK ==
    ASSUME AllFlags, IInv, db' = db, NewGame
    PROVE  /\ WorldTypeOK' /\ stack' \in Seq(FrameType) /\ StackOK'
           /\ finished' \in BOOLEAN /\ restart' \in BOOLEAN
<1>1. db \in Databases
    BY DEF IInv, TypeOK, WorldTypeOK
<1>2. 0 \in Byte
    BY DEF Byte
<1>3. FirstPlaces \in [Objects -> Byte]
    BY <1>1, <1>2, DataType DEF FirstPlaces, ObjectData
<1>4. [n \in FlagNo |-> 0] \in [FlagNo -> Byte]
    BY <1>2
<1>5. flags' \in [FlagNo -> Byte]
    BY <1>1, <1>3, <1>4, RecountedType DEF NewGame
<1>6. WorldTypeOK'
    BY <1>1, <1>3, <1>5 DEF NewGame, WorldTypeOK, Objects
<1>7. stack' \in Seq(FrameType) /\ StackOK'
    BY EmptiedOK DEF NewGame
<1> QED  BY <1>6, <1>7 DEF NewGame

\* RESTART, EXIT, and QUIT and END with nobody to answer.
LEMMA RestartOK ==
    ASSUME AllFlags, IInv, Executing, NEW op, NEW a, Restart(op, a) \/ WalkAway(op)
    PROVE  /\ WorldTypeOK' /\ stack' \in Seq(FrameType) /\ StackOK'
           /\ finished' \in BOOLEAN /\ restart' \in BOOLEAN
<1>1. db' = db
    BY DEF Restart, WalkAway
<1>2. CASE NewGame
    BY <1>1, <1>2, NewGameOK
<1>3. CASE /\ stack' = WithTop(Here) /\ UNCHANGED world
           /\ finished' \in BOOLEAN /\ restart' \in BOOLEAN
    <2>1. WorldTypeOK'
        BY <1>1, <1>3 DEF IInv, TypeOK, WorldTypeOK, world, Objects
    <2> QED  BY <1>1, <1>3, <2>1, SteppedOK
<1>4. finished \in BOOLEAN /\ restart \in BOOLEAN
    BY DEF IInv, TypeOK
<1> QED  BY <1>2, <1>3, <1>4 DEF Restart, WalkAway, Finish

\* QUIT and END with an answer.
LEMMA AnswerOK ==
    ASSUME AllFlags, IInv, Executing, NEW op, Answer(op)
    PROVE  /\ WorldTypeOK' /\ stack' \in Seq(FrameType) /\ StackOK'
           /\ finished' \in BOOLEAN /\ restart' \in BOOLEAN
<1>1. db' = db /\ finished \in BOOLEAN /\ restart \in BOOLEAN
    BY DEF Answer, IInv, TypeOK
<1>2. PICK line \in Lines :
        \/ /\ stack' = WithTop([Here EXCEPT !.running = (line.reply = "yes")])
           /\ continuing' = (line.reply = "yes")
           /\ UNCHANGED <<flags, loc, done, picture, finished, restart>>
        \/ Finish
        \/ NewGame
    BY DEF Answer
<1>3. CASE /\ stack' = WithTop([Here EXCEPT !.running = (line.reply = "yes")])
           /\ continuing' = (line.reply = "yes")
           /\ UNCHANGED <<flags, loc, done, picture, finished, restart>>
    <2>1. PICK b \in BOOLEAN : b = (line.reply = "yes")
        OBVIOUS
    <2>2. stack' \in Seq(FrameType) /\ StackOK'
        BY <1>1, <1>3, <2>1, SteppedOK
    <2>3. continuing' \in BOOLEAN
        BY <1>3, <2>1
    <2>4. WorldTypeOK'
        BY <1>1, <1>3, <2>3 DEF IInv, TypeOK, WorldTypeOK, Objects
    <2> QED  BY <1>1, <1>3, <2>2, <2>4
<1>4. CASE Finish
    <2>1. WorldTypeOK'
        BY <1>1, <1>4 DEF Finish, IInv, TypeOK, WorldTypeOK, world, Objects
    <2> QED  BY <1>1, <1>4, <2>1, SteppedOK DEF Finish
<1>5. CASE NewGame
    BY <1>1, <1>5, NewGameOK
<1> QED  BY <1>2, <1>3, <1>4, <1>5

-----------------------------------------------------------------------------
\* PARSE.

\* Whatever the words, what they are filed as fills the flags with bytes.
LEMMA FiledType ==
    ASSUME NEW words \in Seq(Word)
    PROVE  WithVerb(Filed(words)) \in Slots
<1>1. NoWord \in Byte
    BY DEF NoWord, Byte
<1>2. ASSUME NEW kind
      PROVE  FirstOf(words, kind) \in Byte /\ SecondOf(words, kind) \in Byte
    <2> DEFINE all == OfKind(words, kind)
               rest == all \ {First(all)}
    <2>1. all \in SUBSET Nat /\ all \subseteq DOMAIN words
        BY DEF OfKind
    <2>2. ASSUME NEW i \in DOMAIN words
          PROVE  words[i].value \in Byte
        <3>1. words[i] \in Word
            BY ElementType
        <3> QED  BY <3>1 DEF Word
    <2>3. FirstOf(words, kind) \in Byte
        <3>1. CASE all = {}
            BY <1>1, <3>1 DEF FirstOf
        <3>2. CASE all # {}
            <4> HIDE DEF all
            <4>1. First(all) \in DOMAIN words
                BY <2>1, <3>2, FirstIsLeast
            <4> QED  BY <2>2, <3>2, <4>1 DEF FirstOf, all
        <3> QED  BY <3>1, <3>2
    <2>4. SecondOf(words, kind) \in Byte
        <3>1. CASE all = {} \/ rest = {}
            BY <1>1, <3>1 DEF SecondOf
        <3>2. CASE ~(all = {} \/ rest = {})
            <4>1. rest \in SUBSET Nat /\ rest \subseteq DOMAIN words /\ rest # {}
                BY <2>1, <3>2
            <4> HIDE DEF all, rest
            <4>2. First(rest) \in DOMAIN words
                BY <4>1, FirstIsLeast
            <4> QED  BY <2>2, <3>2, <4>2 DEF SecondOf, all, rest
        <3> QED  BY <3>1, <3>2
    <2> QED  BY <2>3, <2>4
<1>3. Filed(words) \in Slots
    BY <1>2 DEF Filed, Slots
<1> QED  BY <1>3 DEF WithVerb, Slots

\* The flags the parser and the clock write are among all 256.
LEMMA ParserFlags ==
    ASSUME AllFlags
    PROVE  FlagCPNoun \in FlagNo /\ FlagCPAdject \in FlagNo /\ FlagTimeFlags \in FlagNo
<1>1. FlagCPNoun \in Byte /\ FlagCPAdject \in Byte /\ FlagTimeFlags \in Byte
    BY DEF FlagCPNoun, FlagCPAdject, FlagTimeFlags, Byte
<1> QED  BY <1>1 DEF AllFlags

\* A line read into the flags leaves them bytes.
LEMMA ToldType ==
    ASSUME AllFlags, NEW f \in [FlagNo -> Byte], NEW words \in Seq(Word)
    PROVE  Told(f, words) \in [FlagNo -> Byte]
<1> DEFINE s == WithVerb(Filed(words))
<1>1. s \in Slots
    BY FiledType
<1> HIDE DEF s
<1>2. /\ s.verb \in Byte /\ s.adverb \in Byte /\ s.noun1 \in Byte /\ s.noun2 \in Byte
      /\ s.adject1 \in Byte /\ s.adject2 \in Byte /\ s.prep \in Byte
    BY <1>1 DEF Slots
<1>3. ASSUME NEW t \in Byte, NEW u \in Byte, NEW v \in Byte, NEW w \in Byte,
             NEW x \in Byte, NEW y \in Byte, NEW z \in Byte
      PROVE  [f EXCEPT ![FlagVerb] = t, ![FlagAdverb] = u, ![FlagNoun1] = v,
                       ![FlagAdject1] = w, ![FlagPrep] = x, ![FlagNoun2] = y,
                       ![FlagAdject2] = z] \in [FlagNo -> Byte]
    OBVIOUS
<1> DEFINE g == [f EXCEPT ![FlagVerb] = s.verb, ![FlagAdverb] = s.adverb,
                          ![FlagNoun1] = s.noun1, ![FlagAdject1] = s.adject1,
                          ![FlagPrep] = s.prep, ![FlagNoun2] = s.noun2,
                          ![FlagAdject2] = s.adject2]
<1>4. g \in [FlagNo -> Byte]
    BY <1>2, <1>3
<1> HIDE DEF g
<1> DEFINE h == [g EXCEPT ![FlagCPNoun] = IF Pronounable(s.noun1) THEN s.noun1 ELSE @]
<1>5. h \in [FlagNo -> Byte]
    <2>1. FlagCPNoun \in FlagNo
        BY ParserFlags
    <2> QED  BY <1>2, <1>4, <2>1
<1> HIDE DEF h
<1>6. [h EXCEPT ![FlagCPAdject] = IF Pronounable(s.noun1) THEN s.adject1 ELSE @]
        \in [FlagNo -> Byte]
    <2>1. FlagCPAdject \in FlagNo
        BY ParserFlags
    <2> QED  BY <1>2, <1>5, <2>1
<1> QED  BY <1>6 DEF Told, h, g, s

\* The bit of the clock is set or cleared in a byte.
LEMMA ClockTypes ==
    ASSUME AllFlags, NEW f \in [FlagNo -> Byte]
    PROVE  Unexpired(f) \in [FlagNo -> Byte] /\ Expired(f) \in [FlagNo -> Byte]
<1>1. FlagTimeFlags \in FlagNo
    BY ParserFlags
<1>2. \A x \in Byte : x % 128 \in Byte /\ 128 + (x % 128) \in Byte
    BY DEF Byte
<1>3. f[FlagTimeFlags] % 128 \in Byte /\ 128 + (f[FlagTimeFlags] % 128) \in Byte
    BY <1>1, <1>2
<1> QED  BY <1>3 DEF Unexpired, Expired, TimedOut

\* PARSE once it has its words.
LEMMA ReadsOK ==
    ASSUME AllFlags, IInv, Executing, db' = db, NEW f \in [FlagNo -> Byte],
           NEW words \in Seq(Word), Reads(f, words)
    PROVE  /\ WorldTypeOK' /\ stack' \in Seq(FrameType) /\ StackOK'
           /\ restart' \in BOOLEAN
<1>1. PICK b \in BOOLEAN : b = ~Understood(words)
    OBVIOUS
<1>2. /\ continuing' = b /\ stack' = WithTop([Here EXCEPT !.running = b])
      /\ UNCHANGED <<loc, done, picture, restart>>
    BY <1>1 DEF Reads
<1>3. flags' \in [FlagNo -> Byte]
    BY ToldType DEF Reads
<1>4. stack' \in Seq(FrameType) /\ StackOK'
    BY <1>2, SteppedOK
<1>5. WorldTypeOK' /\ restart' \in BOOLEAN
    BY <1>1, <1>2, <1>3 DEF IInv, TypeOK, WorldTypeOK, Objects
<1> QED  BY <1>4, <1>5

\* PARSE, wherever the words come from, and when there are none to come.
LEMMA ParseOK ==
    ASSUME AllFlags, IInv, Executing, NEW op, NEW a,
           ParseLiteral(op, a) \/ ParseLine(op, a) \/ ParseExpired(op, a) \/ ParseEnd(op, a)
    PROVE  /\ WorldTypeOK' /\ stack' \in Seq(FrameType) /\ StackOK'
           /\ finished' \in BOOLEAN /\ restart' \in BOOLEAN /\ literal' \in Seq(Word)
<1>1. /\ db' = db /\ flags \in [FlagNo -> Byte] /\ literal \in Seq(Word)
      /\ finished \in BOOLEAN /\ restart \in BOOLEAN
    BY DEF ParseLiteral, ParseLine, ParseExpired, ParseEnd, IInv, TypeOK, WorldTypeOK
<1>2. Unexpired(flags) \in [FlagNo -> Byte] /\ Expired(flags) \in [FlagNo -> Byte]
    BY <1>1, ClockTypes
<1>3. CASE ParseLiteral(op, a)
    BY <1>1, <1>3, ReadsOK DEF ParseLiteral
<1>4. CASE ParseLine(op, a)
    <2>1. PICK line \in Lines :
            Reads(Unexpired(flags), line.said) /\ literal' = line.quoted
        BY <1>4 DEF ParseLine
    <2>2. line.said \in Seq(Word) /\ line.quoted \in Seq(Word)
        BY MachineAssumption
    <2>3. /\ WorldTypeOK' /\ stack' \in Seq(FrameType) /\ StackOK'
          /\ restart' \in BOOLEAN
        BY <1>1, <1>2, <2>1, <2>2, ReadsOK
    <2> QED  BY <1>1, <1>4, <2>1, <2>2, <2>3 DEF ParseLine
<1>5. CASE ParseExpired(op, a)
    <2>1. <<>> \in Seq(Word)
        OBVIOUS
    <2> QED  BY <1>1, <1>2, <1>5, <2>1, ReadsOK DEF ParseExpired
<1>6. CASE ParseEnd(op, a)
    <2>1. /\ stack' = WithTop(Here) /\ flags' \in [FlagNo -> Byte]
          /\ UNCHANGED <<loc, done, continuing, picture, restart, literal>>
          /\ finished' = TRUE
        BY <1>2, <1>6 DEF ParseEnd
    <2>2. WorldTypeOK'
        BY <1>1, <2>1 DEF IInv, TypeOK, WorldTypeOK, Objects
    <2> QED  BY <1>1, <2>1, <2>2, SteppedOK
<1> QED  BY <1>3, <1>4, <1>5, <1>6

\* The condacts that change nothing, and those nothing implements.
LEMMA WaitOK ==
    ASSUME IInv, Executing, NEW op, Wait(op) \/ Broken(op)
    PROVE  WorldTypeOK' /\ stack' \in Seq(FrameType) /\ StackOK'
<1>1. db' = db /\ UNCHANGED world /\ stack' = WithTop(Here)
    BY DEF Wait, Broken
<1>2. WorldTypeOK'
    BY <1>1 DEF IInv, TypeOK, WorldTypeOK, world, Objects
<1> QED  BY <1>1, <1>2, SteppedOK

-----------------------------------------------------------------------------
\* One condact, whichever.

\* The world and the stack after any condact.
LEMMA ExecOK ==
    ASSUME AllFlags, IInv, Exec
    PROVE  WorldTypeOK' /\ stack' \in Seq(FrameType) /\ StackOK'
<1> DEFINE op == Current.op
           a == Operands
<1>1. Executing /\ a \in Seq(Byte) /\ HasOperands(op, a)
    BY OperandsType DEF Exec
<1>2. \/ DataCondact(op, a) \/ Done(op) \/ Return(op) \/ Call(op, a) \/ Jump(op, a)
      \/ Doall(op, a) \/ Restart(op, a) \/ WalkAway(op) \/ Answer(op)
      \/ ParseLiteral(op, a) \/ ParseLine(op, a) \/ ParseExpired(op, a)
      \/ ParseEnd(op, a) \/ Wait(op) \/ Broken(op)
    BY DEF Exec
<1> HIDE DEF a
<1>3. CASE DataCondact(op, a)
    BY <1>1, <1>3, DataCondactOK
<1>4. CASE Done(op) \/ Return(op)
    BY <1>1, <1>4, DoneOK
<1>5. CASE Call(op, a)
    <2>1. op = "PROCESS"
        BY <1>5 DEF Call
    <2> QED  BY <1>1, <1>5, <2>1, CallOK
<1>6. CASE Jump(op, a)
    BY <1>1, <1>6, JumpOK
<1>7. CASE Doall(op, a)
    <2>1. op = "DOALL"
        BY <1>7 DEF Doall
    <2> QED  BY <1>1, <1>7, <2>1, DoallOK
<1>8. CASE Restart(op, a) \/ WalkAway(op)
    BY <1>1, <1>8, RestartOK
<1>9. CASE Answer(op)
    BY <1>1, <1>9, AnswerOK
<1>10. CASE \/ ParseLiteral(op, a) \/ ParseLine(op, a) \/ ParseExpired(op, a)
            \/ ParseEnd(op, a)
    BY <1>1, <1>10, ParseOK
<1>11. CASE Wait(op) \/ Broken(op)
    BY <1>1, <1>11, WaitOK
<1> QED  BY <1>2, <1>3, <1>4, <1>5, <1>6, <1>7, <1>8, <1>9, <1>10, <1>11

\* The rest of the machine's state after a condact.
Counts ==
    /\ finished \in BOOLEAN /\ restart \in BOOLEAN
    /\ inputs \in 0..MaxInputs
    /\ literal \in Seq(Word)
    /\ indir \in Byte \cup {None}
    /\ before \in 0..inputs
    /\ spins \in 0..(SpinLimit + 1)
    /\ status \in Statuses
    /\ SpinsBelow

\* And the rest of the machine.
LEMMA ExecCounts ==
    ASSUME AllFlags, IInv, Exec
    PROVE  Counts'
<1> DEFINE op == Current.op
           a == Operands
<1>1. Executing /\ a \in Seq(Byte) /\ HasOperands(op, a)
    BY OperandsType DEF Exec
<1>2. /\ finished \in BOOLEAN /\ restart \in BOOLEAN /\ inputs \in 0..MaxInputs
      /\ literal \in Seq(Word) /\ before \in 0..inputs /\ spins \in 0..(SpinLimit + 1)
      /\ status = "turn" /\ SpinsBelow /\ flags \in [FlagNo -> Byte]
    BY <1>1 DEF IInv, TypeOK, WorldTypeOK, Executing, InTurn
<1>3. /\ UNCHANGED <<before, spins>>
      /\ indir' = IF op = "INDIR" THEN flags[a[1]] ELSE None
      /\ \/ DataCondact(op, a) \/ Done(op) \/ Return(op) \/ Call(op, a) \/ Jump(op, a)
         \/ Doall(op, a) \/ Restart(op, a) \/ WalkAway(op) \/ Answer(op)
         \/ ParseLiteral(op, a) \/ ParseLine(op, a) \/ ParseExpired(op, a)
         \/ ParseEnd(op, a) \/ Wait(op) \/ Broken(op)
    BY DEF Exec
<1> HIDE DEF a
<1>4. indir' \in Byte \cup {None}
    <2>1. op = "INDIR" => a[1] \in Byte
        BY <1>1 DEF HasOperands, TakesOne
    <2> QED  BY <1>2, <1>3, <2>1 DEF AllFlags
<1>5. finished' \in BOOLEAN /\ restart' \in BOOLEAN
    <2>1. CASE \/ DataCondact(op, a) \/ Done(op) \/ Return(op) \/ Call(op, a)
               \/ Jump(op, a) \/ Doall(op, a) \/ Wait(op) \/ Broken(op)
        BY <1>2, <2>1 DEF DataCondact, Done, Return, Call, Jump, Doall, Wait, Broken, run
    <2>2. CASE Restart(op, a) \/ WalkAway(op)
        BY <1>1, <2>2, RestartOK
    <2>3. CASE Answer(op)
        BY <1>1, <2>3, AnswerOK
    <2>4. CASE \/ ParseLiteral(op, a) \/ ParseLine(op, a) \/ ParseExpired(op, a)
               \/ ParseEnd(op, a)
        BY <1>1, <2>4, ParseOK
    <2> QED  BY <1>3, <2>1, <2>2, <2>3, <2>4
<1>6. literal' \in Seq(Word)
    <2>1. CASE \/ ParseLiteral(op, a) \/ ParseLine(op, a) \/ ParseExpired(op, a)
               \/ ParseEnd(op, a)
        BY <1>1, <2>1, ParseOK
    <2>2. CASE literal' = literal
        BY <1>2, <2>2
    <2> QED
        BY <1>3, <2>1, <2>2 DEF DataCondact, Done, Return, Call, Jump, Doall, Restart,
           WalkAway, Answer, Wait, Broken, run
<1>7. inputs' = inputs \/ (inputs < MaxInputs /\ inputs' = inputs + 1)
    BY <1>3 DEF DataCondact, Done, Return, Call, Jump, Doall, Restart, WalkAway, Answer,
       ParseLiteral, ParseLine, ParseExpired, ParseEnd, Wait, Broken, run
<1>8. inputs' \in 0..MaxInputs /\ before' \in 0..inputs'
    BY <1>2, <1>3, <1>7, MachineAssumption
<1>9. status' \in {"turn", "broken"}
    BY <1>2, <1>3 DEF DataCondact, Done, Return, Call, Jump, Doall, Restart, WalkAway, Answer,
       ParseLiteral, ParseLine, ParseExpired, ParseEnd, Wait, Broken
<1>10. SpinsBelow' /\ status' \in Statuses
    BY <1>2, <1>3, <1>9 DEF SpinsBelow, Statuses
<1> QED  BY <1>2, <1>3, <1>4, <1>5, <1>6, <1>8, <1>10 DEF Counts

-----------------------------------------------------------------------------
\* The steps between condacts.

\* A turn starts with the one frame of process 0, before its first entry.
LEMMA BeginTurnOK ==
    ASSUME IInv, BeginTurn
    PROVE  IInv'
<1>1. Len(stack') = 1 /\ stack' = <<Frame(0)>> /\ stack'[1] = Frame(0)
    BY DEF BeginTurn
<1>2. Frame(0) \in FrameType
    <2>1. 0 \in Byte
        BY DEF Byte
    <2> QED  BY <2>1 DEF Frame, FrameType
<1>3. stack' \in Seq(FrameType)
    BY <1>1, <1>2
<1>4. ~Frame(0).running /\ ~(Frame(0).doallCondact >= 0)
    BY DEF Frame
<1>5. StackOK'
    <2>1. DOMAIN stack' = {1} /\ 1..(Len(stack') - 1) = {}
        BY <1>1
    <2> QED
        BY <1>1, <1>4, <2>1 DEF StackOK, RunningInside, CallersWait,
           LoopsReturnToTheirDoall, StandsInside, LoopIsThere
<1>6. WorldTypeOK'
    BY DEF BeginTurn, IInv, TypeOK, WorldTypeOK, Objects
<1>7. Counts'
    <2>1. /\ inputs' = inputs /\ before' = inputs /\ inputs \in 0..MaxInputs
          /\ spins' = spins /\ spins <= SpinLimit /\ spins \in 0..(SpinLimit + 1)
        BY DEF BeginTurn, IInv, TypeOK, SpinsBelow
    <2>2. before' \in 0..inputs'
        BY <2>1
    <2>3. status' \in Statuses /\ SpinsBelow'
        BY <2>1 DEF BeginTurn, Statuses, SpinsBelow
    <2> QED  BY <2>1, <2>2, <2>3 DEF BeginTurn, IInv, TypeOK, Counts
<1> QED  BY <1>3, <1>5, <1>6, <1>7 DEF IInv, TypeOK, Counts

\* Finding an entry: First picks one the process has; or round, or back.
LEMMA FindEntryOK ==
    ASSUME AllFlags, IInv, FindEntry
    PROVE  IInv'
<1>1. stack # <<>> /\ FrameOK(Top) /\ Top.entry + 1 >= 0
    BY TopOK DEF FindEntry, InTurn
<1>2. /\ db' = db /\ db \in Databases /\ WorldTypeOK /\ flags \in [FlagNo -> Byte]
      /\ UNCHANGED <<loc, done, picture>> /\ continuing' = TRUE
    BY DEF FindEntry, IInv, TypeOK, WorldTypeOK
<1>3. Counts'
    BY DEF FindEntry, run, loop, IInv, TypeOK, Counts, SpinsBelow
<1>4. stack' \in Seq(FrameType) /\ StackOK' /\ flags' \in [FlagNo -> Byte]
    <2>1. CASE /\ Answering # {} /\ UNCHANGED flags
               /\ stack' = WithTop([Top EXCEPT !.entry = First(Answering), !.condact = 0,
                                               !.running = TRUE])
        <3> DEFINE n == First(Answering)
                   g == [Top EXCEPT !.entry = n, !.condact = 0, !.running = TRUE]
        <3>1. Top \in FrameType /\ Top.entry \in Int /\ LoopIsThere(Top)
            BY <1>1 DEF FrameOK, FrameType
        <3>2. EntriesOf(Top.process) \in Seq(Entry)
            BY <1>2, EntriesType
        <3>3. Answering \in SUBSET Nat
            BY <1>1, <3>1, <3>2 DEF Answering
        <3>4. n \in Answering
            BY <2>1, <3>3, FirstIsLeast
        <3>5. n \in Int /\ HasEntry(Top.process, n)
            BY <1>1, <3>1, <3>2, <3>4 DEF Answering, HasEntry
        <3> HIDE DEF n
        <3>6. Len(Block(Top.process, n)) \in Nat
            BY <1>2, <3>5, BlockType
        <3>7. /\ g \in FrameType /\ g.process = Top.process /\ g.entry = n /\ g.condact = 0
              /\ g.doallEntry = Top.doallEntry /\ g.doallCondact = Top.doallCondact
            BY <3>1, <3>5 DEF FrameType
        <3> HIDE DEF g
        <3>8. FrameOK(g)
            BY <3>1, <3>5, <3>6, <3>7 DEF FrameOK, StandsInside, LoopIsThere
        <3>9. stack' = WithTop(g)
            BY <2>1 DEF g, n
        <3> QED  BY <1>1, <1>2, <2>1, <3>8, <3>9, ToppedOK
    <2>2. CASE Looping(Top) /\ GoRound(Top, Remaining(Top, NextObject))
        <3>1. /\ Remaining(Top, NextObject) \subseteq Objects
              /\ Remaining(Top, NextObject) \in SUBSET Nat
            BY <1>2, RemainingType
        <3> QED  BY <1>1, <1>2, <2>2, <3>1, GoRoundOK DEF Looping
    <2>3. CASE stack' = Below /\ UNCHANGED flags
        BY <1>1, <1>2, <2>3, PoppedOK
    <2> QED  BY <2>1, <2>2, <2>3 DEF FindEntry
<1>5. WorldTypeOK'
    BY <1>2, <1>4 DEF WorldTypeOK, Objects
<1> QED  BY <1>3, <1>4, <1>5 DEF IInv, TypeOK, Counts

\* Leaving an entry asks nothing of where the frame stands.
LEMMA LeaveEntryOK ==
    ASSUME IInv, LeaveEntry
    PROVE  IInv'
<1> DEFINE g == [Top EXCEPT !.running = FALSE]
<1>1. stack # <<>> /\ FrameOK(Top) /\ db' = db /\ stack' = WithTop(g)
    BY TopOK DEF LeaveEntry, InTurn
<1>2. FrameOK(g)
    BY <1>1 DEF FrameOK, FrameType, StandsInside, LoopIsThere
<1> HIDE DEF g
<1>3. stack' \in Seq(FrameType) /\ StackOK'
    BY <1>1, <1>2, ToppedOK
<1>4. WorldTypeOK'
    BY <1>1 DEF LeaveEntry, world, IInv, TypeOK, WorldTypeOK, Objects
<1>5. Counts'
    BY DEF LeaveEntry, run, loop, IInv, TypeOK, Counts, SpinsBelow
<1> QED  BY <1>3, <1>4, <1>5 DEF IInv, TypeOK, Counts

\* Nothing that StackOK speaks of has moved.
LEMMA StackStays ==
    ASSUME IInv, stack' = stack, db' = db, UNCHANGED world
    PROVE  WorldTypeOK' /\ stack' \in Seq(FrameType) /\ StackOK'
<1>1. WorldTypeOK' /\ stack' \in Seq(FrameType)
    BY DEF world, IInv, TypeOK, WorldTypeOK, Objects
<1>2. RunningInside'
    BY DEF IInv, StackOK, RunningInside, StandsInside, HasEntry, Block, EntriesOf
<1>3. CallersWait'
    BY DEF IInv, StackOK, CallersWait, AwaitsItsCall, Block, EntriesOf
<1>4. LoopsReturnToTheirDoall'
    BY DEF IInv, StackOK, LoopsReturnToTheirDoall, LoopIsThere, HasEntry, Block, EntriesOf
<1> QED  BY <1>1, <1>2, <1>3, <1>4 DEF StackOK

\* The end of a turn moves no frame, and counts no further than one past the limit.
LEMMA EndTurnOK ==
    ASSUME IInv, EndTurn \/ Crash
    PROVE  IInv'
<1>1. WorldTypeOK' /\ stack' \in Seq(FrameType) /\ StackOK'
    BY StackStays DEF EndTurn, Crash
<1>2. Counts'
    <2>1. /\ UNCHANGED <<finished, restart, inputs, literal, indir, before>>
          /\ spins \in Nat /\ spins <= SpinLimit /\ SpinLimit \in Nat
        BY MachineAssumption DEF EndTurn, Crash, TurnEnds, InTurn, run, IInv, TypeOK,
           SpinsBelow
    <2>2. /\ spins' \in 0..(SpinLimit + 1) /\ status' \in Statuses
          /\ SpinsBelow'
        BY <2>1 DEF EndTurn, Crash, Again, Statuses, SpinsBelow
    <2> QED  BY <2>1, <2>2 DEF IInv, TypeOK, Counts
<1> QED  BY <1>1, <1>2 DEF IInv, TypeOK, Counts

-----------------------------------------------------------------------------
\* The machine as New and reset leave it.
LEMMA InitOK ==
    ASSUME AllFlags, Init
    PROVE  IInv
<1>1. WorldTypeOK
    BY WorldInitTypes DEF Init
<1>2. /\ stack = <<>> /\ DOMAIN stack = {} /\ 1..(Len(stack) - 1) = {}
    BY DEF Init
<1>3. StackOK
    BY <1>2 DEF StackOK, RunningInside, CallersWait, LoopsReturnToTheirDoall
<1>4. Counts
    <2>1. inputs \in 0..MaxInputs /\ before \in 0..inputs /\ spins \in 0..(SpinLimit + 1)
        BY MachineAssumption DEF Init
    <2>2. literal \in Seq(Word) /\ indir \in Byte \cup {None}
        BY DEF Init
    <2>3. status \in Statuses /\ SpinsBelow
        BY MachineAssumption DEF Init, Statuses, SpinsBelow
    <2> QED  BY <2>1, <2>2, <2>3 DEF Init, Counts
<1>5. stack \in Seq(FrameType)
    BY <1>2
<1> QED  BY <1>1, <1>3, <1>4, <1>5 DEF IInv, TypeOK, Counts

\* Every step keeps the invariant.
LEMMA NextOK ==
    ASSUME AllFlags, IInv, [Next]_vars
    PROVE  IInv'
<1>1. CASE BeginTurn
    BY <1>1, BeginTurnOK
<1>2. CASE FindEntry
    BY <1>2, FindEntryOK
<1>3. CASE Exec
    <2>1. WorldTypeOK' /\ stack' \in Seq(FrameType) /\ StackOK'
        BY <1>3, ExecOK
    <2>2. Counts'
        BY <1>3, ExecCounts
    <2> QED  BY <2>1, <2>2 DEF IInv, TypeOK, Counts
<1>4. CASE LeaveEntry
    BY <1>4, LeaveEntryOK
<1>5. CASE EndTurn \/ Crash
    BY <1>5, EndTurnOK
<1>6. CASE UNCHANGED vars
    <2>1. WorldTypeOK' /\ stack' \in Seq(FrameType) /\ StackOK'
        BY <1>6, StackStays DEF vars
    <2>2. Counts'
        BY <1>6 DEF vars, run, loop, IInv, TypeOK, Counts, SpinsBelow
    <2> QED  BY <2>1, <2>2 DEF IInv, TypeOK, Counts
<1> QED  BY <1>1, <1>2, <1>3, <1>4, <1>5, <1>6 DEF Next, Terminated

-----------------------------------------------------------------------------
\* The inductive invariant, with all 256 flags modelled.
THEOREM MachineInvariant ==
    ASSUME AllFlags
    PROVE  Spec => []IInv
<1>1. Init => IInv
    BY InitOK
<1>2. IInv /\ [Next]_vars => IInv'
    BY NextOK
<1> QED  BY <1>1, <1>2, PTL DEF Spec

\* Every variable of the machine keeps its type, whatever the adventure: no flag
\* leaves its byte and the count of idle turns never passes the limit by two.
THEOREM MachineTypes ==
    ASSUME AllFlags
    PROVE  Spec => []TypeOK
<1>1. IInv => TypeOK
    BY DEF IInv
<1> QED  BY <1>1, MachineInvariant, PTL

\* A running frame always stands in or just past a condact of an entry it has: no
\* adventure reads off the end of a block, whatever it jumps, calls and loops.
THEOREM NeverOffTheEnd ==
    ASSUME AllFlags
    PROVE  Spec => []RunningInside
<1>1. IInv => RunningInside
    BY DEF IInv, StackOK
<1> QED  BY <1>1, MachineInvariant, PTL

\* Every process but the running one waits just past the PROCESS it called with, and
\* wherever a loop would go back to, there is a DOALL just in front of it.
THEOREM ReturnsArePlaced ==
    ASSUME AllFlags
    PROVE  Spec => []ReturnsToItsPlace
<1>1. IInv => ReturnsToItsPlace
    BY DEF IInv, StackOK, ReturnsToItsPlace
<1> QED  BY <1>1, MachineInvariant, PTL
-----------------------------------------------------------------------------
\* What an onlooker remembers of the frames.

TellType == [acted : BOOLEAN, stayed : SUBSET Nat, taken : SUBSET Nat]

\* There is a record for each frame, of things that are still in its loop's place.
HistoryOK ==
    /\ told \in Seq(TellType)
    /\ Len(told) = Len(stack)
    /\ \A i \in DOMAIN told : told[i].stayed \subseteq Remaining(stack[i], 0)
    /\ DoneIsTheProcessesOwn

HistoryInv == IInv /\ HistoryOK

\* The stack with any frame for a top is as deep, and the same under it.
LEMMA AnyTop ==
    ASSUME stack \in Seq(FrameType), stack # <<>>, NEW f
    PROVE  /\ \E S : WithTop(f) \in Seq(S)
           /\ Len(WithTop(f)) = Len(stack) /\ WithTop(f)[Len(stack)] = f
           /\ \A i \in 1..(Len(stack) - 1) : WithTop(f)[i] = stack[i]
<1> DEFINE S == FrameType \cup {f}
           B == Below
<1>1. /\ B \in Seq(FrameType) /\ Len(B) = Len(stack) - 1 /\ Len(stack) \in Nat
      /\ \A i \in 1..(Len(stack) - 1) : B[i] = stack[i]
    BY BelowFacts
<1> HIDE DEF B
<1>2. B \in Seq(S) /\ f \in S
    BY <1>1
<1> HIDE DEF S
<1>3. /\ Append(B, f) \in Seq(S) /\ Len(Append(B, f)) = Len(B) + 1
      /\ Append(B, f)[Len(B) + 1] = f
      /\ \A i \in 1..Len(B) : Append(B, f)[i] = B[i]
    BY <1>2, AppendProperties
<1> QED  BY <1>1, <1>3 DEF WithTop, B

\* Wherever a frame goes, it keeps its loop.
LEMMA LoopIsKept ==
    ASSUME IInv, stack # <<>>
    PROVE  /\ Here.doallCondact = Top.doallCondact /\ Here.doallWhere = Top.doallWhere
           /\ \A b : [Here EXCEPT !.running = b].doallCondact = Top.doallCondact
           /\ \A n, c, b : [Here EXCEPT !.entry = n, !.condact = c, !.running = b].doallCondact
                              = Top.doallCondact
           /\ \A n, c, b : [Top EXCEPT !.entry = n, !.condact = c, !.running = b].doallCondact
                              = Top.doallCondact
           /\ \A b : [Top EXCEPT !.running = b].doallCondact = Top.doallCondact
<1>1. Top \in FrameType
    BY TopOK DEF FrameOK
<1> QED  BY <1>1 DEF Here, FrameType

\* A step that goes round keeps the loop of the frame it takes on.
LEMMA RoundKeepsLoop ==
    ASSUME NEW f \in FrameType, NEW S, GoRound(f, S)
    PROVE  \E g : stack' = WithTop(g) /\ g.doallCondact = f.doallCondact
<1> DEFINE g == [f EXCEPT !.entry = f.doallEntry, !.condact = f.doallCondact,
                          !.running = TRUE]
<1>1. stack' = WithTop(g) /\ g.doallCondact = f.doallCondact
    BY DEF GoRound, FrameType
<1> QED  BY <1>1

\* What any step but a turn's first does to the stack: it empties it, pops it, leaves it,
\* changes its top, or calls, which forgets that anything was done.  Only a DOALL makes a
\* loop.
Changes == \E f : /\ stack' = WithTop(f)
                  /\ f.doallCondact = Top.doallCondact \/ Running("DOALL")
Deepens == \E f, g : /\ stack' = Append(WithTop(f), g) /\ done' = FALSE
                     /\ f.doallCondact = Top.doallCondact /\ g.doallCondact < 0
Moves == stack' = <<>> \/ stack' = Below \/ Changes \/ Deepens

LEMMA StackMoves ==
    ASSUME IInv, Executing, Exec
    PROVE  Moves
<1> DEFINE op == Current.op
           a == Operands
<1>1. \/ DataCondact(op, a) \/ Done(op) \/ Return(op) \/ Call(op, a) \/ Jump(op, a)
      \/ Doall(op, a) \/ Restart(op, a) \/ WalkAway(op) \/ Answer(op)
      \/ ParseLiteral(op, a) \/ ParseLine(op, a) \/ ParseExpired(op, a)
      \/ ParseEnd(op, a) \/ Wait(op) \/ Broken(op)
    BY DEF Exec
<1>2. stack # <<>> /\ Here \in FrameType
    BY HereOK DEF FrameOK
<1>3. op = "DOALL" => Running("DOALL")
    BY DEF Running
<1> HIDE DEF op, a
<1>4. CASE Call(op, a)
    <2>1. Frame(a[1]).doallCondact < 0
        BY DEF Frame
    <2> QED  BY <1>2, <1>4, <2>1, LoopIsKept DEF Call, Moves, Deepens
<1>5. CASE Done(op) \/ Return(op)
    <2>1. CASE GoRound(Here, Remaining(Here, NextObject))
        BY <1>2, <2>1, RoundKeepsLoop, LoopIsKept DEF Moves, Changes
    <2> QED  BY <1>5, <2>1 DEF Done, Return, Moves
<1>6. CASE Doall(op, a)
    BY <1>3, <1>6 DEF Doall, GoRound, Moves, Changes
<1>7. CASE Restart(op, a) \/ WalkAway(op) \/ Answer(op)
    <2>1. \/ stack' = <<>> \/ stack' = WithTop(Here)
          \/ \E b : stack' = WithTop([Here EXCEPT !.running = b])
        BY <1>7 DEF Restart, WalkAway, Answer, Finish, NewGame
    <2> QED  BY <1>2, <2>1, LoopIsKept DEF Moves, Changes
<1>8. CASE ParseLiteral(op, a) \/ ParseLine(op, a) \/ ParseExpired(op, a) \/ ParseEnd(op, a)
    <2>1. \/ stack' = WithTop(Here) \/ \E b : stack' = WithTop([Here EXCEPT !.running = b])
        BY <1>8 DEF ParseLiteral, ParseLine, ParseExpired, ParseEnd, Reads
    <2> QED  BY <1>2, <2>1, LoopIsKept DEF Moves, Changes
<1>9. CASE DataCondact(op, a) \/ Wait(op) \/ Broken(op)
    <2>1. \/ stack' = WithTop(Here) \/ \E b : stack' = WithTop([Here EXCEPT !.running = b])
        BY <1>9 DEF DataCondact, Wait, Broken
    <2> QED  BY <1>2, <2>1, LoopIsKept DEF Moves, Changes
<1>10. CASE Jump(op, a)
    <2>1. \E n, c, b : stack' = WithTop([Here EXCEPT !.entry = n, !.condact = c, !.running = b])
        BY <1>10 DEF Jump
    <2>2. PICK n, c, b : stack' = WithTop([Here EXCEPT !.entry = n, !.condact = c,
                                                       !.running = b])
        BY <2>1
    <2> DEFINE f == [Here EXCEPT !.entry = n, !.condact = c, !.running = b]
    <2>3. stack' = WithTop(f) /\ f.doallCondact = Top.doallCondact
        BY <1>2, <2>2, LoopIsKept
    <2> HIDE DEF f
    <2> QED  BY <2>3 DEF Moves, Changes
<1> QED  BY <1>1, <1>4, <1>5, <1>6, <1>7, <1>8, <1>9, <1>10

\* And so does any other step but a turn's first.
LEMMA StepMoves ==
    ASSUME IInv, Next, ~BeginTurn
    PROVE  /\ Moves \/ stack' = stack
           /\ stack = <<>> => stack' = <<>>
           /\ status # "between" /\ (status' = "turn" => status = "turn")
<1>1. FindEntry \/ Exec \/ LeaveEntry \/ Crash \/ EndTurn \/ Terminated
    BY DEF Next
<1>2. status # "between" /\ (status' = "turn" => status = "turn")
    BY <1>1 DEF FindEntry, Exec, Executing, LeaveEntry, Crash, EndTurn, TurnEnds, InTurn,
       Terminated, vars, loop, Again
<1>3. stack = <<>> => stack' = <<>>
    BY <1>1 DEF FindEntry, Exec, Executing, LeaveEntry, Crash, EndTurn, TurnEnds, InTurn,
       Terminated, vars
<1> SUFFICES Moves \/ stack' = stack
    BY <1>2, <1>3
<1>4. CASE Exec
    BY <1>4, StackMoves DEF Exec
<1>5. CASE FindEntry
    <2>1. stack # <<>> /\ Top \in FrameType
        BY <1>5, TopOK DEF FindEntry, InTurn, FrameOK
    <2>2. CASE GoRound(Top, Remaining(Top, NextObject))
        <3>1. \E g : stack' = WithTop(g) /\ g.doallCondact = Top.doallCondact
            BY <2>1, <2>2, RoundKeepsLoop
        <3> QED  BY <3>1 DEF Moves, Changes
    <2>3. CASE \E n, c, b : stack' = WithTop([Top EXCEPT !.entry = n, !.condact = c,
                                                         !.running = b])
        <3>1. PICK n, c, b : stack' = WithTop([Top EXCEPT !.entry = n, !.condact = c,
                                                          !.running = b])
            BY <2>3
        <3> DEFINE f == [Top EXCEPT !.entry = n, !.condact = c, !.running = b]
        <3>2. stack' = WithTop(f) /\ f.doallCondact = Top.doallCondact
            BY <2>1, <3>1, LoopIsKept
        <3> HIDE DEF f
        <3> QED  BY <3>2 DEF Moves, Changes
    <2>4. CASE stack' = Below
        BY <2>4 DEF Moves
    <2> QED  BY <1>5, <2>2, <2>3, <2>4 DEF FindEntry
<1>6. CASE LeaveEntry
    <2>1. stack # <<>> /\ \E b : stack' = WithTop([Top EXCEPT !.running = b])
        BY <1>6 DEF LeaveEntry, InTurn
    <2> QED  BY <2>1, LoopIsKept DEF Moves, Changes
<1>7. CASE Crash \/ EndTurn \/ Terminated
    BY <1>7 DEF Crash, EndTurn, Terminated, vars
<1> QED  BY <1>1, <1>4, <1>5, <1>6, <1>7

\* What the records say of frame i after such a step: of a new frame, nothing; of the one on
\* top that stays there, what it did; of any other, what they said, but that a frame returned
\* to has done what the one it called did.
NewFrame(i) ==
    /\ i = Len(stack) + 1 /\ i = Len(stack')
    /\ Follow[i] = Untold /\ done' = FALSE
    /\ stack'[i].doallCondact < 0

TopStays(i) ==
    /\ i = Len(stack) /\ i = Len(stack')
    /\ Follow[i] = Following(told[i])
    /\ stack'[i].doallCondact = stack[i].doallCondact \/ Begins

Waits(i) ==
    /\ i \in DOMAIN stack /\ (i # Len(stack) \/ i # Len(stack'))
    /\ Follow[i].stayed = told[i].stayed /\ Follow[i].taken = told[i].taken
    /\ stack'[i].doallCondact = stack[i].doallCondact
    /\ i = Len(stack') => Follow[i].acted = (told[i].acted \/ told[Len(told)].acted \/ Acts)

LEMMA FollowingType ==
    ASSUME AllFlags, IInv, IInv', NEW t \in TellType
    PROVE  Following(t) \in TellType
<1>1. Remaining(LoopFrom(Operands[1]), 0) \in SUBSET Nat
    BY RemainingType DEF IInv, TypeOK, WorldTypeOK
<1>2. flags'[FlagDoallObj] \in Nat
    <2>1. flags' \in [FlagNo -> Byte]
        BY DEF IInv, TypeOK, WorldTypeOK
    <2>2. FlagDoallObj \in FlagNo
        BY DEF AllFlags, FlagDoallObj, Byte
    <2> QED  BY <2>1, <2>2 DEF Byte
<1>3. ASSUME NEW S \in SUBSET Nat, NEW n \in Nat
      PROVE  {n} \in SUBSET Nat /\ S \cup {n} \in SUBSET Nat
    OBVIOUS
<1> DEFINE u == Following(t)
<1>4. u = [acted |-> u.acted, stayed |-> u.stayed, taken |-> u.taken]
    BY Zenon DEF Following
<1>5. u.acted \in BOOLEAN
    BY Zenon DEF Following
<1>6. u.stayed \in SUBSET Nat /\ u.taken \in SUBSET Nat
    BY <1>1, <1>2, <1>3 DEF Following, TellType
<1> HIDE DEF u
<1>7. u \in TellType
    BY <1>4, <1>5, <1>6 DEF TellType
<1> QED  BY <1>7 DEF u

LEMMA UntoldType ==
    Untold \in TellType /\ ~Untold.acted /\ Untold.stayed = {} /\ Untold.taken = {}
BY DEF Untold, TellType

\* The records follow the frames.
LEMMA FollowFacts ==
    ASSUME AllFlags, HistoryInv, IInv', Next, ~BeginTurn
    PROVE  /\ Follow \in Seq(TellType) /\ Len(Follow) = Len(stack')
           /\ \A i \in DOMAIN stack' : NewFrame(i) \/ TopStays(i) \/ Waits(i)
<1> DEFINE n == Len(stack)
           top == told[n]
           rest == SubSeq(told, 1, n - 1)
<1>1. /\ stack \in Seq(FrameType) /\ n \in Nat
      /\ told \in Seq(TellType) /\ Len(told) = n
    BY DEF HistoryInv, HistoryOK, IInv, TypeOK
<1>2. IInv /\ status # "between" /\ (Moves \/ stack' = stack) /\ (stack = <<>> => stack' = <<>>)
    BY StepMoves DEF HistoryInv
<1>3. CASE stack' = <<>>
    <2>1. Follow = <<>>
        BY <1>3 DEF Follow
    <2> QED  BY <1>3, <2>1
<1>4. CASE stack' # <<>>
    <2>1. stack # <<>> /\ n >= 1 /\ Top = stack[n] /\ Top \in FrameType
        BY <1>1, <1>2, <1>4, TopOK DEF Top, FrameOK
    <2>2. top \in TellType
        BY <1>1, <2>1
    <2>3. /\ rest \in Seq(TellType) /\ Len(rest) = n - 1
          /\ \A i \in 1..(n - 1) : rest[i] = told[i]
        <3>1. \A i \in 1..(n - 1) : told[i] \in TellType
            BY <1>1
        <3>2. /\ rest \in Seq(TellType)
              /\ Len(rest) = IF 1 <= n - 1 THEN n - 1 - 1 + 1 ELSE 0
            BY <1>1, <2>1, <3>1, SubSeqProperties
        <3>3. \A i \in 1..(n - 1) : rest[i] = told[i]
            BY <1>1
        <3> QED  BY <1>1, <2>1, <3>2, <3>3
    <2>4. /\ Len(Below) = n - 1
          /\ \A i \in 1..(n - 1) : Below[i] = stack[i]
        BY <1>1, <2>1, BelowFacts
    <2>5. CASE Deepens
        <3>1. PICK f, g : /\ stack' = Append(WithTop(f), g) /\ done' = FALSE
                          /\ f.doallCondact = Top.doallCondact /\ g.doallCondact < 0
            BY <2>5 DEF Deepens
        <3>2. PICK S : WithTop(f) \in Seq(S)
            BY <1>1, <2>1, AnyTop
        <3>3. /\ Len(WithTop(f)) = n /\ WithTop(f)[n] = f
              /\ \A i \in 1..(n - 1) : WithTop(f)[i] = stack[i]
            BY <1>1, <2>1, AnyTop
        <3> DEFINE W == WithTop(f)
                   R == S \cup {g}
        <3>4. W \in Seq(R) /\ g \in R
            BY <3>2
        <3> HIDE DEF R
        <3>5. /\ Len(Append(W, g)) = Len(W) + 1 /\ Append(W, g)[Len(W) + 1] = g
              /\ \A i \in 1..Len(W) : Append(W, g)[i] = W[i]
            BY <3>4, AppendProperties
        <3>6. /\ Len(stack') = n + 1 /\ stack'[n + 1] = g /\ stack'[n] = f
              /\ \A i \in 1..(n - 1) : stack'[i] = stack[i]
            BY <1>1, <2>1, <3>1, <3>3, <3>5
        <3>7. Follow = Append(told, Untold)
            BY <1>1, <1>2, <1>4, <3>6 DEF Follow
        <3>8. /\ Append(told, Untold) \in Seq(TellType)
              /\ Len(Append(told, Untold)) = n + 1
              /\ Append(told, Untold)[n + 1] = Untold
              /\ \A i \in 1..n : Append(told, Untold)[i] = told[i]
            BY <1>1, UntoldType, AppendProperties
        <3>9. NewFrame(n + 1)
            BY <1>1, <3>1, <3>6, <3>7, <3>8 DEF NewFrame
        <3>10. \A i \in 1..n : Waits(i)
            BY <1>1, <2>1, <3>1, <3>6, <3>7, <3>8 DEF Waits
        <3>11. \A i \in DOMAIN stack' : i = n + 1 \/ i \in 1..n
            BY <1>1, <3>6, IInv' DEF IInv, TypeOK
        <3> QED  BY <3>6, <3>7, <3>8, <3>9, <3>10, <3>11
    <2>6. CASE stack' = Below
        <3> DEFINE m == n - 1
                   b == rest[m].acted \/ top.acted \/ Acts
                   u == [rest[m] EXCEPT !.acted = b]
        <3>1. Len(stack') = m /\ m \in 1..m /\ m \in Nat
            BY <1>1, <1>4, <2>1, <2>4, <2>6
        <3>2. Follow = [rest EXCEPT ![m] = u]
            BY <1>1, <1>2, <1>4, <2>1, <2>3, <3>1 DEF Follow
        <3>3. b \in BOOLEAN
            OBVIOUS
        <3> HIDE DEF b, rest, top
        <3>4. rest[m] \in TellType /\ rest[m] = told[m]
            BY <2>3, <3>1
        <3>5. /\ u \in TellType /\ u.acted = b
              /\ u.stayed = told[m].stayed /\ u.taken = told[m].taken
            BY <3>3, <3>4 DEF TellType
        <3> HIDE DEF u, m
        <3>6. /\ Follow \in Seq(TellType) /\ Len(Follow) = m /\ Follow[m] = u
              /\ \A i \in 1..(m - 1) : Follow[i] = rest[i]
            <4>1. Len(rest) = m
                BY <2>3 DEF m
            <4> QED  BY <2>3, <3>1, <3>2, <3>5, <4>1
        <3>7. \A i \in 1..m : stack'[i] = stack[i] /\ i \in DOMAIN stack /\ i # Len(stack)
            BY <1>1, <2>4, <2>6 DEF m
        <3>8. Waits(m)
            <4>1. b = (told[m].acted \/ told[Len(told)].acted \/ Acts)
                BY <1>1, <3>4 DEF b, top
            <4> QED  BY <3>1, <3>5, <3>6, <3>7, <4>1 DEF Waits
        <3>9. ASSUME NEW i \in 1..(m - 1)
              PROVE  Waits(i)
            <4>1. i \in 1..m /\ i \in 1..(n - 1) /\ i # Len(stack')
                BY <3>1 DEF m
            <4>2. Follow[i] = told[i]
                BY <2>3, <3>6, <4>1
            <4> QED  BY <3>7, <4>1, <4>2 DEF Waits
        <3>10. \A i \in DOMAIN stack' : i = m \/ i \in 1..(m - 1)
            BY <3>1, IInv' DEF IInv, TypeOK
        <3> QED  BY <3>1, <3>6, <3>8, <3>9, <3>10
    <2>7. CASE stack' = stack \/ Changes
        <3> DEFINE u == Following(top)
        <3>1. /\ Len(stack') = n
              /\ \A i \in 1..(n - 1) : stack'[i] = stack[i]
              /\ stack'[n].doallCondact = stack[n].doallCondact \/ Running("DOALL")
            <4>1. CASE stack' = stack
                BY <4>1
            <4>2. CASE Changes
                <5>1. PICK f : /\ stack' = WithTop(f)
                               /\ f.doallCondact = Top.doallCondact \/ Running("DOALL")
                    BY <4>2 DEF Changes
                <5> QED  BY <1>1, <2>1, <5>1, AnyTop
            <4> QED  BY <2>7, <4>1, <4>2
        <3>2. Follow = Append(rest, u)
            BY <1>1, <1>2, <1>4, <3>1 DEF Follow
        <3>3. u \in TellType
            BY <1>2, <2>2, FollowingType
        <3> HIDE DEF u
        <3>4. /\ Append(rest, u) \in Seq(TellType)
              /\ Len(Append(rest, u)) = Len(rest) + 1
              /\ Append(rest, u)[Len(rest) + 1] = u
              /\ \A i \in 1..Len(rest) : Append(rest, u)[i] = rest[i]
            BY <2>3, <3>3, AppendProperties
        <3>5. /\ Follow \in Seq(TellType) /\ Len(Follow) = n /\ Follow[n] = u
              /\ \A i \in 1..(n - 1) : Follow[i] = told[i]
            BY <1>1, <2>1, <2>3, <3>2, <3>4
        <3>6. TopStays(n)
            BY <1>1, <3>1, <3>5 DEF TopStays, Begins, u
        <3>7. \A i \in 1..(n - 1) : Waits(i)
            BY <1>1, <3>1, <3>5 DEF Waits
        <3>8. \A i \in DOMAIN stack' : i = n \/ i \in 1..(n - 1)
            BY <1>1, <3>1, IInv' DEF IInv, TypeOK
        <3> QED  BY <3>1, <3>5, <3>6, <3>7, <3>8
    <2> QED  BY <1>2, <1>4, <2>5, <2>6, <2>7 DEF Moves
<1> QED  BY <1>3, <1>4

\* Forgetting what left the loops' places changes nothing else of them.
LEMMA StillFacts ==
    ASSUME NEW records \in Seq(TellType), told' = Still(records)
    PROVE  /\ told' \in Seq(TellType) /\ Len(told') = Len(records)
           /\ \A i \in 1..Len(records) :
                 /\ told'[i].acted = records[i].acted /\ told'[i].taken = records[i].taken
                 /\ told'[i].stayed \subseteq records[i].stayed
                 /\ told'[i].stayed \subseteq Remaining(stack[i], 0)'
<1> DEFINE R(i) == Remaining(stack[i], 0)'
           u(i) == [records[i] EXCEPT !.stayed = @ \cap R(i)]
<1>1. Len(records) \in Nat /\ DOMAIN records = 1..Len(records)
    OBVIOUS
<1>2. told' = [i \in 1..Len(records) |-> u(i)]
    BY <1>1 DEF Still
<1>3. ASSUME NEW t \in TellType, NEW S
      PROVE  /\ [t EXCEPT !.stayed = t.stayed \cap S] \in TellType
             /\ [t EXCEPT !.stayed = t.stayed \cap S].acted = t.acted
             /\ [t EXCEPT !.stayed = t.stayed \cap S].taken = t.taken
             /\ [t EXCEPT !.stayed = t.stayed \cap S].stayed = t.stayed \cap S
    BY DEF TellType
<1>4. ASSUME NEW i \in 1..Len(records)
      PROVE  /\ u(i) \in TellType /\ u(i).acted = records[i].acted
             /\ u(i).taken = records[i].taken /\ u(i).stayed = records[i].stayed \cap R(i)
    <2>1. records[i] \in TellType
        OBVIOUS
    <2> HIDE DEF R
    <2> QED  BY <1>3, <2>1
<1> HIDE DEF R, u
<1>5. told' \in Seq(TellType) /\ Len(told') = Len(records)
    BY <1>1, <1>2, <1>4
<1>6. ASSUME NEW i \in 1..Len(records)
      PROVE  /\ told'[i].acted = records[i].acted /\ told'[i].taken = records[i].taken
             /\ told'[i].stayed \subseteq records[i].stayed
             /\ told'[i].stayed \subseteq Remaining(stack[i], 0)'
    <2>1. told'[i] = u(i)
        BY <1>2
    <2>2. told'[i].stayed = records[i].stayed \cap R(i)
        BY <1>4, <2>1
    <2>3. told'[i].acted = records[i].acted /\ told'[i].taken = records[i].taken
        BY <1>4, <2>1
    <2> QED  BY <2>2, <2>3 DEF R
<1> QED  BY <1>5, <1>6

\* The first step of a turn leaves one frame, which has done nothing.
LEMMA TurnIsNew ==
    ASSUME BeginTurn, told' = Still(Follow)
    PROVE  /\ HistoryOK'
           /\ \A i \in DOMAIN stack' : ~LoopsOn(stack'[i])
<1>1. stack' = <<Frame(0)>> /\ status = "between" /\ done' = FALSE
    BY DEF BeginTurn
<1>2. Follow = <<Untold>>
    BY <1>1 DEF Follow
<1>3. <<Untold>> \in Seq(TellType) /\ Len(<<Untold>>) = 1
    BY UntoldType
<1>4. /\ told' \in Seq(TellType) /\ Len(told') = 1
      /\ \A i \in 1..1 : told'[i].stayed \subseteq Remaining(stack[i], 0)'
    BY <1>2, <1>3, StillFacts
<1>5. Len(stack') = 1
    BY <1>1
<1>6. DoneIsTheProcessesOwn'
    BY <1>1 DEF DoneIsTheProcessesOwn
<1>7. \A i \in DOMAIN told' : i \in 1..1
    BY <1>4
<1>8. \A i \in DOMAIN stack' : ~LoopsOn(stack'[i])
    BY <1>1 DEF Frame, LoopsOn
<1> QED  BY <1>4, <1>5, <1>6, <1>7, <1>8 DEF HistoryOK

LEMMA HistoryStep ==
    ASSUME AllFlags, HistoryInv, [HNext]_<<vars, history>>
    PROVE  HistoryInv'
<1>1. IInv'
    BY NextOK DEF HistoryInv, HNext, vars
<1>2. CASE UNCHANGED <<vars, history>>
    <2>1. UNCHANGED <<db, flags, loc, stack, status, done, told>>
        BY <1>2 DEF vars, history, world, loop
    <2>2. \A i \in DOMAIN told' : told'[i].stayed \subseteq Remaining(stack[i], 0)'
        BY <2>1 DEF HistoryInv, HistoryOK, Remaining, Place, Resolved, Objects, Data
    <2> QED  BY <1>1, <2>1, <2>2 DEF HistoryInv, HistoryOK, DoneIsTheProcessesOwn
<1>3. CASE HNext /\ BeginTurn
    BY <1>1, <1>3, TurnIsNew DEF HNext, HistoryInv
<1>4. CASE HNext /\ ~BeginTurn
    <2>1. /\ Next /\ told' = Still(Follow)
        BY <1>4 DEF HNext
    <2>2. /\ Follow \in Seq(TellType) /\ Len(Follow) = Len(stack')
          /\ \A i \in DOMAIN stack' : NewFrame(i) \/ TopStays(i) \/ Waits(i)
        BY <1>1, <1>4, <2>1, FollowFacts
    <2>3. /\ told' \in Seq(TellType) /\ Len(told') = Len(stack')
          /\ \A i \in 1..Len(stack') : /\ told'[i].acted = Follow[i].acted
                                       /\ told'[i].stayed \subseteq Remaining(stack[i], 0)'
        BY <2>1, <2>2, StillFacts
    <2>4. DoneIsTheProcessesOwn'
        <3>1. SUFFICES ASSUME status' = "turn", done', stack' # <<>>
                       PROVE  told'[Len(told')].acted
            BY DEF DoneIsTheProcessesOwn
        <3> DEFINE n == Len(stack')
        <3>2. stack' \in Seq(FrameType) /\ n \in DOMAIN stack' /\ n \in 1..n
            BY <1>1, <3>1 DEF IInv, TypeOK
        <3>3. status = "turn" /\ stack # <<>>
            BY <1>4, <2>1, <3>1, StepMoves DEF HistoryInv
        <3>4. (done => told[Len(told)].acted) /\ Len(told) = Len(stack)
            BY <3>3 DEF HistoryInv, HistoryOK, DoneIsTheProcessesOwn
        <3>5. CASE NewFrame(n)
            BY <3>1, <3>5 DEF NewFrame
        <3>6. CASE TopStays(n)
            <4>1. Following(told[n]).acted = (told[n].acted \/ Acts)
                BY Zenon DEF Following
            <4>2. n = Len(told) /\ Follow[n] = Following(told[n])
                BY <3>4, <3>6 DEF TopStays
            <4> QED  BY <2>3, <3>1, <3>2, <3>4, <4>1, <4>2 DEF Acts
        <3>7. CASE Waits(n)
            BY <2>3, <3>1, <3>2, <3>4, <3>7 DEF Waits, Acts
        <3> QED  BY <2>2, <3>2, <3>5, <3>6, <3>7
    <2>5. \A i \in DOMAIN told' : i \in 1..Len(stack')
        BY <2>3
    <2> QED  BY <1>1, <2>3, <2>4, <2>5 DEF HistoryInv, HistoryOK
<1> QED  BY <1>2, <1>3, <1>4

LEMMA HistoryInit ==
    ASSUME AllFlags, HInit
    PROVE  HistoryInv
<1>1. IInv
    BY InitOK DEF HInit
<1>2. told = <<>> /\ stack = <<>> /\ status = "between"
    BY DEF HInit, Init
<1>3. told \in Seq(TellType) /\ Len(told) = Len(stack) /\ DOMAIN told = {}
    BY <1>2
<1> QED  BY <1>1, <1>2, <1>3 DEF HistoryInv, HistoryOK, DoneIsTheProcessesOwn

\* Whatever the adventure, what ISDONE answers about is what the process that has just run
\* did, or one it called: a call forgets what its caller had done (push, vm.go:404).
THEOREM DoneIsNeverLeftOver ==
    ASSUME AllFlags
    PROVE  HSpec => []DoneIsTheProcessesOwn
<1>1. HInit => HistoryInv
    BY HistoryInit
<1>2. HistoryInv /\ [HNext]_<<vars, history>> => HistoryInv'
    BY HistoryStep
<1>3. HistoryInv => DoneIsTheProcessesOwn
    BY DEF HistoryInv, HistoryOK
<1> QED  BY <1>1, <1>2, <1>3, PTL DEF HSpec

-----------------------------------------------------------------------------
\* DOALL's promise.

\* Going round is coming to the first of what remains.
LEMMA RoundTakesFirst ==
    ASSUME AllFlags, IInv, NEW f, NEW S, GoRound(f, S)
    PROVE  flags'[FlagDoallObj] = First(S)
<1>1. /\ flags \in [FlagNo -> Byte]
      /\ FlagDoallObj \in FlagNo /\ FlagDoallObj # FlagNoun1 /\ FlagDoallObj # FlagAdject1
    <2>1. flags \in [FlagNo -> Byte]
        BY DEF IInv, TypeOK, WorldTypeOK
    <2>2. FlagDoallObj \in FlagNo
        BY DEF AllFlags, FlagDoallObj, Byte
    <2>3. FlagDoallObj # FlagNoun1 /\ FlagDoallObj # FlagAdject1
        BY DEF FlagDoallObj, FlagNoun1, FlagAdject1
    <2> QED  BY <2>1, <2>2, <2>3
<1>2. ASSUME NEW x, NEW y, NEW z
      PROVE  [flags EXCEPT ![FlagDoallObj] = x, ![FlagNoun1] = y, ![FlagAdject1] = z]
                [FlagDoallObj] = x
    BY <1>1
<1> QED  BY <1>2 DEF GoRound

\* A stack that is as deep as it was has not been popped.
LEMMA NotPopped ==
    ASSUME IInv, stack # <<>>, Len(stack') = Len(stack)
    PROVE  stack' # Below
<1>1. stack \in Seq(FrameType)
    BY DEF IInv, TypeOK
<1>2. Len(Below) = Len(stack) - 1 /\ Len(stack) \in Nat
    BY <1>1, BelowFacts
<1> QED  BY <1>2

\* DONE and DOALL change no data of their own.
LEMMA ControlIsNoData ==
    ASSUME NEW op \in {"DONE", "DOALL"}, NEW a
    PROVE  ~DataCondact(op, a)
<1>1. ~Test(op, a) /\ ~Chance(op, a) /\ ~SetAt(op, a) /\ ~MovePlayer(op, a)
    BY DEF Test, Conditions, Chance, SetAt, MovePlayer
<1>2. ~ChangeFlag(op, a)
    BY DEF ChangeFlag
<1>3. ~Configure(op, a) /\ ~Refer(op, a)
    BY DEF Configure, Refer
<1>4. ~Handle(op, a)
    BY DEF Handle
<1>5. ~Move(op, a)
    BY DEF Move
<1>6. ~Say(op, a) /\ ~Picture(op, a) /\ ~Nothing(op)
    BY DEF Say, Picture, Nothing, Unused
<1> QED  BY <1>1, <1>2, <1>3, <1>4, <1>5, <1>6 DEF DataCondact, Do

\* A loop begins with the first of what is in its place.
LEMMA BeginsFirst ==
    ASSUME AllFlags, IInv, Next, Begins
    PROVE  /\ Remaining(LoopFrom(Operands[1]), 0) # {}
           /\ flags'[FlagDoallObj] = First(Remaining(LoopFrom(Operands[1]), 0))
<1>1. Executing /\ Current.op = "DOALL" /\ Len(stack') = Len(stack)
    BY DEF Begins, Running
<1>2. stack # <<>> /\ stack' # Below
    BY <1>1, NotPopped DEF Executing, InTurn
<1>3. Exec
    BY <1>1 DEF Next, BeginTurn, FindEntry, LeaveEntry, Crash, EndTurn, TurnEnds, Executing,
       InTurn, Terminated
<1>4. Doall("DOALL", Operands)
    <2>1. ~DataCondact("DOALL", Operands)
        BY ControlIsNoData
    <2> QED
        BY <1>1, <1>3, <2>1 DEF Exec, Done, Return, Call, Jump, Restart, WalkAway, Answer,
           ParseLiteral, ParseLine, ParseExpired, ParseEnd, Wait, Broken, NotImplemented
<1>5. /\ Remaining(LoopFrom(Operands[1]), 0) # {}
      /\ GoRound(LoopFrom(Operands[1]), Remaining(LoopFrom(Operands[1]), 0))
    BY <1>2, <1>4 DEF Doall
<1> QED  BY <1>5, RoundTakesFirst

\* And goes round with the first of what is left.
LEMMA RoundsFirst ==
    ASSUME AllFlags, IInv, Next, Rounds
    PROVE  /\ Remaining(Top, NextObject) # {}
           /\ flags'[FlagDoallObj] = First(Remaining(Top, NextObject))
<1>1. /\ InTurn /\ status' = "turn" /\ stack # <<>> /\ stack' # Below
      /\ Running("DONE") \/ (~Top.running /\ Answering = {})
    BY NotPopped DEF Rounds, InTurn
<1>2. CASE Running("DONE")
    <2>1. Executing /\ Current.op = "DONE"
        BY <1>2 DEF Running
    <2>2. Exec
        BY <2>1 DEF Next, BeginTurn, FindEntry, LeaveEntry, Crash, EndTurn, TurnEnds,
           Executing, InTurn, Terminated
    <2>3. Done("DONE")
        <3>1. ~DataCondact("DONE", Operands)
            BY ControlIsNoData
        <3> QED
            BY <2>1, <2>2, <3>1 DEF Exec, Return, Call, Jump, Doall, Restart, WalkAway,
               Answer, ParseLiteral, ParseLine, ParseExpired, ParseEnd, Wait, Broken,
               NotImplemented
    <2>4. Looping(Here) /\ GoRound(Here, Remaining(Here, NextObject))
        BY <1>1, <2>3 DEF Done
    <2>5. Remaining(Here, NextObject) = Remaining(Top, NextObject)
        BY <1>1, LoopIsKept DEF Remaining, Place
    <2> QED  BY <2>4, <2>5, RoundTakesFirst DEF Looping
<1>3. CASE ~Top.running /\ Answering = {}
    <2>1. FindEntry
        BY <1>1, <1>3 DEF Next, BeginTurn, Exec, LeaveEntry, Crash, EndTurn, TurnEnds,
           Executing, InTurn, Terminated
    <2>2. Looping(Top) /\ GoRound(Top, Remaining(Top, NextObject))
        BY <1>1, <1>3, <2>1 DEF FindEntry
    <2> QED  BY <2>2, RoundTakesFirst DEF Looping
<1> QED  BY <1>1, <1>2, <1>3

\* And ends when none is.
LEMMA EndsEmpty ==
    ASSUME AllFlags, IInv, Next, LoopEnds
    PROVE  Remaining(Top, NextObject) = {}
<1>1. /\ InTurn /\ stack # <<>> /\ stack \in Seq(FrameType) /\ Top.doallCondact >= 0
      /\ Len(stack') < Len(stack)
    BY DEF LoopEnds, InTurn, LoopsOn, IInv, TypeOK
<1>2. \A f : stack' # WithTop(f)
    BY <1>1, AnyTop
<1>3. CASE Executing /\ Current.op = "DONE"
    <2>1. Exec
        BY <1>3 DEF Next, BeginTurn, FindEntry, LeaveEntry, Crash, EndTurn, TurnEnds,
           Executing, InTurn, Terminated
    <2>2. Done("DONE")
        <3>1. ~DataCondact("DONE", Operands)
            BY ControlIsNoData
        <3> QED
            BY <1>3, <2>1, <3>1 DEF Exec, Return, Call, Jump, Doall, Restart, WalkAway,
               Answer, ParseLiteral, ParseLine, ParseExpired, ParseEnd, Wait, Broken,
               NotImplemented
    <2>3. ~Looping(Here)
        BY <1>2, <2>2 DEF Done, GoRound
    <2>4. Here.doallCondact = Top.doallCondact /\ Here.doallWhere = Top.doallWhere
        BY <1>1, LoopIsKept
    <2>5. Remaining(Here, NextObject) = Remaining(Top, NextObject)
        BY <2>4 DEF Remaining, Place
    <2> QED  BY <1>1, <2>3, <2>4, <2>5 DEF Looping
<1>4. CASE ~Executing
    <2>1. stack' # stack
        BY <1>1
    <2>2. FindEntry
        BY <1>1, <1>2, <1>4, <2>1 DEF Next, BeginTurn, Exec, LeaveEntry, Crash, EndTurn,
           TurnEnds, InTurn, Terminated
    <2>3. ~Looping(Top)
        BY <1>2, <2>2 DEF FindEntry, GoRound
    <2> QED  BY <1>1, <2>3 DEF Looping
<1> QED  BY <1>3, <1>4 DEF LoopEnds

\* A loop has come to no object past the one it is on, and to every object up to it that was
\* in its place all the while.  The flag it counts in is no NoWord: one more is no wrap.
LoopOK(i) ==
    /\ flags[FlagDoallObj] < NoWord
    /\ \A o \in told[i].taken : o <= flags[FlagDoallObj]
    /\ \A o \in told[i].stayed : o <= flags[FlagDoallObj] => o \in told[i].taken

LoopInv == HistoryInv /\ \A i \in DOMAIN stack : LoopsOn(stack[i]) => LoopOK(i)

\* The objects' numbers stop short of the null word.
LEMMA ObjectsEnd ==
    ASSUME db \in Databases
    PROVE  \A o \in Objects : o \in Nat /\ o < NoWord
<1>1. PICK n \in Byte : db.objects \in [0..(n - 1) -> ObjectData]
    BY WorldAssumption DEF WellFormed
<1>2. Objects = 0..(n - 1)
    BY <1>1 DEF Objects
<1> QED  BY <1>1, <1>2 DEF Byte, NoWord

\* The first of what remains from an object on is such an object, and the least.
LEMMA FirstRemaining ==
    ASSUME db \in Databases, NEW f, NEW n, Remaining(f, n) # {}
    PROVE  LET o == First(Remaining(f, n))
           IN  /\ o \in Remaining(f, n) /\ n <= o /\ o \in Nat /\ o < NoWord
               /\ \A p \in Remaining(f, n) : o <= p
<1>1. Remaining(f, n) \in SUBSET Nat /\ Remaining(f, n) \subseteq Objects
    BY RemainingType
<1>2. /\ First(Remaining(f, n)) \in Remaining(f, n)
      /\ \A p \in Remaining(f, n) : First(Remaining(f, n)) <= p
    BY <1>1, FirstIsLeast
<1>3. \A o \in Remaining(f, n) : n <= o
    BY DEF Remaining
<1> QED  BY <1>1, <1>2, <1>3, ObjectsEnd

\* A step of the machine keeps the loops right, when they count alone.
LEMMA LoopStep ==
    ASSUME AllFlags, LoopInv, Next, ~BeginTurn, told' = Still(Follow), CountAlone, HistoryInv'
    PROVE  LoopInv'
<1> SUFFICES ASSUME NEW i \in DOMAIN stack', LoopsOn(stack'[i])
             PROVE  LoopOK(i)'
    BY DEF LoopInv
<1>1. /\ IInv /\ db \in Databases /\ IInv'
      /\ stack' \in Seq(FrameType) /\ i \in 1..Len(stack')
    BY DEF LoopInv, HistoryInv, IInv, TypeOK, WorldTypeOK
<1>2. /\ Follow \in Seq(TellType) /\ Len(Follow) = Len(stack')
      /\ NewFrame(i) \/ TopStays(i) \/ Waits(i)
    BY <1>1, FollowFacts DEF LoopInv
<1>3. told'[i].taken = Follow[i].taken /\ told'[i].stayed \subseteq Follow[i].stayed
    BY <1>1, <1>2, StillFacts
<1>4. ASSUME i \in DOMAIN stack, LoopsOn(stack[i]), ~GoesOn(i),
             Follow[i].taken = told[i].taken, Follow[i].stayed = told[i].stayed
      PROVE  LoopOK(i)'
    <2>1. flags'[FlagDoallObj] = flags[FlagDoallObj]
        BY <1>4 DEF CountAlone
    <2>2. LoopOK(i)
        BY <1>4 DEF LoopInv
    <2> QED  BY <1>3, <1>4, <2>1, <2>2 DEF LoopOK
<1>5. CASE NewFrame(i)
    <2>1. stack'[i] \in FrameType
        BY <1>1
    <2>2. stack'[i].doallCondact \in Int
        BY <2>1 DEF FrameType
    <2> QED  BY <1>5, <2>2 DEF NewFrame, LoopsOn
<1>6. CASE Waits(i)
    <2>1. ~GoesOn(i)
        BY <1>6 DEF Waits, GoesOn, Begins, Rounds
    <2> QED  BY <1>4, <1>6, <2>1 DEF Waits, LoopsOn
<1>7. CASE TopStays(i)
    <2> DEFINE now == flags'[FlagDoallObj]
    <2>1. i = Len(stack) /\ Follow[i] = Following(told[i])
        BY <1>7 DEF TopStays
    <2>2. CASE Begins
        <3> DEFINE S == Remaining(LoopFrom(Operands[1]), 0)
        <3>1. S # {} /\ now = First(S)
            BY <1>1, <2>2, BeginsFirst
        <3>2. now \in S /\ now \in Nat /\ now < NoWord /\ \A p \in S : now <= p
            BY <1>1, <3>1, FirstRemaining
        <3>3. Follow[i].taken = {now} /\ Follow[i].stayed = S
            BY <2>1, <2>2 DEF Following
        <3>4. S \in SUBSET Nat
            BY <1>1, RemainingType
        <3> HIDE DEF S, now
        <3>5. \A o \in told'[i].taken : o <= now
            BY <1>3, <3>2, <3>3
        <3>6. ASSUME NEW o \in told'[i].stayed, o <= now
              PROVE  o \in told'[i].taken
            <4>1. o \in S /\ o \in Nat
                BY <1>3, <3>3, <3>4
            <4>2. o = now
                BY <3>2, <3>6, <4>1
            <4> QED  BY <1>3, <3>3, <4>2
        <3> QED  BY <3>2, <3>5, <3>6 DEF LoopOK, now
    <2>3. CASE ~Begins /\ Rounds
        <3> DEFINE S == Remaining(Top, NextObject)
                   was == flags[FlagDoallObj]
        <3>1. /\ stack # <<>> /\ i \in DOMAIN stack /\ Top = stack[i]
              /\ LoopsOn(stack[i]) /\ LoopOK(i)
            <4>1. stack # <<>> /\ stack \in Seq(FrameType) /\ Top.doallCondact >= 0
                BY <1>1, <2>3 DEF Rounds, InTurn, IInv, TypeOK
            <4> QED  BY <2>1, <4>1 DEF Top, LoopsOn, LoopInv
        <3>2. was \in Nat /\ was < 255 /\ NextObject = was + 1
            <4>1. FlagDoallObj \in FlagNo
                BY DEF AllFlags, FlagDoallObj, Byte
            <4>2. was \in Byte
                BY <1>1, <4>1 DEF IInv, TypeOK, WorldTypeOK
            <4>3. was < 255
                BY <3>1 DEF LoopOK, NoWord
            <4> QED  BY <4>2, <4>3 DEF NextObject, Byte
        <3>3. S # {} /\ now = First(S)
            BY <1>1, <2>3, RoundsFirst
        <3>4. now \in S /\ now \in Nat /\ now < NoWord /\ was + 1 <= now /\ \A p \in S : now <= p
            BY <1>1, <3>2, <3>3, FirstRemaining
        <3>5. Follow[i].taken = told[i].taken \cup {now} /\ Follow[i].stayed = told[i].stayed
            BY <2>1, <2>3 DEF Following
        <3>6. told[i].stayed \subseteq Remaining(Top, 0) /\ told[i] \in TellType
            BY <3>1 DEF LoopInv, HistoryInv, HistoryOK
        <3>7. \A o \in Remaining(Top, 0) : was + 1 <= o => o \in S
            BY <3>2 DEF Remaining
        <3>8. /\ \A o \in told[i].taken : o <= was
              /\ \A o \in told[i].stayed : o <= was => o \in told[i].taken
            BY <3>1 DEF LoopOK
        <3>9. told[i].stayed \in SUBSET Nat /\ told[i].taken \in SUBSET Nat
            BY <3>6 DEF TellType
        <3> HIDE DEF S, now, was
        <3>10. \A o \in told'[i].taken : o <= now
            BY <1>3, <3>2, <3>4, <3>5, <3>8, <3>9
        <3>11. ASSUME NEW o \in told'[i].stayed, o <= now
               PROVE  o \in told'[i].taken
            <4>1. o \in told[i].stayed /\ o \in Nat
                BY <1>3, <3>5, <3>9
            <4>2. CASE o <= was
                BY <1>3, <3>5, <3>8, <4>1, <4>2
            <4>3. CASE ~(o <= was)
                <5>1. o \in S
                    BY <3>2, <3>6, <3>7, <4>1, <4>3
                <5>2. o = now
                    BY <3>4, <3>11, <4>1, <5>1
                <5> QED  BY <1>3, <3>5, <5>2
            <4> QED  BY <4>2, <4>3
        <3> QED  BY <3>4, <3>10, <3>11 DEF LoopOK, now
    <2>4. CASE ~Begins /\ ~Rounds
        <3>1. /\ Follow[i].taken = told[i].taken /\ Follow[i].stayed = told[i].stayed
            BY <2>1, <2>4 DEF Following
        <3>2. i \in DOMAIN stack /\ LoopsOn(stack[i]) /\ ~GoesOn(i)
            <4>1. stack \in Seq(FrameType)
                BY <1>1 DEF IInv, TypeOK
            <4> QED  BY <1>1, <1>7, <2>1, <2>4, <4>1 DEF TopStays, LoopsOn, GoesOn
        <3> QED  BY <1>4, <3>1, <3>2
    <2> QED  BY <2>2, <2>3, <2>4
<1> QED  BY <1>2, <1>5, <1>6, <1>7

LEMMA LoopInvKept ==
    ASSUME AllFlags, LoopInv, [HNext]_<<vars, history>>, [CountAlone]_<<vars, history>>
    PROVE  LoopInv'
<1>1. HistoryInv'
    BY HistoryStep DEF LoopInv
<1>2. CASE UNCHANGED <<vars, history>>
    <2>1. UNCHANGED <<flags, stack, told>>
        BY <1>2 DEF vars, history, world
    <2>2. \A i \in DOMAIN stack' : LoopsOn(stack'[i]) => LoopOK(i)'
        BY <2>1 DEF LoopInv, LoopOK
    <2> QED  BY <1>1, <2>1, <2>2 DEF LoopInv, LoopsOn
<1>3. CASE HNext /\ BeginTurn
    <2>1. \A i \in DOMAIN stack' : ~LoopsOn(stack'[i])
        BY <1>3, TurnIsNew DEF HNext
    <2> QED  BY <1>1, <2>1 DEF LoopInv, LoopsOn
<1>4. CASE HNext /\ ~BeginTurn /\ CountAlone
    BY <1>1, <1>4, LoopStep DEF HNext
<1> QED  BY <1>2, <1>3, <1>4

\* The records of the frame on top, when it has a loop.
LEMMA TopLoop ==
    ASSUME LoopInv, InTurn, LoopsOn(Top)
    PROVE  /\ Len(told) = Len(stack) /\ told[Len(told)] \in TellType
           /\ told[Len(told)].stayed \subseteq Remaining(Top, 0)
           /\ LoopOK(Len(told))
           /\ AllFlags => flags[FlagDoallObj] \in Nat /\ NextObject = flags[FlagDoallObj] + 1
<1>1. /\ stack # <<>> /\ stack \in Seq(FrameType) /\ flags \in [FlagNo -> Byte]
    BY DEF InTurn, LoopInv, HistoryInv, IInv, TypeOK, WorldTypeOK
<1>2. told \in Seq(TellType) /\ Len(told) = Len(stack)
    BY DEF LoopInv, HistoryInv, HistoryOK
<1>3. Len(told) \in DOMAIN stack /\ Len(told) \in DOMAIN told /\ Top = stack[Len(told)]
    BY <1>1, <1>2 DEF Top
<1>4. LoopOK(Len(told))
    BY <1>3 DEF LoopInv
<1>5. told[Len(told)] \in TellType /\ told[Len(told)].stayed \subseteq Remaining(Top, 0)
    BY <1>2, <1>3 DEF LoopInv, HistoryInv, HistoryOK
<1>6. ASSUME AllFlags
      PROVE  flags[FlagDoallObj] \in Nat /\ NextObject = flags[FlagDoallObj] + 1
    <2>1. FlagDoallObj \in FlagNo
        BY <1>6 DEF AllFlags, FlagDoallObj, Byte
    <2>2. flags[FlagDoallObj] \in Byte /\ flags[FlagDoallObj] < 255
        BY <1>1, <1>4, <2>1 DEF LoopOK, NoWord
    <2> QED  BY <2>2 DEF NextObject, Byte
<1> QED  BY <1>2, <1>4, <1>5, <1>6

\* Whatever the adventure, while nothing but a loop moves the flag it counts in, a DOALL never
\* comes to the same object twice, whatever moves, appears or is excepted on the way.
THEOREM NoObjectIsTakenTwice ==
    ASSUME AllFlags
    PROVE  HSpec /\ LoopsCountAlone => NoObjectGetsTwo
<1>1. HInit => LoopInv
    <2>1. HInit => stack = <<>>
        BY DEF HInit, Init
    <2> QED  BY <2>1, HistoryInit DEF LoopInv
<1>2. LoopInv /\ [HNext]_<<vars, history>> /\ [CountAlone]_<<vars, history>> => LoopInv'
    BY LoopInvKept
<1>3. LoopInv /\ [HNext]_<<vars, history>>
         => [Rounds => flags'[FlagDoallObj] \notin told[Len(told)].taken]_<<vars, history>>
    <2> SUFFICES ASSUME LoopInv, HNext, Rounds
                 PROVE  flags'[FlagDoallObj] \notin told[Len(told)].taken
        OBVIOUS
    <2> DEFINE now == flags'[FlagDoallObj]
               was == flags[FlagDoallObj]
    <2>1. IInv /\ db \in Databases /\ Next /\ InTurn /\ LoopsOn(Top)
        BY DEF LoopInv, HistoryInv, IInv, TypeOK, WorldTypeOK, HNext, Rounds, LoopsOn
    <2>2. /\ was \in Nat /\ NextObject = was + 1
          /\ \A o \in told[Len(told)].taken : o <= was
        BY <2>1, TopLoop DEF LoopOK
    <2>3. NextObject <= now /\ now \in Nat
        BY <2>1, RoundsFirst, FirstRemaining
    <2> HIDE DEF was, now
    <2>4. now \notin told[Len(told)].taken
        BY <2>2, <2>3
    <2> QED  BY <2>4 DEF now
<1> QED  BY <1>1, <1>2, <1>3, PTL DEF HSpec, LoopsCountAlone, NoObjectGetsTwo

\* And a loop that runs to its end has come to every object that was in its place from the
\* beginning to the end: none is passed over, whatever else comes and goes meanwhile.
THEOREM NoObjectIsPassedOver ==
    ASSUME AllFlags
    PROVE  HSpec /\ LoopsCountAlone => EveryObjectGetsItsTurn
<1>1. HInit => LoopInv
    <2>1. HInit => stack = <<>>
        BY DEF HInit, Init
    <2> QED  BY <2>1, HistoryInit DEF LoopInv
<1>2. LoopInv /\ [HNext]_<<vars, history>> /\ [CountAlone]_<<vars, history>> => LoopInv'
    BY LoopInvKept
<1>3. LoopInv /\ [HNext]_<<vars, history>>
         => [LoopEnds => told[Len(told)].stayed \subseteq told[Len(told)].taken]_<<vars, history>>
    <2> SUFFICES ASSUME LoopInv, HNext, LoopEnds, NEW o \in told[Len(told)].stayed
                 PROVE  o \in told[Len(told)].taken
        OBVIOUS
    <2> DEFINE was == flags[FlagDoallObj]
    <2>1. IInv /\ db \in Databases /\ Next /\ InTurn /\ LoopsOn(Top)
        BY DEF LoopInv, HistoryInv, IInv, TypeOK, WorldTypeOK, HNext, LoopEnds
    <2>2. /\ was \in Nat /\ NextObject = was + 1
          /\ o \in Remaining(Top, 0) /\ o \in Nat
          /\ o <= was => o \in told[Len(told)].taken
        BY <2>1, TopLoop DEF LoopOK, TellType
    <2>3. Remaining(Top, NextObject) = {}
        BY <2>1, EndsEmpty
    <2>4. ~(was + 1 <= o)
        BY <2>2, <2>3 DEF Remaining
    <2> HIDE DEF was
    <2> QED  BY <2>2, <2>4
<1> QED  BY <1>1, <1>2, <1>3, PTL DEF HSpec, LoopsCountAlone, EveryObjectGetsItsTurn

-----------------------------------------------------------------------------
\* The clock's news.

\* The bit says that the clock ran out.
Rang(f) == f[FlagTimeFlags] >= TimedOut

\* The flag of the clock lies apart from those a condact writes unasked.
LEMMA ClockFlagApart ==
    ASSUME AllFlags
    PROVE  /\ FlagTimeFlags \in FlagNo
           /\ FlagTimeFlags \notin {FlagCarried, FlagPlayer, FlagCurObj, FlagCurObjLoc,
                FlagCurObjWei, FlagCurObjCon, FlagCurObjWR, FlagMaxCarried, FlagStrength,
                FlagInStream, FlagTime, FlagDoallObj, FlagNoun1, FlagAdject1, FlagVerb,
                FlagAdverb, FlagPrep, FlagNoun2, FlagAdject2, FlagCPNoun, FlagCPAdject}
<1>1. FlagTimeFlags \in Byte
    BY DEF FlagTimeFlags, Byte
<1>2. FlagTimeFlags \notin {FlagCarried, FlagPlayer, FlagCurObj, FlagCurObjLoc,
        FlagCurObjWei, FlagCurObjCon, FlagCurObjWR, FlagMaxCarried, FlagStrength,
        FlagInStream, FlagTime}
    BY DEF FlagTimeFlags, FlagCarried, FlagPlayer, FlagCurObj, FlagCurObjLoc, FlagCurObjWei,
       FlagCurObjCon, FlagCurObjWR, FlagMaxCarried, FlagStrength, FlagInStream, FlagTime
<1>3. FlagTimeFlags \notin {FlagDoallObj, FlagNoun1, FlagAdject1, FlagVerb, FlagAdverb,
        FlagPrep, FlagNoun2, FlagAdject2, FlagCPNoun, FlagCPAdject}
    BY DEF FlagTimeFlags, FlagDoallObj, FlagNoun1, FlagAdject1, FlagVerb, FlagAdverb,
       FlagPrep, FlagNoun2, FlagAdject2, FlagCPNoun, FlagCPAdject
<1> QED  BY <1>1, <1>2, <1>3 DEF AllFlags

\* Referring to an object, and counting again, leave the clock's flag.
LEMMA NotingKeepsClock ==
    ASSUME AllFlags, NEW f \in [FlagNo -> Byte], NEW o, NEW there
    PROVE  /\ Noted(f, o)[FlagTimeFlags] = f[FlagTimeFlags]
           /\ Recounted(f, there)[FlagTimeFlags] = f[FlagTimeFlags]
           /\ Recounted(Noted(f, o), there)[FlagTimeFlags] = f[FlagTimeFlags]
<1>1. /\ FlagTimeFlags \in FlagNo
      /\ FlagTimeFlags \notin {FlagCurObj, FlagCurObjLoc, FlagCurObjWei, FlagCurObjCon,
                               FlagCurObjWR, FlagCarried}
    BY ClockFlagApart
<1>2. DOMAIN Noted(f, o) = FlagNo /\ Noted(f, o)[FlagTimeFlags] = f[FlagTimeFlags]
    <2> DEFINE container == IF Data(o).container THEN 128 ELSE 0
               wearable == IF Data(o).wearable THEN 128 ELSE 0
    <2>1. \/ Noted(f, o) = [f EXCEPT ![FlagCurObj] = o, ![FlagCurObjLoc] = loc[o],
                                     ![FlagCurObjWei] = Data(o).weight,
                                     ![FlagCurObjCon] = container, ![FlagCurObjWR] = wearable]
          \/ Noted(f, o) = [f EXCEPT ![FlagCurObj] = NoObject, ![FlagCurObjLoc] = 0,
                                     ![FlagCurObjWei] = 0, ![FlagCurObjCon] = 0,
                                     ![FlagCurObjWR] = 0]
        BY DEF Noted
    <2> HIDE DEF container, wearable
    <2> QED  BY <1>1, <2>1
<1>3. ASSUME NEW g, DOMAIN g = FlagNo
      PROVE  Recounted(g, there)[FlagTimeFlags] = g[FlagTimeFlags]
    BY <1>1, <1>3 DEF Recounted
<1>4. DOMAIN f = FlagNo
    OBVIOUS
<1> QED  BY <1>2, <1>3, <1>4

\* TIME and INPUT keep the top bit, whatever they are given.
LEMMA OptionsKeepBit ==
    ASSUME NEW x \in Byte, NEW y \in 0..7
    PROVE  /\ (x \div 64) * 64 + y * 8 + (x % 8) >= 128 <=> x >= 128
           /\ (x \div 8) * 8 + y >= 128 <=> x >= 128
<1>1. x \in 0..255
    BY DEF Byte
<1>2. /\ x \div 64 \in 0..3 /\ x % 8 \in 0..7 /\ x \div 8 \in 0..31
      /\ x >= 128 <=> x \div 64 >= 2
      /\ x >= 128 <=> x \div 8 >= 16
    BY <1>1
<1> DEFINE q == x \div 64
           e == x \div 8
           r == x % 8
<1> HIDE DEF q, e, r
<1>3. q \in 0..3 /\ r \in 0..7 /\ e \in 0..31 /\ (x >= 128 <=> q >= 2) /\ (x >= 128 <=> e >= 16)
    BY <1>2 DEF q, e, r
<1>4. (q * 64 + y * 8 + r >= 128 <=> q >= 2) /\ (e * 8 + y >= 128 <=> e >= 16)
    BY <1>3
<1> QED  BY <1>3, <1>4 DEF q, e, r

\* A condact that only changes data leaves the bit, unless it is told to write its flag.
LEMMA DataKeepsClock ==
    ASSUME AllFlags, WorldTypeOK, NEW op, NEW a, Do(op, a),
           a \in Seq(Byte), HasOperands(op, a),
           ~Writes([op |-> op, a |-> a], FlagTimeFlags)
    PROVE  Rang(flags') = Rang(flags)
<1>1. /\ flags \in [FlagNo -> Byte] /\ FlagTimeFlags \in FlagNo
      /\ flags[FlagTimeFlags] \in Byte
    BY ClockFlagApart DEF WorldTypeOK
<1>2. SUFFICES flags'[FlagTimeFlags] = flags[FlagTimeFlags]
               \/ (flags'[FlagTimeFlags] >= 128 <=> flags[FlagTimeFlags] >= 128)
    BY DEF Rang, TimedOut
<1>3. /\ op \in {"SET", "CLEAR", "PLUS", "MINUS", "LET", "RANDOM", "WEIGHT", "MOVE"}
           => a[1] # FlagTimeFlags
      /\ op \in {"ADD", "SUB", "COPYFF", "COPYBF", "WEIGH"} => a[2] # FlagTimeFlags
      /\ op = "SETAT" => BitFlag(a[1]) # FlagTimeFlags
    BY DEF Writes
<1>4. ASSUME NEW n, NEW v, SetFlag(n, v), n # FlagTimeFlags
      PROVE  flags'[FlagTimeFlags] = flags[FlagTimeFlags]
    BY <1>1, <1>4 DEF SetFlag
<1>5. CASE Test(op, a) \/ Chance(op, a) \/ Say(op, a) \/ Picture(op, a) \/ Nothing(op)
    BY <1>5 DEF Test, Chance, Say, Picture, Nothing
<1>6. CASE ChangeFlag(op, a)
    <2>1. \/ op \in {"SET", "CLEAR", "PLUS", "MINUS", "LET", "RANDOM"} /\ \E v : SetFlag(a[1], v)
          \/ op \in {"ADD", "SUB", "COPYFF", "COPYBF"} /\ \E v : SetFlag(a[2], v)
          \/ \E v : SetFlag(FlagPlayer, v)
        BY <1>6 DEF ChangeFlag
    <2> QED  BY <2>1, <1>3, <1>4, ClockFlagApart
<1>7. CASE SetAt(op, a)
    <2>1. op = "SETAT" /\ \E v : SetFlag(BitFlag(a[1]), v)
        BY <1>7 DEF SetAt
    <2> QED  BY <2>1, <1>3, <1>4
<1>8. CASE Configure(op, a)
    <2>1. CASE op = "ABILITY"
        <3>1. flags' = [flags EXCEPT ![FlagMaxCarried] = a[1], ![FlagStrength] = a[2]]
            BY <1>8, <2>1 DEF Configure
        <3> QED  BY <1>1, <3>1, ClockFlagApart
    <2>2. CASE op \in {"INPUT", "TIME"}
        <3> DEFINE x == flags[FlagTimeFlags]
                   y == a[2] % 8
        <3>1. x \in Byte /\ y \in 0..7
            <4>1. a[2] \in Byte
                BY <2>2 DEF HasOperands, TakesTwo
            <4>2. \A z \in 0..255 : z % 8 \in 0..7
                OBVIOUS
            <4> QED  BY <1>1, <4>1, <4>2 DEF Byte
        <3>2. \/ flags' = flags
              \/ flags' = [flags EXCEPT ![FlagInStream] = a[1],
                                        ![FlagTimeFlags] = (x \div 64) * 64 + y * 8 + (x % 8)]
              \/ flags' = [flags EXCEPT ![FlagTime] = a[1],
                                        ![FlagTimeFlags] = (x \div 8) * 8 + y]
            <4>1. [flags EXCEPT ![FlagInStream] = a[1]][FlagTimeFlags] = flags[FlagTimeFlags]
                BY <1>1, ClockFlagApart
            <4>2. [flags EXCEPT ![FlagTime] = a[1]][FlagTimeFlags] = flags[FlagTimeFlags]
                BY <1>1, ClockFlagApart
            <4> QED  BY <1>8, <2>2, <4>1, <4>2 DEF Configure
        <3> HIDE DEF x, y
        <3>3. \/ flags' = flags
              \/ flags'[FlagTimeFlags] = (x \div 64) * 64 + y * 8 + (x % 8)
              \/ flags'[FlagTimeFlags] = (x \div 8) * 8 + y
            BY <1>1, <3>2, ClockFlagApart
        <3>4. /\ (x \div 64) * 64 + y * 8 + (x % 8) >= 128 <=> x >= 128
              /\ (x \div 8) * 8 + y >= 128 <=> x >= 128
            BY <3>1, OptionsKeepBit, Zenon
        <3>5. flags'[FlagTimeFlags] = x \/ (flags'[FlagTimeFlags] >= 128 <=> x >= 128)
            BY <3>3, <3>4, Zenon DEF x
        <3> QED  BY <3>5 DEF x
    <2>3. CASE op \in {"WEIGH", "WEIGHT"}
        <3>1. \/ op = "WEIGH" /\ \E v : SetFlag(a[2], v)
              \/ op = "WEIGHT" /\ \E v : SetFlag(a[1], v)
            BY <1>8, <2>3 DEF Configure
        <3> QED  BY <3>1, <1>3, <1>4
    <2> QED  BY <1>8, <2>1, <2>2, <2>3 DEF Configure
<1>9. CASE Handle(op, a)
    <2> DEFINE noted == Noted(flags, Meant)
    <2>1. noted \in [FlagNo -> Byte] /\ noted[FlagTimeFlags] = flags[FlagTimeFlags]
        BY <1>1, NotedType, NotingKeepsClock
    <2> HIDE DEF noted
    <2>2. \E f \in {flags, noted} : \E o : Get(f, o) \/ Drop(f, o)
        BY <1>9 DEF Handle, noted
    <2>3. PICK f \in {flags, noted} : \E o : Get(f, o) \/ Drop(f, o)
        BY <2>2
    <2>4. PICK o : Get(f, o) \/ Drop(f, o)
        BY <2>3
    <2>5. f \in [FlagNo -> Byte] /\ f[FlagTimeFlags] = flags[FlagTimeFlags]
        BY <1>1, <2>1
    <2>6. flags' \in {f, Noted(f, o), Recounted(Noted(f, o), loc')}
        BY <2>4 DEF Get, Drop
    <2> QED  BY <2>5, <2>6, NotingKeepsClock
<1>10. CASE Refer(op, a)
    <2>1. \E o : flags' = Noted(flags, o)
        BY <1>10 DEF Refer
    <2> QED  BY <1>1, <2>1, NotingKeepsClock
<1>11. CASE Move(op, a)
    <2>1. \/ \E v : SetFlag(FlagCurObj, v) \/ SetFlag(FlagCarried, v)
          \/ flags' = flags
          \/ flags' = Recounted(flags, loc')
        BY <1>11 DEF Move, MoveObject
    <2> QED  BY <1>1, <1>4, <2>1, NotingKeepsClock, ClockFlagApart
<1>12. CASE MovePlayer(op, a)
    <2>1. op = "MOVE" /\ (flags' = flags \/ \E v : SetFlag(a[1], v))
        BY <1>12 DEF MovePlayer
    <2> QED  BY <2>1, <1>3, <1>4
<1> QED  BY <1>5, <1>6, <1>7, <1>8, <1>9, <1>10, <1>11, <1>12 DEF Do

\* A line read into the flags leaves the clock's as the parser had set it.
LEMMA ToldKeepsClock ==
    ASSUME AllFlags, NEW f, DOMAIN f = FlagNo, NEW words
    PROVE  Rang(Told(f, words)) = Rang(f)
<1>1. /\ FlagTimeFlags \in FlagNo
      /\ FlagTimeFlags \notin {FlagVerb, FlagAdverb, FlagNoun1, FlagAdject1, FlagPrep,
                               FlagNoun2, FlagAdject2, FlagCPNoun, FlagCPAdject}
    BY ClockFlagApart
<1>2. ASSUME NEW s
      PROVE  [f EXCEPT ![FlagVerb] = s.verb, ![FlagAdverb] = s.adverb,
                  ![FlagNoun1] = s.noun1, ![FlagAdject1] = s.adject1,
                  ![FlagPrep] = s.prep, ![FlagNoun2] = s.noun2, ![FlagAdject2] = s.adject2,
                  ![FlagCPNoun] = IF Pronounable(s.noun1) THEN s.noun1 ELSE @,
                  ![FlagCPAdject] = IF Pronounable(s.noun1) THEN s.adject1 ELSE @]
                [FlagTimeFlags] = f[FlagTimeFlags]
    <2> DEFINE g == [f EXCEPT ![FlagVerb] = s.verb, ![FlagAdverb] = s.adverb,
                              ![FlagNoun1] = s.noun1, ![FlagAdject1] = s.adject1,
                              ![FlagPrep] = s.prep, ![FlagNoun2] = s.noun2,
                              ![FlagAdject2] = s.adject2]
    <2>1. DOMAIN g = FlagNo /\ g[FlagTimeFlags] = f[FlagTimeFlags]
        BY <1>1
    <2> HIDE DEF g
    <2>2. ASSUME NEW x, NEW y
          PROVE  [g EXCEPT ![FlagCPNoun] = x, ![FlagCPAdject] = y][FlagTimeFlags] = f[FlagTimeFlags]
        BY <1>1, <2>1
    <2>3. \A x, y : [g EXCEPT ![FlagCPNoun] = x, ![FlagCPAdject] = y][FlagTimeFlags] = f[FlagTimeFlags]
        BY <2>2
    <2> QED  BY <2>3, Zenon DEF g
<1>3. Told(f, words)[FlagTimeFlags] = f[FlagTimeFlags]
    BY <1>2, Zenon DEF Told
<1> QED  BY <1>3 DEF Rang

\* The bit is set by a wait that ran out, and cleared by any other.
LEMMA BitIsSet ==
    ASSUME AllFlags, NEW f \in [FlagNo -> Byte]
    PROVE  /\ Rang(Expired(f)) /\ ~Rang(Unexpired(f))
           /\ DOMAIN Expired(f) = FlagNo /\ DOMAIN Unexpired(f) = FlagNo
<1>1. FlagTimeFlags \in FlagNo /\ f[FlagTimeFlags] \in 0..255
    BY ClockFlagApart DEF Byte
<1>2. \A x \in 0..255 : x % 128 \in 0..127
    OBVIOUS
<1>3. f[FlagTimeFlags] % 128 \in 0..127
    BY <1>1, <1>2
<1>4. /\ Expired(f)[FlagTimeFlags] = 128 + (f[FlagTimeFlags] % 128)
      /\ Unexpired(f)[FlagTimeFlags] = f[FlagTimeFlags] % 128
      /\ DOMAIN Expired(f) = FlagNo /\ DOMAIN Unexpired(f) = FlagNo
    BY <1>1 DEF Expired, Unexpired, TimedOut
<1> QED  BY <1>3, <1>4 DEF Rang, TimedOut

\* The condacts that only change data ask nobody anything.
LEMMA AskingIsNoData ==
    ASSUME NEW op \in {"PARSE", "EXIT", "END"}, NEW a
    PROVE  ~DataCondact(op, a)
<1>1. ~Test(op, a) /\ ~Chance(op, a) /\ ~SetAt(op, a) /\ ~MovePlayer(op, a)
    BY DEF Test, Conditions, Chance, SetAt, MovePlayer
<1>2. ~ChangeFlag(op, a)
    BY DEF ChangeFlag
<1>3. ~Configure(op, a) /\ ~Refer(op, a)
    BY DEF Configure, Refer
<1>4. ~Handle(op, a)
    BY DEF Handle
<1>5. ~Move(op, a)
    BY DEF Move
<1>6. ~Say(op, a) /\ ~Picture(op, a) /\ ~Nothing(op)
    BY DEF Say, Picture, Nothing, Unused
<1> QED  BY <1>1, <1>2, <1>3, <1>4, <1>5, <1>6 DEF DataCondact, Do

\* What a step of the machine does to the bit: nothing, unless it is a question, a new
\* game or a condact told to write the flag.
Questions == Running("PARSE") /\ Asks(Operands)
Clears == restart' /\ ~restart /\ ~Running("RESTART")

LEMMA RoundKeepsClock ==
    ASSUME AllFlags, flags \in [FlagNo -> Byte], NEW f, NEW objects, GoRound(f, objects)
    PROVE  Rang(flags') = Rang(flags)
<1>1. /\ FlagTimeFlags \in FlagNo
      /\ FlagTimeFlags \notin {FlagDoallObj, FlagNoun1, FlagAdject1}
    BY ClockFlagApart
<1>2. PICK x, y, z : flags' = [flags EXCEPT ![FlagDoallObj] = x, ![FlagNoun1] = y, ![FlagAdject1] = z]
    BY Zenon DEF GoRound
<1>3. flags'[FlagTimeFlags] = flags[FlagTimeFlags]
    BY <1>1, <1>2
<1> QED  BY <1>3 DEF Rang

LEMMA NewGameClears ==
    ASSUME AllFlags, NewGame
    PROVE  ~Rang(flags')
<1>1. FlagTimeFlags \in FlagNo /\ FlagTimeFlags # FlagCarried
    BY ClockFlagApart
<1>2. flags'[FlagTimeFlags] = 0
    BY <1>1 DEF NewGame, Recounted
<1> QED  BY <1>2 DEF Rang, TimedOut

\* A condact that asks for no order and begins no game leaves the onlooker's news alone,
\* but for one that writes the flag.
LEMMA NewsStands ==
    ASSUME ClockBitIsNews, asked' = Asking, ~Questions, ~Clears,
           SetsTheClock \/ Rang(flags') = Rang(flags)
    PROVE  ClockBitIsNews'
<1>1. asked' = IF SetsTheClock THEN "hand" ELSE asked
    BY DEF Asking, Questions, Clears
<1>2. CASE SetsTheClock
    BY <1>1, <1>2 DEF ClockBitIsNews
<1>3. CASE ~SetsTheClock /\ Rang(flags') = Rang(flags)
    BY <1>1, <1>3 DEF ClockBitIsNews, Rang
<1> QED  BY <1>2, <1>3

\* A condact.
LEMMA ClockExec ==
    ASSUME AllFlags, IInv, ClockBitIsNews, Exec, asked' = Asking
    PROVE  ClockBitIsNews'
<1> DEFINE op == Current.op
           a == Operands
<1>1. Executing /\ a \in Seq(Byte) /\ HasOperands(op, a)
    BY OperandsType DEF Exec
<1>2. /\ ~finished /\ ~restart /\ status = "turn"
      /\ WorldTypeOK /\ flags \in [FlagNo -> Byte] /\ literal \in Seq(Word)
    BY <1>1 DEF Executing, InTurn, IInv, TypeOK, WorldTypeOK
<1>3. \/ DataCondact(op, a) \/ Done(op) \/ Return(op) \/ Call(op, a) \/ Jump(op, a)
      \/ Doall(op, a) \/ Restart(op, a) \/ WalkAway(op) \/ Answer(op)
      \/ ParseLiteral(op, a) \/ ParseLine(op, a) \/ ParseExpired(op, a)
      \/ ParseEnd(op, a) \/ Wait(op) \/ Broken(op)
    BY DEF Exec
<1>4. /\ Questions <=> op = "PARSE" /\ Asks(a)
      /\ Clears <=> restart' /\ op # "RESTART"
      /\ SetsTheClock <=> Writes([op |-> op, a |-> a], FlagTimeFlags)
    BY <1>1, <1>2 DEF Questions, Clears, SetsTheClock, Running
<1> HIDE DEF op, a
<1>5. CASE DataCondact(op, a)
    <2>1. op # "PARSE" /\ restart' = restart
        BY <1>5, AskingIsNoData DEF DataCondact, run
    <2>2. SetsTheClock \/ Rang(flags') = Rang(flags)
        BY <1>1, <1>2, <1>4, <1>5, DataKeepsClock DEF DataCondact
    <2> QED  BY <1>2, <1>4, <2>1, <2>2, NewsStands
<1>6. CASE Done(op)
    <2>1. op = "DONE" /\ restart' = restart
        BY <1>6 DEF Done, run
    <2>2. Rang(flags') = Rang(flags)
        BY <1>2, <1>6, RoundKeepsClock DEF Done
    <2> QED  BY <1>2, <1>4, <2>1, <2>2, NewsStands
<1>7. CASE Return(op) \/ Call(op, a) \/ Jump(op, a) \/ Wait(op) \/ Broken(op)
    <2>1. op # "PARSE" /\ restart' = restart /\ flags' = flags
        BY <1>7 DEF Return, Call, Jump, Wait, Broken, NotImplemented, run, world
    <2> QED  BY <1>2, <1>4, <2>1, NewsStands
<1>8. CASE Doall(op, a)
    <2>1. op = "DOALL" /\ restart' = restart
        BY <1>8 DEF Doall, run
    <2>2. Rang(flags') = Rang(flags)
        <3>1. CASE \E f, objects : GoRound(f, objects)
            BY <1>2, <3>1, RoundKeepsClock
        <3>2. CASE flags' = [n \in FlagNo |->
                               IF n \in {FlagVerb, FlagNoun1, FlagAdject1, FlagAdverb,
                                         FlagPrep, FlagNoun2, FlagAdject2, FlagDoallObj}
                               THEN NoWord ELSE flags[n]]
            BY <3>2, ClockFlagApart DEF Rang
        <3> QED  BY <1>8, <3>1, <3>2 DEF Doall
    <2> QED  BY <1>2, <1>4, <2>1, <2>2, NewsStands
<1>9. CASE (op = "RESTART" \/ Finish) /\ op # "PARSE" /\ (Restart(op, a) \/ WalkAway(op) \/ Answer(op))
    <2>1. flags' = flags /\ (op = "RESTART" \/ restart' = restart)
        BY <1>9 DEF Restart, WalkAway, Answer, Finish, world
    <2> QED  BY <1>2, <1>4, <1>9, <2>1, NewsStands
<1>10. CASE NewGame /\ op \notin {"PARSE", "RESTART"}
    <2>1. ~Questions /\ Clears /\ ~Rang(flags')
        BY <1>4, <1>10, NewGameClears DEF NewGame
    <2>2. asked' = "nothing"
        BY <2>1 DEF Asking, Questions, Clears
    <2> QED  BY <2>1, <2>2 DEF ClockBitIsNews, Rang
<1>11. CASE Answer(op) /\ op = "QUIT"
    <2>1. restart' = restart /\ flags' = flags
        BY <1>11 DEF Answer
    <2> QED  BY <1>2, <1>4, <1>11, <2>1, NewsStands
<1>12. CASE ParseLiteral(op, a)
    <2>1. op = "PARSE" /\ ~Asks(a) /\ restart' = restart /\ flags' = Told(flags, literal)
        BY <1>12 DEF ParseLiteral, Reads
    <2>2. Rang(flags') = Rang(flags)
        BY <1>2, <2>1, ToldKeepsClock
    <2> QED  BY <1>2, <1>4, <2>1, <2>2, NewsStands
<1>13. CASE ParseLine(op, a)
    <2>1. /\ op = "PARSE" /\ Asks(a) /\ inputs' = inputs + 1
          /\ \E words : flags' = Told(Unexpired(flags), words)
        BY <1>13 DEF ParseLine, Reads
    <2>2. ~Rang(flags')
        BY <1>2, <2>1, BitIsSet, ToldKeepsClock
    <2>3. asked' = "line"
        <3>1. inputs' # inputs
            BY <2>1 DEF IInv, TypeOK
        <3> QED  BY <1>4, <2>1, <3>1 DEF Asking, Questions
    <2> QED  BY <2>2, <2>3 DEF ClockBitIsNews, Rang
<1>14. CASE ParseExpired(op, a)
    <2>1. /\ op = "PARSE" /\ Asks(a) /\ inputs' = inputs /\ finished' = finished
          /\ flags' = Told(Expired(flags), <<>>)
        BY <1>14 DEF ParseExpired, Reads
    <2>2. Rang(flags')
        BY <1>2, <2>1, BitIsSet, ToldKeepsClock
    <2>3. asked' = "clock"
        BY <1>2, <1>4, <2>1 DEF Asking, Questions
    <2> QED  BY <2>2, <2>3 DEF ClockBitIsNews, Rang
<1>15. CASE ParseEnd(op, a)
    <2>1. /\ op = "PARSE" /\ Asks(a) /\ inputs' = inputs /\ finished'
          /\ flags' = Unexpired(flags)
        BY <1>15 DEF ParseEnd
    <2>2. ~Rang(flags')
        BY <1>2, <2>1, BitIsSet
    <2>3. asked' = "end"
        BY <1>4, <2>1 DEF Asking, Questions
    <2> QED  BY <2>2, <2>3 DEF ClockBitIsNews, Rang
<1>16. CASE Restart(op, a) \/ WalkAway(op) \/ Answer(op)
    <2>1. /\ op # "PARSE"
          /\ \/ op = "RESTART" \/ Finish \/ (NewGame /\ op # "RESTART")
             \/ Answer(op) /\ op = "QUIT"
        BY <1>16 DEF Restart, WalkAway, Answer
    <2> QED  BY <1>9, <1>10, <1>11, <1>16, <2>1
<1> QED  BY <1>3, <1>5, <1>6, <1>7, <1>8, <1>12, <1>13, <1>14, <1>15, <1>16

\* Any step.
LEMMA ClockStep ==
    ASSUME AllFlags, IInv, ClockBitIsNews, [HNext]_<<vars, history>>
    PROVE  ClockBitIsNews'
<1>1. CASE UNCHANGED <<vars, history>>
    BY <1>1 DEF vars, history, world, ClockBitIsNews
<1>2. CASE HNext /\ Exec
    BY <1>2, ClockExec DEF HNext
<1>3. CASE HNext /\ ~Executing
    <2>1. asked' = Asking /\ Next /\ ~Questions /\ ~Exec
        BY <1>3 DEF HNext, Questions, Running, Exec
    <2>2. ~Clears /\ Rang(flags') = Rang(flags)
        <3>1. CASE FindEntry
            <4>1. restart' = restart
                BY <3>1 DEF FindEntry, run
            <4>2. flags \in [FlagNo -> Byte]
                BY DEF IInv, TypeOK, WorldTypeOK
            <4>3. flags' = flags \/ \E f, objects : GoRound(f, objects)
                BY <3>1 DEF FindEntry
            <4> QED  BY <4>1, <4>2, <4>3, RoundKeepsClock DEF Clears
        <3>2. CASE BeginTurn
            BY <3>2 DEF BeginTurn, Clears
        <3>3. CASE LeaveEntry \/ Crash \/ EndTurn
            BY <3>3 DEF LeaveEntry, Crash, EndTurn, Clears, run, world
        <3>4. CASE Terminated
            BY <3>4 DEF Terminated, vars, Clears, run, world
        <3> QED  BY <2>1, <3>1, <3>2, <3>3, <3>4 DEF Next
    <2> QED  BY <2>1, <2>2, NewsStands
<1>4. CASE HNext /\ Executing /\ ~Exec
    <2>1. FALSE
        BY <1>4 DEF HNext, Next, BeginTurn, FindEntry, LeaveEntry, Crash, EndTurn, TurnEnds,
           Terminated, Executing, InTurn
    <2> QED  BY <2>1
<1> QED  BY <1>1, <1>2, <1>3, <1>4

\* Whatever the adventure, and until it writes the flag itself, the bit tells its tables that
\* the last question they asked ended with the clock: it is never left over from a question
\* before that one, nor from a game before this one (waitForLine, reset).
THEOREM ClockTellsTheLastWait ==
    ASSUME AllFlags
    PROVE  HSpec => []ClockBitIsNews
<1>1. HInit => IInv /\ ClockBitIsNews
    <2> SUFFICES ASSUME HInit PROVE IInv /\ ClockBitIsNews
        OBVIOUS
    <2>1. IInv
        BY InitOK DEF HInit
    <2>2. flags = [n \in FlagNo |-> 0] /\ asked = "nothing"
        BY DEF HInit, Init, WorldInit
    <2>3. ~Rang(flags)
        BY <2>2, ClockFlagApart DEF Rang, TimedOut
    <2> QED  BY <2>1, <2>2, <2>3 DEF ClockBitIsNews, Rang
<1>2. IInv /\ ClockBitIsNews /\ [HNext]_<<vars, history>> => (IInv /\ ClockBitIsNews)'
    BY ClockStep, NextOK DEF HNext, vars
<1> QED  BY <1>1, <1>2, PTL DEF HSpec
=============================================================================
