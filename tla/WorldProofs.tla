---------------------------- MODULE WorldProofs ----------------------------
(***************************************************************************)
(* What one condact of World keeps true, whatever the adventure: every     *)
(* flag stays a byte and every object stays in some place.  The module     *)
(* also holds what the operators of Words and World give back.             *)
(***************************************************************************)
EXTENDS World, Induction

\* The flags modelled are the code's 256.
AllFlags == FlagNo = Byte

-----------------------------------------------------------------------------
\* What is in a sequence is of its type.
LEMMA ElementType ==
    ASSUME NEW T, NEW s \in Seq(T), NEW i \in DOMAIN s
    PROVE  s[i] \in T
OBVIOUS

\* First finds the least of any set of natural numbers, the empty one excepted.
LEMMA FirstIsLeast ==
    ASSUME NEW S \in SUBSET Nat, S # {}
    PROVE  First(S) \in S /\ \A j \in S : First(S) <= j
BY LeastNumber DEF First

\* An adventure's objects are finitely many, and numbered by bytes.
LEMMA ObjectsAreBytes ==
    ASSUME db \in Databases
    PROVE  Objects \subseteq Byte /\ IsFiniteSet(Objects)
<1>1. PICK n \in Byte : db.objects \in [0..(n - 1) -> ObjectData]
    BY WorldAssumption DEF WellFormed
<1>2. Objects = 0..(n - 1)
    BY <1>1 DEF Objects
<1>3. n \in Nat /\ n <= 255 /\ n - 1 \in Int
    BY DEF Byte
<1>4. IsFiniteSet(Objects)
    BY <1>2, <1>3, FS_Interval
<1> QED  BY <1>2, <1>3, <1>4 DEF Byte

\* What the database says of an object it has.
LEMMA DataType ==
    ASSUME db \in Databases, NEW o \in Objects
    PROVE  Data(o) \in ObjectData
BY WorldAssumption DEF WellFormed, Objects, Data

\* Counting what is held gives a number, whatever the places.
LEMMA CarryingType ==
    ASSUME db \in Databases, NEW places \in [Objects -> Byte]
    PROVE  Carrying(places) \in Nat
<1>1. IsFiniteSet(Objects)
    BY ObjectsAreBytes
<1>2. {o \in DOMAIN places : places[o] = LocCarried} \subseteq Objects
    OBVIOUS
<1> QED  BY <1>1, <1>2, FS_Subset, FS_CardinalityType DEF Carrying

\* A weight that is capped is a byte.
LEMMA CappedType ==
    ASSUME NEW w
    PROVE  Capped(w) \in Byte
<1>1. 255 \in Byte
    BY DEF Byte
<1> QED  BY <1>1 DEF Capped

\* A weight is a byte at every level, the caps see to it.
LEMMA WeightTypes ==
    ASSUME db \in Databases
    PROVE  WeightCarried \in Byte /\ \A o : ObjectWeight(o) \in Byte
<1>1. WeightCarried \in Byte
    BY CappedType DEF WeightCarried
<1>2. ASSUME NEW o \in Objects
      PROVE  WeighOne(o, WeightAt[1][o]) \in Byte
    <2>1. Data(o).weight \in Byte
        BY <1>2, DataType DEF ObjectData
    <2> QED  BY <2>1, CappedType DEF WeighOne
<1>3. 0 \in Byte
    BY DEF Byte
<1> QED  BY <1>1, <1>2, <1>3 DEF ObjectWeight

\* PLUS and MINUS stay in a byte.
LEMMA ArithmeticTypes ==
    ASSUME NEW x \in Byte, NEW y \in Byte
    PROVE  Plus(x, y) \in Byte /\ Minus(x, y) \in Byte
BY DEF Plus, Minus, Byte

-----------------------------------------------------------------------------
\* The flags that several condacts write come out as bytes again.

\* Storing a byte in one flag.
LEMMA SetFlagType ==
    ASSUME AllFlags, flags \in [FlagNo -> Byte], NEW n, NEW v \in Byte, SetFlag(n, v)
    PROVE  flags' \in [FlagNo -> Byte]
BY DEF SetFlag

\* The flags after note, of an object or of none.
LEMMA NotedType ==
    ASSUME AllFlags, WorldTypeOK, NEW f \in [FlagNo -> Byte], NEW o
    PROVE  Noted(f, o) \in [FlagNo -> Byte]
<1>1. ASSUME NEW number \in Byte, NEW place \in Byte, NEW weight \in Byte,
             NEW container \in Byte, NEW wearable \in Byte
      PROVE  [f EXCEPT ![FlagCurObj] = number, ![FlagCurObjLoc] = place,
                       ![FlagCurObjWei] = weight, ![FlagCurObjCon] = container,
                       ![FlagCurObjWR] = wearable] \in [FlagNo -> Byte]
    OBVIOUS
<1>2. CASE o \in Objects
    <2> DEFINE container == IF Data(o).container THEN 128 ELSE 0
               wearable == IF Data(o).wearable THEN 128 ELSE 0
    <2>1. o \in Byte /\ loc[o] \in Byte
        BY <1>2, ObjectsAreBytes DEF WorldTypeOK
    <2>2. Data(o).weight \in Byte
        BY <1>2, DataType DEF WorldTypeOK, ObjectData
    <2>3. container \in Byte /\ wearable \in Byte
        BY DEF Byte
    <2>4. Noted(f, o) = [f EXCEPT ![FlagCurObj] = o, ![FlagCurObjLoc] = loc[o],
                                  ![FlagCurObjWei] = Data(o).weight,
                                  ![FlagCurObjCon] = container,
                                  ![FlagCurObjWR] = wearable]
        BY <1>2 DEF Noted
    <2> HIDE DEF container, wearable
    <2> QED  BY <1>1, <2>1, <2>2, <2>3, <2>4
<1>3. CASE o \notin Objects
    <2>1. NoObject \in Byte /\ 0 \in Byte
        BY DEF NoObject, Byte
    <2>2. Noted(f, o) = [f EXCEPT ![FlagCurObj] = NoObject, ![FlagCurObjLoc] = 0,
                                  ![FlagCurObjWei] = 0, ![FlagCurObjCon] = 0,
                                  ![FlagCurObjWR] = 0]
        BY <1>3 DEF Noted
    <2> QED  BY <1>1, <2>1, <2>2
<1> QED  BY <1>2, <1>3

\* The flags after the count of what is held.
LEMMA RecountedType ==
    ASSUME AllFlags, db \in Databases, NEW f \in [FlagNo -> Byte],
           NEW places \in [Objects -> Byte]
    PROVE  Recounted(f, places) \in [FlagNo -> Byte]
<1>1. Carrying(places) % 256 \in Byte
    BY CarryingType DEF Byte
<1> QED  BY <1>1 DEF Recounted

\* The flags that say where the player is, what is referred to and the verb.
LEMMA PlayerType ==
    ASSUME AllFlags, NEW f \in [FlagNo -> Byte]
    PROVE  f[FlagPlayer] \in Byte /\ f[FlagCurObj] \in Byte /\ f[FlagVerb] \in Byte
<1>1. FlagPlayer \in Byte /\ FlagCurObj \in Byte /\ FlagVerb \in Byte
    BY DEF FlagPlayer, FlagCurObj, FlagVerb, Byte
<1> QED  BY <1>1 DEF AllFlags

-----------------------------------------------------------------------------
\* One lemma for each kind of condact.

\* The condacts that set one flag.
LEMMA ChangeFlagTypes ==
    ASSUME AllFlags, WorldTypeOK, NEW op, NEW a \in Seq(Byte), HasOperands(op, a),
           ChangeFlag(op, a)
    PROVE  flags' \in [FlagNo -> Byte] /\ done' \in BOOLEAN /\ continuing' \in BOOLEAN
<1>1. done' \in BOOLEAN /\ continuing' \in BOOLEAN
    BY DEF ChangeFlag, Did, Goes
<1>2. flags \in [Byte -> Byte]
    BY DEF WorldTypeOK, AllFlags
<1>3. CASE op \in TakesTwo
    <2>1. a[1] \in Byte /\ a[2] \in Byte
        BY <1>3 DEF HasOperands
    <2>2. flags[a[1]] \in Byte /\ flags[a[2]] \in Byte
        BY <1>2, <2>1
    <2>3. 255 - flags[a[1]] \in Byte
        <3>1. \A x \in Byte : 255 - x \in Byte
            BY DEF Byte
        <3> QED  BY <2>2, <3>1
    <2>4. \E n, v : v \in Byte /\ SetFlag(n, v)
        BY <1>3, <2>1, <2>2, <2>3, ArithmeticTypes DEF ChangeFlag, TakesTwo
    <2> QED  BY <1>1, <2>4, SetFlagType DEF WorldTypeOK
<1>4. CASE op \in TakesOne
    <2>1. a[1] \in Byte
        BY <1>4 DEF HasOperands
    <2>2. 0 \in Byte /\ 255 \in Byte /\ \A roll \in Rolls : roll + 1 \in Byte
        BY WorldAssumption DEF Byte
    <2>3. \E n, v : v \in Byte /\ SetFlag(n, v)
        BY <1>4, <2>1, <2>2 DEF ChangeFlag, TakesOne
    <2> QED  BY <1>1, <2>3, SetFlagType DEF WorldTypeOK
<1> QED  BY <1>3, <1>4 DEF ChangeFlag, TakesOne, TakesTwo

\* Setting, clearing or turning over one bit of a byte leaves a byte.
LEMMA BitType ==
    ASSUME NEW x \in Byte, NEW v \in Byte, NEW change \in {-1, 0, 1},
           change = 1 => (x \div BitValue(v)) % 2 # 1,
           change = -1 => (x \div BitValue(v)) % 2 = 1
    PROVE  x + change * BitValue(v) \in Byte
<1>1. v % 8 \in 0..7
    BY DEF Byte
<1>2. BitValue(v) \in {1, 2, 4, 8, 16, 32, 64, 128}
    BY <1>1 DEF BitValue
<1>3. ASSUME NEW b \in {1, 2, 4, 8, 16, 32, 64, 128},
             change = 1 => (x \div b) % 2 # 1,
             change = -1 => (x \div b) % 2 = 1
      PROVE  x + change * b \in Byte
    <2>1. CASE b = 1
        BY <1>3, <2>1 DEF Byte
    <2>2. CASE b = 2
        BY <1>3, <2>2 DEF Byte
    <2>3. CASE b = 4
        BY <1>3, <2>3 DEF Byte
    <2>4. CASE b = 8
        BY <1>3, <2>4 DEF Byte
    <2>5. CASE b = 16
        BY <1>3, <2>5 DEF Byte
    <2>6. CASE b = 32
        BY <1>3, <2>6 DEF Byte
    <2>7. CASE b = 64
        BY <1>3, <2>7 DEF Byte
    <2>8. CASE b = 128
        BY <1>3, <2>8 DEF Byte
    <2> QED  BY <2>1, <2>2, <2>3, <2>4, <2>5, <2>6, <2>7, <2>8
<1> QED  BY <1>2, <1>3

\* SETAT, by BitType.
LEMMA SetAtTypes ==
    ASSUME AllFlags, WorldTypeOK, NEW op, NEW a \in Seq(Byte), HasOperands(op, a),
           SetAt(op, a)
    PROVE  flags' \in [FlagNo -> Byte] /\ done' \in BOOLEAN /\ continuing' \in BOOLEAN
<1> DEFINE wanted == (a[2] = 1) \/ (a[2] # 0 /\ ~HasBit(a[1]))
           change == (IF wanted THEN 1 ELSE 0) - (IF HasBit(a[1]) THEN 1 ELSE 0)
<1>1. a[1] \in Byte /\ a[2] \in Byte
    BY DEF SetAt, HasOperands, TakesTwo
<1>2. BitFlag(a[1]) \in FlagNo
    <2>1. \A x \in Byte : 59 - (x \div 8) \in Byte
        BY DEF Byte
    <2> QED  BY <1>1, <2>1 DEF BitFlag, AllFlags
<1>3. flags[BitFlag(a[1])] \in Byte
    BY <1>2 DEF WorldTypeOK
<1>4. /\ change \in {-1, 0, 1}
      /\ change = 1 => ~HasBit(a[1])
      /\ change = -1 => HasBit(a[1])
    OBVIOUS
<1>5. flags[BitFlag(a[1])] + change * BitValue(a[1]) \in Byte
    <2> HIDE DEF change
    <2> QED  BY <1>1, <1>3, <1>4, BitType DEF HasBit
<1>6. SetFlag(BitFlag(a[1]), flags[BitFlag(a[1])] + change * BitValue(a[1]))
    BY DEF SetAt
<1>7. flags' \in [FlagNo -> Byte]
    <2> HIDE DEF change
    <2> QED  BY <1>5, <1>6, SetFlagType DEF WorldTypeOK
<1> QED  BY <1>7 DEF SetAt, Did, Goes

\* The limits, the input options, the clock and the weights.
LEMMA ConfigureTypes ==
    ASSUME AllFlags, WorldTypeOK, NEW op, NEW a \in Seq(Byte), HasOperands(op, a),
           Configure(op, a)
    PROVE  flags' \in [FlagNo -> Byte] /\ continuing' \in BOOLEAN
<1>1. continuing' \in BOOLEAN /\ flags \in [Byte -> Byte]
    BY DEF Configure, Goes, WorldTypeOK, AllFlags
<1>2. ASSUME NEW m, NEW n, NEW v \in Byte, NEW w \in Byte
      PROVE  [flags EXCEPT ![m] = v, ![n] = w] \in [FlagNo -> Byte]
    BY <1>1 DEF AllFlags
<1>3. flags[FlagTimeFlags] \in Byte
    <2>1. FlagTimeFlags \in Byte
        BY DEF FlagTimeFlags, Byte
    <2> QED  BY <1>1, <2>1
<1>4. CASE op = "ABILITY"
    <2>1. a[1] \in Byte /\ a[2] \in Byte
        BY <1>4 DEF HasOperands, TakesTwo
    <2>2. flags' = [flags EXCEPT ![FlagMaxCarried] = a[1], ![FlagStrength] = a[2]]
        BY <1>4 DEF Configure
    <2> QED  BY <1>1, <1>2, <2>1, <2>2
<1>5. CASE op = "INPUT"
    <2> DEFINE options == (flags[FlagTimeFlags] \div 64) * 64 + (a[2] % 8) * 8
                          + (flags[FlagTimeFlags] % 8)
    <2>1. a[1] \in Byte /\ a[2] \in Byte
        BY <1>5 DEF HasOperands, TakesTwo
    <2>2. options \in Byte
        <3>1. \A x \in Byte, y \in Byte : (x \div 64) * 64 + (y % 8) * 8 + (x % 8) \in Byte
            BY DEF Byte
        <3> QED  BY <1>3, <2>1, <3>1
    <2>3. flags' = IF a[1] >= 8 THEN flags
                   ELSE [flags EXCEPT ![FlagInStream] = a[1], ![FlagTimeFlags] = options]
        BY <1>5, <1>1 DEF Configure, FlagTimeFlags, FlagInStream, Byte
    <2> HIDE DEF options
    <2> QED  BY <1>1, <1>2, <2>1, <2>2, <2>3 DEF AllFlags
<1>6. CASE op = "TIME"
    <2> DEFINE options == (flags[FlagTimeFlags] \div 8) * 8 + (a[2] % 8)
    <2>1. a[1] \in Byte /\ a[2] \in Byte
        BY <1>6 DEF HasOperands, TakesTwo
    <2>2. options \in Byte
        <3>1. \A x \in Byte, y \in Byte : (x \div 8) * 8 + (y % 8) \in Byte
            BY DEF Byte
        <3> QED  BY <1>3, <2>1, <3>1
    <2>3. flags' = [flags EXCEPT ![FlagTime] = a[1], ![FlagTimeFlags] = options]
        BY <1>6, <1>1 DEF Configure, FlagTimeFlags, FlagTime, Byte
    <2> HIDE DEF options
    <2> QED  BY <1>1, <1>2, <2>1, <2>2, <2>3
<1>7. CASE op \in {"WEIGH", "WEIGHT"}
    <2>1. \E n, v : v \in Byte /\ SetFlag(n, v)
        BY <1>7, WeightTypes DEF Configure, WorldTypeOK
    <2> QED  BY <1>1, <2>1, SetFlagType DEF WorldTypeOK
<1> QED  BY <1>4, <1>5, <1>6, <1>7 DEF Configure

\* GET, taken or refused.
LEMMA GetTypes ==
    ASSUME AllFlags, WorldTypeOK, NEW f \in [FlagNo -> Byte], NEW o, Get(f, o)
    PROVE  /\ flags' \in [FlagNo -> Byte]
           /\ loc' \in [Objects -> Byte]
           /\ done' \in BOOLEAN /\ continuing' \in BOOLEAN
<1>1. Noted(f, o) \in [FlagNo -> Byte]
    BY NotedType
<1>2. CASE Takeable(o)
    <2>1. loc' \in [Objects -> Byte]
        BY <1>2 DEF Get, WorldTypeOK, LocCarried, Byte
    <2>2. flags' = Recounted(Noted(f, o), loc')
        BY <1>2 DEF Get
    <2>3. flags' \in [FlagNo -> Byte]
        BY <1>1, <2>1, <2>2, RecountedType DEF WorldTypeOK
    <2> QED  BY <1>2, <2>1, <2>3 DEF Get, Did, Goes
<1>3. CASE ~Takeable(o)
    BY <1>1, <1>3 DEF Get, Fails, WorldTypeOK
<1> QED  BY <1>2, <1>3

\* DROP, dropped or refused.
LEMMA DropTypes ==
    ASSUME AllFlags, WorldTypeOK, NEW f \in [FlagNo -> Byte], NEW o, Drop(f, o)
    PROVE  /\ flags' \in [FlagNo -> Byte]
           /\ loc' \in [Objects -> Byte]
           /\ done' \in BOOLEAN /\ continuing' \in BOOLEAN
<1>1. Noted(f, o) \in [FlagNo -> Byte] /\ f[FlagPlayer] \in Byte
    BY NotedType, PlayerType
<1>2. CASE o \in Objects
    <2>1. loc' \in [Objects -> Byte]
        BY <1>1, <1>2 DEF Drop, WorldTypeOK
    <2>2. flags' = Recounted(Noted(f, o), loc')
        BY <1>2 DEF Drop
    <2>3. flags' \in [FlagNo -> Byte]
        BY <1>1, <2>1, <2>2, RecountedType DEF WorldTypeOK
    <2> QED  BY <1>2, <2>1, <2>3 DEF Drop, Did, Goes
<1>3. CASE o \notin Objects
    BY <1>3 DEF Drop, Fails, WorldTypeOK
<1> QED  BY <1>2, <1>3

\* The four condacts that handle an object and the two that refer to one.
LEMMA HandleTypes ==
    ASSUME AllFlags, WorldTypeOK, NEW op, NEW a, Handle(op, a) \/ Refer(op, a)
    PROVE  /\ flags' \in [FlagNo -> Byte]
           /\ loc' \in [Objects -> Byte]
           /\ done' \in BOOLEAN /\ continuing' \in BOOLEAN
<1>1. flags \in [FlagNo -> Byte] /\ loc \in [Objects -> Byte] /\ done \in BOOLEAN
    BY DEF WorldTypeOK
<1>2. Noted(flags, Meant) \in [FlagNo -> Byte] /\ Noted(flags, a[1]) \in [FlagNo -> Byte]
    BY <1>1, NotedType
<1>3. CASE Handle(op, a)
    BY <1>1, <1>2, <1>3, GetTypes, DropTypes DEF Handle
<1>4. CASE Refer(op, a)
    BY <1>1, <1>2, <1>4 DEF Refer, Goes
<1> QED  BY <1>3, <1>4

\* The condacts that send objects somewhere.
LEMMA MoveTypes ==
    ASSUME AllFlags, WorldTypeOK, NEW op, NEW a \in Seq(Byte), HasOperands(op, a),
           Move(op, a)
    PROVE  /\ flags' \in [FlagNo -> Byte]
           /\ loc' \in [Objects -> Byte]
           /\ done' \in BOOLEAN /\ continuing' \in BOOLEAN
<1>1. flags \in [FlagNo -> Byte] /\ loc \in [Objects -> Byte]
    BY DEF WorldTypeOK
<1>2. flags[FlagPlayer] \in Byte /\ flags[FlagCurObj] \in Byte
    BY <1>1, PlayerType
<1>3. \A to \in Byte : Resolved(flags, to) \in Byte
    BY <1>2 DEF Resolved
<1>4. done' \in BOOLEAN /\ continuing' \in BOOLEAN
    BY DEF Move, Did, Goes
<1>5. ASSUME NEW o \in Byte, NEW to \in Byte, MoveObject(o, to)
      PROVE  flags' \in [FlagNo -> Byte] /\ loc' \in [Objects -> Byte]
    BY <1>1, <1>3, <1>5, SetFlagType DEF MoveObject
<1>6. CASE op \in {"REMOVE", "DESTROY", "CREATE", "PLACE", "PUTO"}
    <2>1. a[1] \in Byte /\ (op = "PLACE" => a[2] \in Byte)
        BY <1>6 DEF HasOperands, TakesOne, TakesTwo
    <2>2. LocNotCreated \in Byte
        BY DEF LocNotCreated, Byte
    <2>3. \E o, to \in Byte : MoveObject(o, to)
        BY <1>2, <1>6, <2>1, <2>2 DEF Move
    <2> QED  BY <1>4, <1>5, <2>3
<1>7. CASE op = "SWAP"
    <2>1. loc' \in [Objects -> Byte]
        <3>1. CASE {a[1], a[2]} \subseteq Objects
            <4>1. Resolved(flags, loc[a[1]]) \in Byte /\ Resolved(flags, loc[a[2]]) \in Byte
                BY <1>1, <1>3, <3>1
            <4> QED  BY <1>1, <1>7, <3>1, <4>1 DEF Move
        <3>2. CASE ~({a[1], a[2]} \subseteq Objects)
            BY <1>1, <1>7, <3>2 DEF Move
        <3> QED  BY <3>1, <3>2
    <2> QED  BY <1>1, <1>4, <1>7, <2>1 DEF Move
<1>8. CASE op = "DROPALL"
    <2>1. loc' \in [Objects -> Byte]
        BY <1>1, <1>2, <1>8 DEF Move
    <2>2. SetFlag(FlagCarried, 0) /\ 0 \in Byte
        BY <1>8 DEF Move, Byte
    <2> QED  BY <1>1, <1>4, <2>1, <2>2, SetFlagType
<1>9. CASE op = "RESET"
    <2>1. \A o \in Objects : Data(o).initial \in Byte
        BY DataType DEF WorldTypeOK, ObjectData
    <2>2. loc' \in [Objects -> Byte]
        BY <1>3, <1>9, <2>1 DEF Move
    <2>3. flags' = Recounted(flags, loc')
        BY <1>9 DEF Move
    <2> QED  BY <1>1, <1>4, <2>2, <2>3, RecountedType DEF WorldTypeOK
<1> QED  BY <1>6, <1>7, <1>8, <1>9 DEF Move

\* MOVE, with a way out or without.
LEMMA MovePlayerTypes ==
    ASSUME AllFlags, WorldTypeOK, NEW op, NEW a \in Seq(Byte), HasOperands(op, a),
           MovePlayer(op, a)
    PROVE  flags' \in [FlagNo -> Byte] /\ done' \in BOOLEAN /\ continuing' \in BOOLEAN
<1>1. CASE Exits(a[1]) = {}
    BY <1>1 DEF MovePlayer, Fails, WorldTypeOK
<1>2. CASE Exits(a[1]) # {}
    <2> DEFINE ways == db.conns[flags[a[1]]]
    <2>1. PICK n \in Byte : db.conns \in [0..(n - 1) -> Seq([word : Byte, to : Byte])]
        BY WorldAssumption DEF WorldTypeOK, WellFormed
    <2>2. ways \in Seq([word : Byte, to : Byte]) /\ Exits(a[1]) \subseteq DOMAIN ways
        BY <1>2, <2>1 DEF Exits
    <2>3. First(Exits(a[1])) \in Exits(a[1])
        BY <1>2, <2>2, FirstIsLeast
    <2>4. ways[First(Exits(a[1]))].to \in Byte
        <3>1. First(Exits(a[1])) \in DOMAIN ways
            BY <2>2, <2>3
        <3>2. ASSUME NEW s \in Seq([word : Byte, to : Byte]), NEW i \in DOMAIN s
              PROVE  s[i].to \in Byte
            <4>1. s[i] \in [word : Byte, to : Byte]
                BY ElementType
            <4> QED  BY <4>1
        <3> HIDE DEF ways
        <3> QED  BY <2>2, <3>1, <3>2
    <2>5. SetFlag(a[1], ways[First(Exits(a[1]))].to) /\ Did
        BY <1>2 DEF MovePlayer
    <2>6. flags' \in [FlagNo -> Byte]
        <3> HIDE DEF ways
        <3> QED  BY <2>4, <2>5, SetFlagType DEF WorldTypeOK
    <2> QED  BY <2>5, <2>6 DEF Did, Goes
<1> QED  BY <1>1, <1>2

-----------------------------------------------------------------------------
\* Whatever condact runs, and whatever its operands: the data keeps its types.
THEOREM DoKeepsTypes ==
    ASSUME AllFlags, WorldTypeOK, NEW op, NEW a \in Seq(Byte), HasOperands(op, a), Do(op, a)
    PROVE  WorldTypeOK'
<1>1. db' = db /\ Objects' = Objects
    BY DEF Do, Objects
<1> SUFFICES /\ flags' \in [FlagNo -> Byte] /\ loc' \in [Objects -> Byte]
             /\ done' \in BOOLEAN /\ continuing' \in BOOLEAN
             /\ picture' \in Byte \cup {NoPicture}
    BY <1>1 DEF WorldTypeOK
<1> USE DEF WorldTypeOK
<1>2. CASE Test(op, a) \/ Chance(op, a)
    <2>1. Holds(op, a) \in BOOLEAN
        BY Zenon DEF Holds
    <2>2. continuing' \in BOOLEAN
        <3>1. CASE Test(op, a)
            BY <2>1, <3>1 DEF Test
        <3>2. CASE Chance(op, a)
            BY <3>2 DEF Chance, Goes, Fails
        <3> QED  BY <1>2, <3>1, <3>2
    <2>3. UNCHANGED <<flags, loc, done, picture>>
        BY <1>2 DEF Test, Chance
    <2> QED  BY <2>2, <2>3
<1>3. CASE ChangeFlag(op, a) \/ SetAt(op, a)
    <2>1. UNCHANGED <<loc, picture>>
        BY <1>3 DEF ChangeFlag, SetAt
    <2> QED  BY <1>3, <2>1, ChangeFlagTypes, SetAtTypes
<1>4. CASE Configure(op, a)
    <2>1. UNCHANGED <<loc, done, picture>>
        BY <1>4 DEF Configure
    <2> QED  BY <1>4, <2>1, ConfigureTypes
<1>5. CASE Handle(op, a) \/ Refer(op, a)
    <2>1. UNCHANGED picture
        BY <1>5 DEF Handle, Refer, Get, Drop
    <2> QED  BY <1>5, <2>1, HandleTypes
<1>6. CASE Move(op, a)
    <2>1. UNCHANGED picture
        BY <1>6 DEF Move
    <2> QED  BY <1>6, <2>1, MoveTypes
<1>7. CASE MovePlayer(op, a)
    <2>1. UNCHANGED <<loc, picture>>
        BY <1>7 DEF MovePlayer
    <2> QED  BY <1>7, <2>1, MovePlayerTypes
<1>8. CASE Say(op, a) \/ Nothing(op)
    BY <1>8 DEF Say, Nothing, Goes
<1>9. CASE Picture(op, a)
    <2>1. a[1] \in Byte
        BY <1>9 DEF Picture, HasOperands, TakesOne
    <2> QED  BY <1>9, <2>1 DEF Picture, Goes
<1> QED  BY <1>2, <1>3, <1>4, <1>5, <1>6, <1>7, <1>8, <1>9 DEF Do

\* The condacts WorldSpec runs have the operands they need.
CondactsComplete ==
    \A d \in Databases : \A c \in d.condacts : c.a \in Seq(Byte) /\ HasOperands(c.op, c.a)

\* The world New makes.
LEMMA WorldInitTypes == ASSUME AllFlags, WorldInit PROVE WorldTypeOK
<1>1. db \in Databases
    BY DEF WorldInit
<1>2. loc \in [Objects -> Byte]
    BY <1>1, DataType DEF WorldInit, InitialPlaces, Objects, Data, ObjectData
<1>3. flags \in [FlagNo -> Byte]
    <2>1. 0 \in Byte
        BY DEF Byte
    <2> QED  BY <2>1 DEF WorldInit
<1>4. done \in BOOLEAN /\ continuing \in BOOLEAN /\ picture \in {NoPicture}
    BY DEF WorldInit
<1> QED  BY <1>1, <1>2, <1>3, <1>4 DEF WorldTypeOK

\* In any order and whatever the adventure, condacts keep every flag a byte and
\* every object in some place (the conversions to byte in condacts.go, plus, minus).
THEOREM WorldTypes ==
    ASSUME AllFlags, CondactsComplete
    PROVE  WorldSpec => []WorldTypeOK
<1>1. WorldInit => WorldTypeOK
    BY WorldInitTypes
<1>2. WorldTypeOK /\ [WorldNext]_<<db, world>> => WorldTypeOK'
    <2> SUFFICES ASSUME WorldTypeOK, [WorldNext]_<<db, world>>
                 PROVE  WorldTypeOK'
        OBVIOUS
    <2>1. CASE WorldNext
        <3>1. PICK c \in db.condacts : Do(c.op, c.a)
            BY <2>1 DEF WorldNext
        <3>2. c.a \in Seq(Byte) /\ HasOperands(c.op, c.a)
            BY DEF CondactsComplete, WorldTypeOK
        <3> QED  BY <3>1, <3>2, DoKeepsTypes
    <2>2. CASE UNCHANGED <<db, world>>
        BY <2>2 DEF world, WorldTypeOK, Objects
    <2> QED  BY <2>1, <2>2
<1> QED  BY <1>1, <1>2, PTL DEF WorldSpec

-----------------------------------------------------------------------------
\* 255 is stored nowhere.

\* note never moves the player.
LEMMA NotedKeepsPlayer ==
    ASSUME AllFlags, NEW f \in [FlagNo -> Byte], NEW o
    PROVE  Noted(f, o)[FlagPlayer] = f[FlagPlayer]
<1>1. FlagPlayer \in FlagNo /\ FlagPlayer \notin {FlagCurObj, FlagCurObjLoc, FlagCurObjWei,
                                                 FlagCurObjCon, FlagCurObjWR}
    <2>1. FlagPlayer \in Byte
        BY DEF FlagPlayer, Byte
    <2>2. FlagPlayer \notin {FlagCurObj, FlagCurObjLoc, FlagCurObjWei, FlagCurObjCon,
                            FlagCurObjWR}
        BY DEF FlagPlayer, FlagCurObj, FlagCurObjLoc, FlagCurObjWei, FlagCurObjCon,
               FlagCurObjWR
    <2> QED  BY <2>1, <2>2 DEF AllFlags
<1>2. CASE o \in Objects
    <2> DEFINE container == IF Data(o).container THEN 128 ELSE 0
               wearable == IF Data(o).wearable THEN 128 ELSE 0
    <2>1. Noted(f, o) = [f EXCEPT ![FlagCurObj] = o, ![FlagCurObjLoc] = loc[o],
                                  ![FlagCurObjWei] = Data(o).weight,
                                  ![FlagCurObjCon] = container,
                                  ![FlagCurObjWR] = wearable]
        BY <1>2 DEF Noted
    <2> HIDE DEF container, wearable
    <2> QED  BY <1>1, <2>1
<1>3. CASE o \notin Objects
    <2>1. Noted(f, o) = [f EXCEPT ![FlagCurObj] = NoObject, ![FlagCurObjLoc] = 0,
                                  ![FlagCurObjWei] = 0, ![FlagCurObjCon] = 0,
                                  ![FlagCurObjWR] = 0]
        BY <1>3 DEF Noted
    <2> QED  BY <1>1, <2>1
<1> QED  BY <1>2, <1>3

\* A destination only resolves to 255 while the player is at 255.
LEMMA ResolvedIsAPlace ==
    ASSUME NEW f, NEW to, Resolved(f, to) = LocHere
    PROVE  f[FlagPlayer] = LocHere
BY DEF Resolved

\* What one condact does to one object: it is left, or held, or sent somewhere that
\* has been resolved, or dropped where the player is, or not created.
LEMMA WhereObjectsGo ==
    ASSUME AllFlags, WorldTypeOK, NEW op, NEW a, Do(op, a), NEW o \in Objects,
           loc'[o] = LocHere
    PROVE  loc[o] = LocHere \/ flags[FlagPlayer] = LocHere
<1> USE DEF WorldTypeOK
<1>1. CASE Test(op, a) \/ Chance(op, a) \/ ChangeFlag(op, a) \/ SetAt(op, a)
           \/ Configure(op, a) \/ Refer(op, a) \/ MovePlayer(op, a) \/ Say(op, a)
           \/ Picture(op, a) \/ Nothing(op)
    <2>1. loc' = loc
        BY <1>1 DEF Test, Chance, ChangeFlag, SetAt, Configure, Refer, MovePlayer, Say,
                    Picture, Nothing
    <2> QED  BY <2>1
<1>2. CASE Handle(op, a)
    <2>1. ASSUME NEW f, NEW p, Get(f, p)
          PROVE  loc'[o] \in {loc[o], LocCarried}
        BY <2>1 DEF Get
    <2>2. ASSUME NEW f, NEW p, Drop(f, p)
          PROVE  loc'[o] \in {loc[o], f[FlagPlayer]}
        BY <2>2 DEF Drop
    <2>3. LocCarried # LocHere
        BY DEF LocCarried, LocHere
    <2> QED  BY <1>2, <2>1, <2>2, <2>3, NotedKeepsPlayer DEF Handle
<1>3. CASE Move(op, a)
    <2>1. ASSUME NEW p, NEW to, MoveObject(p, to)
          PROVE  loc'[o] \in {loc[o], Resolved(flags, to)}
        BY <2>1 DEF MoveObject
    <2>2. CASE op \in {"REMOVE", "DESTROY", "CREATE", "PLACE", "PUTO"}
        <3>1. \E p, to : MoveObject(p, to)
            BY <1>3, <2>2 DEF Move
        <3> QED  BY <2>1, <3>1, ResolvedIsAPlace
    <2>3. CASE op = "SWAP"
        <3>1. loc'[o] \in {loc[o], Resolved(flags, loc[a[1]]), Resolved(flags, loc[a[2]])}
            BY <1>3, <2>3 DEF Move
        <3> QED  BY <3>1, ResolvedIsAPlace
    <2>4. CASE op = "DROPALL"
        BY <1>3, <2>4 DEF Move
    <2>5. CASE op = "RESET"
        <3>1. loc'[o] = Resolved(flags, Data(o).initial)
            BY <1>3, <2>5 DEF Move
        <3> QED  BY <3>1, ResolvedIsAPlace
    <2> QED  BY <1>3, <2>2, <2>3, <2>4, <2>5 DEF Move
<1> QED  BY <1>1, <1>2, <1>3 DEF Do

\* Whatever the adventure does, 255 never becomes the place of an object while the
\* player is in a room that is not 255 (move, and the comment over it).
THEOREM NothingPutAtHere ==
    ASSUME AllFlags, CondactsComplete
    PROVE  WorldSpec => NothingIsPutAtHere
<1>1. WorldTypeOK /\ [WorldNext]_<<db, world>>
      => [\A o \in Objects : (loc'[o] = LocHere /\ loc[o] # LocHere)
                             => flags[FlagPlayer] = LocHere]_<<db, world>>
    BY WhereObjectsGo DEF WorldNext
<1>2. WorldSpec => []WorldTypeOK
    BY WorldTypes
<1> QED  BY <1>1, <1>2, PTL DEF WorldSpec, NothingIsPutAtHere
-----------------------------------------------------------------------------
\* The object the sentence means.

\* The flags of what is referred to are there, and are not the player's nor flag 1.
LEMMA ReferredFlags ==
    ASSUME AllFlags
    PROVE  /\ {FlagCurObj, FlagCurObjLoc, FlagCurObjWei, FlagCurObjCon, FlagCurObjWR} \subseteq FlagNo
           /\ FlagCurObj \notin {FlagCurObjLoc, FlagCurObjWei, FlagCurObjCon, FlagCurObjWR,
                                 FlagCarried}
<1>1. {FlagCurObj, FlagCurObjLoc, FlagCurObjWei, FlagCurObjCon, FlagCurObjWR} \subseteq Byte
    BY DEF Byte, FlagCurObj, FlagCurObjLoc, FlagCurObjWei, FlagCurObjCon, FlagCurObjWR
<1>2. FlagCurObj \notin {FlagCurObjLoc, FlagCurObjWei, FlagCurObjCon, FlagCurObjWR,
                         FlagCarried}
    BY DEF FlagCurObj, FlagCurObjLoc, FlagCurObjWei, FlagCurObjCon, FlagCurObjWR, FlagCarried
<1> QED  BY <1>1, <1>2 DEF AllFlags

\* An object noted is the one referred to, counting again or not.
LEMMA NotedRefers ==
    ASSUME AllFlags, NEW f \in [FlagNo -> Byte], NEW o \in Objects
    PROVE  /\ Noted(f, o)[FlagCurObj] = o
           /\ \A there : Recounted(Noted(f, o), there)[FlagCurObj] = o
<1> DEFINE container == IF Data(o).container THEN 128 ELSE 0
           wearable == IF Data(o).wearable THEN 128 ELSE 0
<1>1. Noted(f, o) = [f EXCEPT ![FlagCurObj] = o, ![FlagCurObjLoc] = loc[o],
                              ![FlagCurObjWei] = Data(o).weight,
                              ![FlagCurObjCon] = container,
                              ![FlagCurObjWR] = wearable]
    BY DEF Noted
<1> HIDE DEF container, wearable
<1>2. Noted(f, o)[FlagCurObj] = o /\ DOMAIN Noted(f, o) = FlagNo
    BY <1>1, ReferredFlags
<1>3. ASSUME NEW there
      PROVE  Recounted(Noted(f, o), there)[FlagCurObj] = o
    BY <1>2, ReferredFlags DEF Recounted
<1> QED  BY <1>2, <1>3

\* A rank is one of three, and tells what is held or worn from what is here, and
\* both from the rest.
LEMMA Ranks ==
    /\ \A o : Rank(o) \in {1, 2, 3}
    /\ \A o : Rank(o) = 3 <=> loc[o] \in {LocCarried, LocWorn}
    /\ \A o \in Objects : Rank(o) >= 2 <=> Present(o)
BY DEF Rank, Present

\* The first of the best rank is there to be chosen.
LEMMA MeantIsNearest ==
    ASSUME WorldTypeOK, Named # {}
    PROVE  Meant \in Named /\ \A p \in Named : Rank(Meant) >= Rank(p)
<1> DEFINE OfRank(r) == {o \in Named : Rank(o) = r}
           Best(o) == \A p \in Named : Rank(o) > Rank(p) \/ (Rank(o) = Rank(p) /\ o <= p)
<1>1. Named \in SUBSET Nat
    BY ObjectsAreBytes DEF WorldTypeOK, Named, Byte
<1>2. PICK r \in {1, 2, 3} : OfRank(r) # {} /\ \A p \in Named : Rank(p) <= r
    <2>1. CASE OfRank(3) # {}
        BY <2>1, Ranks
    <2>2. CASE OfRank(3) = {} /\ OfRank(2) # {}
        BY <2>2, Ranks
    <2>3. CASE OfRank(3) = {} /\ OfRank(2) = {}
        BY <2>3, Ranks
    <2> QED  BY <2>1, <2>2, <2>3
<1>3. First(OfRank(r)) \in OfRank(r) /\ \A j \in OfRank(r) : First(OfRank(r)) <= j
    <2>1. OfRank(r) \in SUBSET Nat
        BY <1>1
    <2> HIDE DEF OfRank
    <2> QED  BY <1>2, <2>1, FirstIsLeast
<1>4. Best(First(OfRank(r)))
    BY <1>2, <1>3, Ranks
<1>5. \E o \in Named : Best(o)
    BY <1>3, <1>4
<1>6. Meant = CHOOSE o \in Named : Best(o)
    BY DEF Meant
<1> HIDE DEF Best
<1>7. Meant \in Named /\ Best(Meant)
    BY <1>5, <1>6
<1> QED  BY <1>7, Ranks DEF Best

\* The three condacts that ask the sentence for an object refer to the one it means.
LEMMA MeantIsReferred ==
    ASSUME AllFlags, WorldTypeOK, Named # {}, NEW op \in {"WHATO", "AUTOG", "AUTOD"}, NEW a,
           Do(op, a)
    PROVE  flags'[FlagCurObj] = Meant
<1>1. Meant \in Objects /\ flags \in [FlagNo -> Byte]
    BY MeantIsNearest DEF Named, WorldTypeOK
<1>2. Refer(op, a) \/ Handle(op, a)
    BY DEF Do, Test, Conditions, Chance, ChangeFlag, SetAt, Configure, Move, MovePlayer, Say,
           Picture, Nothing, Unused
<1> DEFINE f == Noted(flags, Meant)
<1>3. f \in [FlagNo -> Byte] /\ f[FlagCurObj] = Meant
    BY <1>1, NotedRefers, NotedType
<1>4. CASE op = "WHATO"
    BY <1>2, <1>3, <1>4 DEF Refer, Handle
<1> HIDE DEF f
<1>5. ASSUME Get(f, Meant) \/ Drop(f, Meant)
      PROVE  flags'[FlagCurObj] = Meant
    BY <1>1, <1>3, <1>5, NotedRefers DEF Get, Drop
<1>6. CASE op \in {"AUTOG", "AUTOD"}
    BY <1>2, <1>3, <1>5, <1>6 DEF Refer, Handle, f
<1> QED  BY <1>4, <1>6

\* Nothing further away is ever meant for what is at hand, whatever the objects, the
\* words and the places (whatO, condacts.go:234).
THEOREM NearestAlwaysMeant ==
    ASSUME AllFlags, CondactsComplete
    PROVE  WorldSpec => NearestIsMeant
<1> DEFINE Nearest ==
      \A c \in db.condacts :
        (c.op \in {"WHATO", "AUTOG", "AUTOD"} /\ Do(c.op, c.a))
        => \A o \in Named :
              /\ flags'[FlagCurObj] \in Named
              /\ Present(o) => Present(flags'[FlagCurObj])
              /\ loc[o] \in {LocCarried, LocWorn}
                 => loc[flags'[FlagCurObj]] \in {LocCarried, LocWorn}
<1>1. WorldTypeOK => Nearest
    <2> SUFFICES ASSUME WorldTypeOK,
                        NEW c \in db.condacts, c.op \in {"WHATO", "AUTOG", "AUTOD"},
                        Do(c.op, c.a), NEW o \in Named
                 PROVE  /\ flags'[FlagCurObj] \in Named
                        /\ Present(o) => Present(flags'[FlagCurObj])
                        /\ loc[o] \in {LocCarried, LocWorn}
                           => loc[flags'[FlagCurObj]] \in {LocCarried, LocWorn}
        OBVIOUS
    <2>1. flags'[FlagCurObj] = Meant
        BY MeantIsReferred
    <2>2. Meant \in Named /\ Rank(Meant) >= Rank(o) /\ Named \subseteq Objects
        BY MeantIsNearest DEF Named
    <2> QED  BY <2>1, <2>2, Ranks
<1>2. WorldSpec => []WorldTypeOK
    BY WorldTypes
<1> HIDE DEF Nearest
<1>3. WorldSpec => [][Nearest]_<<db, world>>
    BY <1>1, <1>2, PTL
<1> QED  BY <1>3 DEF NearestIsMeant, Nearest

-----------------------------------------------------------------------------
\* How many objects are held.

\* There are never so many that a flag could not say it.
LEMMA CarryingFits ==
    ASSUME db \in Databases, NEW places \in [Objects -> Byte]
    PROVE  Carrying(places) % 256 = Carrying(places)
<1>1. PICK n \in Byte : db.objects \in [0..(n - 1) -> ObjectData]
    BY WorldAssumption DEF WellFormed
<1>2. Objects = 0..(n - 1) /\ n \in Nat /\ n <= 255
    BY <1>1 DEF Objects, Byte
<1>3. IsFiniteSet(0..(n - 1)) /\ Cardinality(0..(n - 1)) <= 255
    <2>1. 0 \in Int /\ n - 1 \in Int
        BY <1>2
    <2>2. /\ IsFiniteSet(0..(n - 1))
          /\ Cardinality(0..(n - 1)) = IF 0 > n - 1 THEN 0 ELSE (n - 1) - 0 + 1
        BY <2>1, FS_Interval
    <2> QED  BY <1>2, <2>2
<1> DEFINE held == {o \in DOMAIN places : places[o] = LocCarried}
<1>4. held \in SUBSET (0..(n - 1))
    BY <1>2
<1>5. Cardinality(held) <= Cardinality(0..(n - 1)) /\ IsFiniteSet(held)
    BY <1>3, <1>4, FS_Subset
<1>6. Cardinality(held) \in Nat /\ Cardinality(0..(n - 1)) \in Nat
    BY <1>3, <1>5, FS_CardinalityType
<1>7. Carrying(places) \in Nat /\ Carrying(places) <= 255
    BY <1>3, <1>5, <1>6 DEF Carrying
<1> QED  BY <1>7

\* The flags that say how many are held, and where the player is, lie apart from the
\* others condacts write unasked.
LEMMA CountFlags ==
    ASSUME AllFlags
    PROVE  /\ FlagCarried \in FlagNo /\ FlagPlayer \in FlagNo
           /\ \A n \in {FlagCarried, FlagPlayer} :
                n \notin {FlagCurObj, FlagCurObjLoc, FlagCurObjWei, FlagCurObjCon, FlagCurObjWR,
                         FlagMaxCarried, FlagStrength, FlagInStream, FlagTime, FlagTimeFlags}
           /\ FlagCarried # FlagPlayer
<1>1. FlagCarried \in Byte /\ FlagPlayer \in Byte
    BY DEF FlagCarried, FlagPlayer, Byte
<1>2. /\ \A n \in {FlagCarried, FlagPlayer} :
            n \notin {FlagCurObj, FlagCurObjLoc, FlagCurObjWei, FlagCurObjCon, FlagCurObjWR,
                     FlagMaxCarried, FlagStrength, FlagInStream, FlagTime, FlagTimeFlags}
      /\ FlagCarried # FlagPlayer
    BY DEF FlagCarried, FlagPlayer, FlagCurObj, FlagCurObjLoc, FlagCurObjWei, FlagCurObjCon,
           FlagCurObjWR, FlagMaxCarried, FlagStrength, FlagInStream, FlagTime, FlagTimeFlags
<1> QED  BY <1>1, <1>2 DEF AllFlags

\* What is held and where the player is are not part of a note.
LEMMA NotedKeeps ==
    ASSUME AllFlags, NEW f \in [FlagNo -> Byte], NEW o, NEW n \in {FlagCarried, FlagPlayer}
    PROVE  Noted(f, o)[n] = f[n]
<1>1. n \notin {FlagCurObj, FlagCurObjLoc, FlagCurObjWei, FlagCurObjCon, FlagCurObjWR}
    BY CountFlags
<1>2. n \in FlagNo
    BY CountFlags
<1>3. CASE o \in Objects
    <2> DEFINE container == IF Data(o).container THEN 128 ELSE 0
               wearable == IF Data(o).wearable THEN 128 ELSE 0
    <2>1. Noted(f, o) = [f EXCEPT ![FlagCurObj] = o, ![FlagCurObjLoc] = loc[o],
                                  ![FlagCurObjWei] = Data(o).weight,
                                  ![FlagCurObjCon] = container,
                                  ![FlagCurObjWR] = wearable]
        BY <1>3 DEF Noted
    <2> HIDE DEF container, wearable
    <2> QED  BY <1>1, <1>2, <2>1
<1>4. CASE o \notin Objects
    <2>1. Noted(f, o) = [f EXCEPT ![FlagCurObj] = NoObject, ![FlagCurObjLoc] = 0,
                                  ![FlagCurObjWei] = 0, ![FlagCurObjCon] = 0,
                                  ![FlagCurObjWR] = 0]
        BY <1>4 DEF Noted
    <2> QED  BY <1>1, <1>2, <2>1
<1> QED  BY <1>3, <1>4

\* Flag 1 counts what is held, and the player is not in room 254.
Counted(there) == flags[FlagCarried] = Carrying(there) /\ flags[FlagPlayer] # LocCarried

\* Flags counted again over the places there say how many are held.
LEMMA RecountedCounts ==
    ASSUME AllFlags, db \in Databases, NEW f \in [FlagNo -> Byte],
           NEW there \in [Objects -> Byte]
    PROVE  /\ Recounted(f, there)[FlagCarried] = Carrying(there)
           /\ Recounted(f, there)[FlagPlayer] = f[FlagPlayer]
<1>1. Carrying(there) % 256 = Carrying(there)
    BY CarryingFits
<1> QED  BY <1>1, CountFlags DEF Recounted

\* GET counts again, or moves nothing.
LEMMA GetCounts ==
    ASSUME AllFlags, WorldTypeOK, CountsFaithfully(db), Counted(loc), NEW o,
           NEW f \in [FlagNo -> Byte], Get(f, o),
           f[FlagCarried] = flags[FlagCarried], f[FlagPlayer] = flags[FlagPlayer]
    PROVE  flags'[FlagCarried] = Carrying(loc') /\ flags'[FlagPlayer] # LocCarried
<1>1. Noted(f, o) \in [FlagNo -> Byte]
    BY NotedType
<1>2. Noted(f, o)[FlagCarried] = flags[FlagCarried] /\ Noted(f, o)[FlagPlayer] = flags[FlagPlayer]
    BY NotedKeeps
<1>3. CASE Takeable(o)
    <2>1. loc' = [loc EXCEPT ![o] = LocCarried] /\ flags' = Recounted(Noted(f, o), loc')
        BY <1>3 DEF Get
    <2>2. loc' \in [Objects -> Byte]
        <3>1. LocCarried \in Byte
            BY DEF LocCarried, Byte
        <3> QED  BY <2>1, <3>1 DEF WorldTypeOK
    <2> QED  BY <1>1, <1>2, <2>1, <2>2, RecountedCounts DEF Counted, WorldTypeOK
<1>4. CASE ~Takeable(o)
    <2>1. loc' = loc /\ flags' \in {Noted(f, o), f}
        BY <1>4 DEF Get
    <2> QED  BY <1>2, <2>1 DEF Counted
<1> QED  BY <1>3, <1>4

\* So does DROP.
LEMMA DropCounts ==
    ASSUME AllFlags, WorldTypeOK, Counted(loc), NEW o,
           NEW f \in [FlagNo -> Byte], Drop(f, o),
           f[FlagCarried] = flags[FlagCarried], f[FlagPlayer] = flags[FlagPlayer]
    PROVE  flags'[FlagCarried] = Carrying(loc') /\ flags'[FlagPlayer] # LocCarried
<1>1. CASE o \in Objects
    <2>1. Noted(f, o) \in [FlagNo -> Byte] /\ f[FlagPlayer] \in Byte
        BY NotedType, PlayerType
    <2>2. Noted(f, o)[FlagPlayer] = flags[FlagPlayer]
        BY NotedKeeps
    <2>3. loc' = [loc EXCEPT ![o] = f[FlagPlayer]] /\ flags' = Recounted(Noted(f, o), loc')
        BY <1>1 DEF Drop
    <2>4. loc' \in [Objects -> Byte]
        BY <2>1, <2>3 DEF WorldTypeOK
    <2> QED  BY <2>1, <2>2, <2>3, <2>4, RecountedCounts DEF Counted, WorldTypeOK
<1>2. CASE o \notin Objects
    BY <1>2 DEF Drop, Counted
<1> QED  BY <1>1, <1>2

\* One condact of an adventure that leaves the count to those that keep it.
LEMMA DoCounts ==
    ASSUME AllFlags, WorldTypeOK, CountsFaithfully(db), Counted(loc),
           NEW c \in db.condacts, Do(c.op, c.a)
    PROVE  flags'[FlagCarried] = Carrying(loc') /\ flags'[FlagPlayer] # LocCarried
<1>1. /\ c.op \notin Uncounted /\ ~Writes(c, FlagCarried)
      /\ Writes(c, FlagPlayer) => c.op = "MOVE"
      /\ c.op = "GOTO" => c.a[1] # LocCarried
    <2>1. LeavesTheCount(c)
        BY DEF CountsFaithfully
    <2> QED  BY <2>1, Zenon DEF LeavesTheCount
<1>2. flags \in [FlagNo -> Byte]
    BY DEF WorldTypeOK
<1>3. ASSUME NEW n, NEW v, SetFlag(n, v), n \notin {FlagCarried, FlagPlayer}
      PROVE  flags'[FlagCarried] = flags[FlagCarried] /\ flags'[FlagPlayer] = flags[FlagPlayer]
    BY <1>2, <1>3 DEF SetFlag
<1>4. CASE Test(c.op, c.a) \/ Chance(c.op, c.a) \/ Say(c.op, c.a) \/ Picture(c.op, c.a)
           \/ Nothing(c.op)
    <2>1. loc' = loc /\ flags' = flags
        BY <1>4 DEF Test, Chance, Say, Picture, Nothing
    <2> QED  BY <2>1 DEF Counted
<1>5. CASE ChangeFlag(c.op, c.a)
    <2>1. loc' = loc
        BY <1>5 DEF ChangeFlag
    <2>2. CASE c.op = "GOTO"
        <3>1. flags' = [flags EXCEPT ![FlagPlayer] = c.a[1]]
            BY <1>5, <2>2 DEF ChangeFlag, SetFlag
        <3>2. flags'[FlagCarried] = flags[FlagCarried] /\ flags'[FlagPlayer] = c.a[1]
            BY <1>2, <3>1, CountFlags
        <3> QED  BY <1>1, <2>1, <2>2, <3>2 DEF Counted
    <2>3. CASE c.op # "GOTO"
        <3>1. \/ c.op \in {"SET", "CLEAR", "PLUS", "MINUS", "LET", "RANDOM"}
                 /\ \E v : SetFlag(c.a[1], v)
              \/ c.op \in {"ADD", "SUB", "COPYFF", "COPYBF"} /\ \E v : SetFlag(c.a[2], v)
            BY <1>5, <2>3 DEF ChangeFlag
        <3>2. CASE c.op \in {"SET", "CLEAR", "PLUS", "MINUS", "LET", "RANDOM"}
                   /\ \E v : SetFlag(c.a[1], v)
            <4>1. c.a[1] \notin {FlagCarried, FlagPlayer}
                BY <1>1, <3>2 DEF Writes
            <4> QED  BY <1>3, <2>1, <3>2, <4>1 DEF Counted
        <3>3. CASE c.op \in {"ADD", "SUB", "COPYFF", "COPYBF"} /\ \E v : SetFlag(c.a[2], v)
            <4>1. c.a[2] \notin {FlagCarried, FlagPlayer}
                BY <1>1, <3>3 DEF Writes
            <4> QED  BY <1>3, <2>1, <3>3, <4>1 DEF Counted
        <3> QED  BY <3>1, <3>2, <3>3
    <2> QED  BY <2>2, <2>3
<1>6. CASE SetAt(c.op, c.a)
    <2>1. c.op = "SETAT" /\ loc' = loc /\ \E v : SetFlag(BitFlag(c.a[1]), v)
        BY <1>6 DEF SetAt
    <2>2. BitFlag(c.a[1]) \notin {FlagCarried, FlagPlayer}
        BY <1>1, <2>1 DEF Writes
    <2> QED  BY <1>3, <2>1, <2>2 DEF Counted
<1>7. CASE Configure(c.op, c.a)
    <2>1. loc' = loc
        BY <1>7 DEF Configure
    <2>2. flags'[FlagCarried] = flags[FlagCarried] /\ flags'[FlagPlayer] = flags[FlagPlayer]
        <3>1. CASE c.op = "ABILITY"
            <4>1. flags' = [flags EXCEPT ![FlagMaxCarried] = c.a[1], ![FlagStrength] = c.a[2]]
                BY <1>7, <3>1 DEF Configure
            <4> QED  BY <1>2, <4>1, CountFlags
        <3>2. CASE c.op = "INPUT"
            <4>1. \/ flags' = flags
                  \/ \E v : flags' = [flags EXCEPT ![FlagInStream] = c.a[1], ![FlagTimeFlags] = v]
                BY <1>7, <3>2, Zenon DEF Configure
            <4> QED  BY <1>2, <4>1, CountFlags
        <3>3. CASE c.op = "TIME"
            <4>1. \E v : flags' = [flags EXCEPT ![FlagTime] = c.a[1], ![FlagTimeFlags] = v]
                BY <1>7, <3>3, Zenon DEF Configure
            <4> QED  BY <1>2, <4>1, CountFlags
        <3>4. CASE c.op = "WEIGH"
            <4>1. c.a[2] \notin {FlagCarried, FlagPlayer} /\ \E v : SetFlag(c.a[2], v)
                BY <1>1, <1>7, <3>4 DEF Configure, Writes
            <4> QED  BY <1>3, <4>1
        <3>5. CASE c.op = "WEIGHT"
            <4>1. c.a[1] \notin {FlagCarried, FlagPlayer} /\ \E v : SetFlag(c.a[1], v)
                BY <1>1, <1>7, <3>5 DEF Configure, Writes
            <4> QED  BY <1>3, <4>1
        <3> QED  BY <1>7, <3>1, <3>2, <3>3, <3>4, <3>5 DEF Configure
    <2> QED  BY <2>1, <2>2 DEF Counted
<1>8. CASE Handle(c.op, c.a)
    <2> DEFINE noted == Noted(flags, Meant)
    <2>1. /\ noted \in [FlagNo -> Byte]
          /\ noted[FlagCarried] = flags[FlagCarried] /\ noted[FlagPlayer] = flags[FlagPlayer]
        BY <1>2, NotedType, NotedKeeps
    <2> HIDE DEF noted
    <2>2. \/ \E o : Get(flags, o) \/ Drop(flags, o)
          \/ \E o : Get(noted, o) \/ Drop(noted, o)
        BY <1>8 DEF Handle, noted
    <2> QED  BY <1>2, <2>1, <2>2, GetCounts, DropCounts
<1>9. CASE Refer(c.op, c.a)
    <2>1. loc' = loc /\ \E o : flags' = Noted(flags, o)
        BY <1>9 DEF Refer
    <2> QED  BY <1>2, <2>1, NotedKeeps DEF Counted
<1>10. CASE Move(c.op, c.a)
    <2>1. c.op \in {"DROPALL", "RESET"}
        BY <1>1, <1>10 DEF Move, Uncounted
    <2>2. flags[FlagPlayer] \in Byte
        BY <1>2, PlayerType
    <2>3. CASE c.op = "DROPALL"
        <3>1. /\ loc' = [o \in Objects |-> IF loc[o] \in {LocCarried, LocWorn}
                                           THEN flags[FlagPlayer] ELSE loc[o]]
              /\ flags' = [flags EXCEPT ![FlagCarried] = 0]
            BY <1>10, <2>3 DEF Move, SetFlag
        <3>2. {o \in DOMAIN loc' : loc'[o] = LocCarried} = {}
            BY <3>1 DEF Counted
        <3>3. Carrying(loc') = 0
            BY <3>2, FS_EmptySet DEF Carrying
        <3>4. flags'[FlagCarried] = 0 /\ flags'[FlagPlayer] = flags[FlagPlayer]
            BY <1>2, <3>1, CountFlags
        <3> QED  BY <3>3, <3>4 DEF Counted
    <2>4. CASE c.op = "RESET"
        <3>1. /\ loc' = [o \in Objects |-> Resolved(flags, Data(o).initial)]
              /\ flags' = Recounted(flags, loc')
            BY <1>10, <2>4 DEF Move
        <3>2. \A o \in Objects : Resolved(flags, Data(o).initial) \in Byte
            <4>1. \A o \in Objects : Data(o).initial \in Byte
                BY DataType DEF WorldTypeOK, ObjectData
            <4> QED  BY <2>2, <4>1 DEF Resolved
        <3>3. loc' \in [Objects -> Byte]
            BY <3>1, <3>2
        <3> QED  BY <1>2, <3>1, <3>3, RecountedCounts DEF Counted, WorldTypeOK
    <2> QED  BY <2>1, <2>3, <2>4
<1>11. CASE MovePlayer(c.op, c.a)
    <2> DEFINE room == flags[c.a[1]]
    <2>1. loc' = loc
        BY <1>11 DEF MovePlayer
    <2>2. CASE Exits(c.a[1]) = {}
        BY <1>11, <2>1, <2>2 DEF MovePlayer, Counted
    <2>3. CASE Exits(c.a[1]) # {}
        <3>1. PICK way : SetFlag(c.a[1], way) /\ way = db.conns[room][First(Exits(c.a[1]))].to
            BY <1>11, <2>3 DEF MovePlayer
        <3>2. room \in DOMAIN db.conns /\ Exits(c.a[1]) \subseteq DOMAIN db.conns[room]
            BY <2>3 DEF Exits
        <3>3. First(Exits(c.a[1])) \in Exits(c.a[1])
            <4>1. PICK n \in Byte : db.conns \in [0..(n - 1) -> Seq([word : Byte, to : Byte])]
                BY WorldAssumption DEF WorldTypeOK, WellFormed
            <4>2. db.conns[room] \in Seq([word : Byte, to : Byte])
                BY <3>2, <4>1
            <4> QED  BY <2>3, <3>2, <4>2, FirstIsLeast
        <3>4. way # LocCarried
            <4>1. First(Exits(c.a[1])) \in DOMAIN db.conns[room]
                BY <3>2, <3>3
            <4>2. \A r \in DOMAIN db.conns : \A i \in DOMAIN db.conns[r] :
                    db.conns[r][i].to # LocCarried
                BY DEF CountsFaithfully
            <4>3. db.conns[room][First(Exits(c.a[1]))].to # LocCarried
                BY <3>2, <4>1, <4>2, Zenon
            <4> QED  BY <3>1, <4>3, Zenon
        <3>5. c.a[1] # FlagCarried
            BY <1>1, <1>11 DEF MovePlayer, Writes
        <3>6. flags'[FlagCarried] = flags[FlagCarried] /\ flags'[FlagPlayer] # LocCarried
            <4>1. flags' = [flags EXCEPT ![c.a[1]] = way]
                BY <3>1 DEF SetFlag
            <4>2. flags'[FlagCarried] = flags[FlagCarried]
                BY <1>2, <3>5, <4>1
            <4>3. flags'[FlagPlayer] \in {flags[FlagPlayer], way}
                BY <1>2, <4>1, CountFlags
            <4> QED  BY <3>4, <4>2, <4>3 DEF Counted
        <3> QED  BY <2>1, <3>6 DEF Counted
    <2> QED  BY <2>2, <2>3
<1> QED  BY <1>4, <1>5, <1>6, <1>7, <1>8, <1>9, <1>10, <1>11 DEF Do

\* In any adventure that leaves flag 1 to the condacts that count, it is how many
\* objects are held (carrying, objects.go:197).
THEOREM CarriedFlagIsKept ==
    ASSUME AllFlags, CondactsComplete
    PROVE  WorldSpec => []CarriedFlagKept
<1> DEFINE CountInv == CountsFaithfully(db) => Counted(loc)
<1>1. WorldInit => CountInv
    <2> SUFFICES ASSUME WorldInit, CountsFaithfully(db)
                 PROVE  Counted(loc)
        OBVIOUS
    <2>1. {o \in DOMAIN loc : loc[o] = LocCarried} = {}
        BY DEF WorldInit, InitialPlaces, CountsFaithfully
    <2>2. Carrying(loc) = 0
        BY <2>1, FS_EmptySet DEF Carrying
    <2>3. flags[FlagCarried] = 0 /\ flags[FlagPlayer] = 0
        BY CountFlags DEF WorldInit
    <2> QED  BY <2>2, <2>3 DEF Counted, LocCarried
<1>2. WorldTypeOK /\ CountInv /\ [WorldNext]_<<db, world>> => CountInv'
    <2> SUFFICES ASSUME WorldTypeOK, CountInv, [WorldNext]_<<db, world>>, CountsFaithfully(db)'
                 PROVE  Counted(loc)'
        OBVIOUS
    <2>1. db' = db
        BY DEF WorldNext, Do
    <2>2. CountsFaithfully(db) /\ Counted(loc)
        BY <2>1
    <2>3. CASE WorldNext
        BY <2>2, <2>3, DoCounts DEF WorldNext, Counted
    <2>4. CASE UNCHANGED <<db, world>>
        BY <2>2, <2>4 DEF world, Counted
    <2> QED  BY <2>3, <2>4
<1>3. CountInv => CarriedFlagKept
    BY DEF CarriedFlagKept, Counted
<1>4. WorldSpec => []WorldTypeOK
    BY WorldTypes
<1> HIDE DEF CountInv
<1> QED  BY <1>1, <1>2, <1>3, <1>4, PTL DEF WorldSpec
-----------------------------------------------------------------------------
\* What things weigh.  WeightAt is worked out from the innermost level outwards; a
\* thing's weight, with what is inside it down to so many levels, is proved for one
\* level more and one more, and the top level is the one that is asked for.

\* Everything in a place weighs nothing at the level that is not looked into, and at
\* each level above what the things in it weigh, looked into one level less.
LEMMA WeightByLevels ==
    /\ \A where \in Byte : WeightAt[MaxNesting][where] = 0
    /\ \A d \in 0..(MaxNesting - 1) : \A where \in Byte :
         WeightAt[d][where] =
           Capped(SumFunction([i \in ObjectsAt(where) |-> WeighOne(i, WeightAt[d + 1][i])]))
<1> DEFINE Nought == [where \in Byte |-> 0]
           Level(v) == [where \in Byte |->
                          Capped(SumFunction([i \in ObjectsAt(where) |-> WeighOne(i, v[i])]))]
           Body(g) == [d \in 0..MaxNesting |-> IF d = MaxNesting THEN Nought ELSE Level(g[d + 1])]
           Known(n) == (MaxNesting - n)..MaxNesting
           Obeys(g, n) == g = [d \in Known(n) |-> IF d = MaxNesting THEN Nought ELSE Level(g[d + 1])]
           Depths == {n \in Nat : \E g : Obeys(g, n)}
<1>1. MaxNesting \in Nat /\ MaxNesting >= 1
    BY WorldAssumption
<1> DEFINE Written(g) == [depth \in 0..MaxNesting |->
                            [where \in Byte |->
                               IF depth = MaxNesting THEN 0
                               ELSE Capped(SumFunction([i \in ObjectsAt(where) |->
                                                          WeighOne(i, g[depth + 1][i])]))]]
<1>2. ASSUME NEW g
      PROVE  Written(g) = Body(g)
    <2> SUFFICES ASSUME NEW d \in 0..MaxNesting
                 PROVE  [where \in Byte |->
                           IF d = MaxNesting THEN 0
                           ELSE Capped(SumFunction([i \in ObjectsAt(where) |-> WeighOne(i, g[d + 1][i])]))]
                        = IF d = MaxNesting THEN Nought ELSE Level(g[d + 1])
        OBVIOUS
    <2>1. CASE d = MaxNesting
        BY <2>1
    <2>2. CASE d # MaxNesting
        BY <2>2
    <2> QED  BY <2>1, <2>2
<1>3. WeightAt = CHOOSE g : g = Written(g)
    BY DEF WeightAt
<1> HIDE DEF Nought, Level
<1>4. \E g : Obeys(g, 0)
    <2>1. Obeys([d \in {MaxNesting} |-> Nought], 0)
        BY <1>1
    <2> QED  BY <2>1
<1>5. ASSUME NEW n \in Nat, NEW g, Obeys(g, n)
      PROVE  \E h : Obeys(h, n + 1)
    <2>1. PICK h : h = [d \in Known(n + 1) |-> IF d = MaxNesting THEN Nought ELSE Level(g[d + 1])]
        OBVIOUS
    <2>2. \A d \in Known(n) : d \in Known(n + 1) /\ h[d] = g[d]
        BY <1>1, <1>5, <2>1
    <2>3. \A d \in Known(n + 1) : d # MaxNesting => h[d + 1] = g[d + 1]
        BY <1>1, <2>2
    <2>4. Obeys(h, n + 1)
        BY <2>1, <2>3
    <2> QED  BY <2>4
<1>6. MaxNesting \in Depths
    <2> HIDE DEF Obeys
    <2>1. 0 \in Depths
        BY <1>4
    <2>2. \A n \in Nat : n \in Depths => n + 1 \in Depths
        BY <1>5
    <2> HIDE DEF Depths
    <2> QED  BY <1>1, <2>1, <2>2, NumbersInduction
<1>7. \E g : g = Body(g)
    BY <1>1, <1>6
<1>8. WeightAt = Body(WeightAt)
    <2> HIDE DEF Body, Written
    <2>1. \E g : g = Written(g)
        BY <1>2, <1>7
    <2>2. WeightAt = Written(WeightAt)
        BY <1>3, <2>1
    <2> QED  BY <1>2, <2>2
<1>9. /\ WeightAt[MaxNesting] = Nought
      /\ \A d \in 0..(MaxNesting - 1) : WeightAt[d] = Level(WeightAt[d + 1])
    BY <1>1, <1>8
<1> USE DEF Nought, Level
<1> QED  BY <1>9

\* What is inside a thing, itself counted, down to n levels.
Near(o, n) == {i \in Objects : \E s \in 0..n : InsideIn(i, o, s)}
NeverInsideItself == \A o \in Objects : ~Inside(o, o)

\* Each place of the chain p, n steps long, is where the one before it is.
Follows(p, n) == \A k \in 1..n : loc[p[k - 1]] = p[k]
Same(p, q, n) == \A k \in 0..n : p[k] = q[k]

\* A chain of places has one place at each step, for a thing is in one place: of two
\* chains from the same thing one is the beginning of the other.
LEMMA ChainsAgree ==
    ASSUME NEW p, NEW q, p[0] = q[0], NEW r \in Nat, Follows(p, r),
           NEW s \in Nat, Follows(q, s), r <= s
    PROVE  Same(p, q, r)
<1> DEFINE Agree == {k \in Nat : k <= r => p[k] = q[k]}
<1>1. 0 \in Agree
    OBVIOUS
<1>2. ASSUME NEW k \in Nat, k \in Agree
      PROVE  k + 1 \in Agree
    <2> SUFFICES ASSUME k + 1 <= r PROVE p[k + 1] = q[k + 1]
        OBVIOUS
    <2>1. k + 1 \in 1..r /\ k + 1 \in 1..s /\ (k + 1) - 1 = k
        OBVIOUS
    <2>2. p[k] = q[k]
        BY <1>2
    <2> QED  BY <2>1, <2>2 DEF Follows
<1>3. Nat \subseteq Agree
    <2> HIDE DEF Agree
    <2> QED  BY <1>1, <1>2, NumbersInduction
<1> QED  BY <1>3 DEF Same

\* A thing is inside itself in no step, and what is in it is inside it in one step
\* more than inside what holds it.
LEMMA NoStep ==
    ASSUME NEW i \in Objects, NEW o
    PROVE  InsideIn(i, o, 0) <=> i = o
<1>1. ASSUME i = o
      PROVE  InsideIn(i, o, 0)
    <2>1. PICK p \in [0..0 -> Objects] : p = [k \in 0..0 |-> i]
        OBVIOUS
    <2>2. p[0] = i /\ 1..0 = {}
        BY <2>1
    <2> QED  BY <1>1, <2>2 DEF InsideIn
<1>2. InsideIn(i, o, 0) => i = o
    BY DEF InsideIn
<1> QED  BY <1>1, <1>2

LEMMA OneStepMore ==
    ASSUME NEW i \in Objects, NEW o \in Objects, NEW s \in Nat
    PROVE  InsideIn(i, o, s + 1) <=> Opens(o) /\ \E j \in ObjectsAt(o) : InsideIn(i, j, s)
<1>1. ASSUME InsideIn(i, o, s + 1)
      PROVE  Opens(o) /\ \E j \in ObjectsAt(o) : InsideIn(i, j, s)
    <2>1. PICK p \in [0..(s + 1) -> Objects] :
             /\ p[0] = i /\ p[s + 1] = o
             /\ \A k \in 1..(s + 1) : loc[p[k - 1]] = p[k] /\ Opens(p[k])
        BY <1>1 DEF InsideIn
    <2>2. PICK q : q = [k \in 0..s |-> p[k]]
        OBVIOUS
    <2>3. q \in [0..s -> Objects] /\ q[0] = i /\ q[s] = p[s]
        BY <2>1, <2>2
    <2>4. \A k \in 1..s : loc[q[k - 1]] = q[k] /\ Opens(q[k])
        BY <2>1, <2>2
    <2>5. InsideIn(i, p[s], s)
        BY <2>3, <2>4 DEF InsideIn
    <2>6. loc[p[s]] = o /\ p[s] \in Objects /\ Opens(o)
        <3>1. s + 1 \in 1..(s + 1) /\ (s + 1) - 1 = s /\ s \in 0..(s + 1)
            OBVIOUS
        <3> QED  BY <2>1, <3>1
    <2> QED  BY <2>5, <2>6 DEF ObjectsAt
<1>2. ASSUME Opens(o), NEW j \in ObjectsAt(o), InsideIn(i, j, s)
      PROVE  InsideIn(i, o, s + 1)
    <2>1. PICK q \in [0..s -> Objects] :
             /\ q[0] = i /\ q[s] = j
             /\ \A k \in 1..s : loc[q[k - 1]] = q[k] /\ Opens(q[k])
        BY <1>2 DEF InsideIn
    <2>2. PICK p : p = [k \in 0..(s + 1) |-> IF k = s + 1 THEN o ELSE q[k]]
        OBVIOUS
    <2>3. p \in [0..(s + 1) -> Objects] /\ p[0] = i /\ p[s + 1] = o /\ p[s] = j
        BY <2>1, <2>2
    <2>4. ASSUME NEW k \in 1..(s + 1)
          PROVE  loc[p[k - 1]] = p[k] /\ Opens(p[k])
        <3>1. CASE k = s + 1
            BY <1>2, <2>3, <3>1 DEF ObjectsAt
        <3>2. CASE k \in 1..s
            BY <2>1, <2>2, <3>2
        <3> QED  BY <3>1, <3>2
    <2> QED  BY <2>3, <2>4 DEF InsideIn
<1> QED  BY <1>1, <1>2

\* Near a thing at nought levels is the thing; at one more, for a thing that shows
\* what is in it, the thing and what is near the things in it.
LEMMA NearLevels ==
    ASSUME NEW o \in Objects
    PROVE  /\ Near(o, 0) = {o}
           /\ ~Opens(o) => \A n \in Nat : Near(o, n) = {o}
           /\ Opens(o) => \A n \in Nat :
                Near(o, n + 1) = {o} \cup UNION {Near(j, n) : j \in ObjectsAt(o)}
<1>1. Near(o, 0) = {o}
    BY NoStep DEF Near
<1>2. ASSUME NEW n \in Nat, NEW i
      PROVE  i \in Near(o, n) <=> i \in Objects /\ (i = o \/ \E s \in 0..(n - 1) : InsideIn(i, o, s + 1))
    <2>1. \A s \in 0..n : s = 0 \/ (s - 1 \in 0..(n - 1) /\ s = (s - 1) + 1)
        OBVIOUS
    <2>2. \A s \in 0..(n - 1) : s + 1 \in 0..n
        OBVIOUS
    <2>3. 0 \in 0..n
        OBVIOUS
    <2> QED  BY <2>1, <2>2, <2>3, NoStep DEF Near
<1>3. ASSUME ~Opens(o), NEW n \in Nat
      PROVE  Near(o, n) = {o}
    <2>1. \A s \in 0..(n - 1) : s \in Nat
        OBVIOUS
    <2> QED  BY <1>2, <1>3, <2>1, OneStepMore
<1>4. ASSUME Opens(o), NEW n \in Nat
      PROVE  Near(o, n + 1) = {o} \cup UNION {Near(j, n) : j \in ObjectsAt(o)}
    <2>1. n + 1 \in Nat /\ (n + 1) - 1 = n /\ \A s \in 0..n : s \in Nat
        OBVIOUS
    <2>2. ASSUME NEW i \in Objects
          PROVE  i \in Near(o, n + 1) <=> (i = o \/ \E j \in ObjectsAt(o) : i \in Near(j, n))
        <3>1. i \in Near(o, n + 1) <=> (i = o \/ \E s \in 0..n : InsideIn(i, o, s + 1))
            BY <1>2, <2>1
        <3>2. \A s \in 0..n : InsideIn(i, o, s + 1) <=> \E j \in ObjectsAt(o) : InsideIn(i, j, s)
            BY <1>4, <2>1, OneStepMore
        <3> QED  BY <3>1, <3>2 DEF Near
    <2>3. Near(o, n + 1) \subseteq Objects /\ \A j : Near(j, n) \subseteq Objects
        BY DEF Near
    <2> QED  BY <2>2, <2>3
<1> QED  BY <1>1, <1>3, <1>4

\* All that is inside a thing is what is near it at the deepest level looked into.
LEMMA AllIsNear ==
    ASSUME NEW o \in Objects
    PROVE  WithAllInside(o) = Near(o, MaxNesting - 1)
<1>1. MaxNesting \in Nat /\ MaxNesting >= 1
    BY WorldAssumption
<1>2. \A s \in 0..(MaxNesting - 1) : s = 0 \/ s \in 1..(MaxNesting - 1)
    BY <1>1
<1>3. 0 \in 0..(MaxNesting - 1) /\ 1..(MaxNesting - 1) \subseteq 0..(MaxNesting - 1)
    BY <1>1
<1> QED  BY <1>2, <1>3, NoStep DEF WithAllInside, Inside, Near

\* Where nothing is inside itself, nothing is near two of the things in one place,
\* nor is what holds them near any of them.
LEMMA NearApart ==
    ASSUME NeverInsideItself, NEW n \in Nat, n + 1 <= MaxNesting - 1,
           NEW o \in Objects, Opens(o), NEW j \in ObjectsAt(o)
    PROVE  /\ o \notin Near(j, n)
           /\ \A k \in ObjectsAt(o) : j # k => Near(j, n) \cap Near(k, n) = {}
<1>1. MaxNesting \in Nat
    BY WorldAssumption
<1>2. ASSUME NEW s \in 0..n, NEW k \in ObjectsAt(o), InsideIn(o, k, s)
      PROVE  FALSE
    <2>1. InsideIn(o, o, s + 1)
        BY <1>2, OneStepMore
    <2>2. s + 1 \in 1..(MaxNesting - 1)
        BY <1>1
    <2> QED  BY <2>1, <2>2 DEF NeverInsideItself, Inside
<1>3. ASSUME NEW i \in Objects, NEW j1 \in ObjectsAt(o), NEW j2 \in ObjectsAt(o),
             NEW r \in 0..n, NEW s \in 0..n, r <= s, InsideIn(i, j1, r), InsideIn(i, j2, s)
      PROVE  j1 = j2
    <2>1. PICK p \in [0..r -> Objects] :
             /\ p[0] = i /\ p[r] = j1
             /\ \A k \in 1..r : loc[p[k - 1]] = p[k] /\ Opens(p[k])
        BY <1>3 DEF InsideIn
    <2>2. PICK q \in [0..s -> Objects] :
             /\ q[0] = i /\ q[s] = j2
             /\ \A k \in 1..s : loc[q[k - 1]] = q[k] /\ Opens(q[k])
        BY <1>3 DEF InsideIn
    <2>3. \A k \in 0..r : p[k] = q[k]
        <3>1. r \in Nat /\ s \in Nat /\ p[0] = q[0]
            BY <2>1, <2>2
        <3>2. Follows(p, r) /\ Follows(q, s)
            BY <2>1, <2>2 DEF Follows
        <3>3. Same(p, q, r)
            BY <1>3, <3>1, <3>2, ChainsAgree
        <3> QED  BY <3>3 DEF Same
    <2>4. q[r] = j1
        BY <2>1, <2>3
    <2>5. CASE r = s
        BY <2>2, <2>4, <2>5
    <2>6. CASE r < s
        <3>1. r + 1 \in 1..s /\ (r + 1) - 1 = r
            BY <2>6
        <3>2. q[r + 1] = o
            BY <2>2, <2>4, <3>1 DEF ObjectsAt
        <3>3. PICK t : t = s - (r + 1)
            OBVIOUS
        <3>4. t \in 0..n /\ (r + 1) + t = s /\ (r + 1) + 0 = r + 1 /\ 0 \in 0..t /\ t \in 0..t
            BY <2>6, <3>3
        <3>5. PICK c : c = [k \in 0..t |-> q[(r + 1) + k]]
            OBVIOUS
        <3>6. \A k \in 0..t : (r + 1) + k \in 0..s
            BY <3>4
        <3>7. c \in [0..t -> Objects] /\ c[0] = o /\ c[t] = j2
            <4>1. c \in [0..t -> Objects]
                BY <2>2, <3>5, <3>6
            <4>2. c[0] = q[(r + 1) + 0] /\ c[t] = q[(r + 1) + t]
                BY <3>4, <3>5
            <4> QED  BY <2>2, <3>2, <3>4, <4>1, <4>2
        <3>8. ASSUME NEW k \in 1..t
              PROVE  loc[c[k - 1]] = c[k] /\ Opens(c[k])
            <4>1. (r + 1) + k \in 1..s /\ ((r + 1) + k) - 1 = (r + 1) + (k - 1)
                BY <3>4
            <4>2. c[k] = q[(r + 1) + k] /\ c[k - 1] = q[(r + 1) + (k - 1)]
                <5>1. k \in 0..t /\ k - 1 \in 0..t
                    BY <3>4
                <5> QED  BY <3>5, <5>1
            <4> QED  BY <2>2, <4>1, <4>2
        <3>9. InsideIn(o, j2, t)
            BY <3>7, <3>8 DEF InsideIn
        <3> QED  BY <1>2, <3>4, <3>9
    <2> QED  BY <1>3, <2>5, <2>6
<1>4. o \notin Near(j, n)
    BY <1>2 DEF Near
<1>5. ASSUME NEW k \in ObjectsAt(o), NEW i \in Near(j, n) \cap Near(k, n)
      PROVE  j = k
    <2>1. PICK r \in 0..n, s \in 0..n : i \in Objects /\ InsideIn(i, j, r) /\ InsideIn(i, k, s)
        BY <1>5 DEF Near
    <2>2. r <= s \/ s <= r
        OBVIOUS
    <2> QED  BY <1>3, <2>1, <2>2
<1> QED  BY <1>4, <1>5

\* The weights of things, of what is near one, and what one is found to weigh when it
\* is looked into n levels.
Weights == [o \in Objects |-> Data(o).weight]
NearWeight(o, n) == SumFunctionOnSet(Weights, Near(o, n))
Found(o, n) == WeighOne(o, WeightAt[MaxNesting - n][o])

\* They are numbers.
LEMMA WeightNumbers ==
    ASSUME db \in Databases
    PROVE  /\ IsFiniteSet(Objects) /\ Objects \subseteq Byte
           /\ \A o \in Objects : Weights[o] \in Nat /\ Weights[o] = Data(o).weight /\ Data(o).weight \in Byte
           /\ \A w \in Nat : Capped(w) \in Nat /\ Capped(w) = IF w > 255 THEN 255 ELSE w
           /\ \A o \in Objects : \A n : IsFiniteSet(Near(o, n)) /\ NearWeight(o, n) \in Nat
           /\ \A o \in Objects : \A n : Found(o, n) \in Nat
<1>1. IsFiniteSet(Objects) /\ Objects \subseteq Byte
    BY ObjectsAreBytes
<1>2. \A o \in Objects : Weights[o] = Data(o).weight /\ Data(o).weight \in Byte
    BY DataType DEF Weights, ObjectData
<1>3. \A w \in Nat : Capped(w) \in Nat /\ Capped(w) = IF w > 255 THEN 255 ELSE w
    BY DEF Capped, Byte
<1>4. \A o \in Objects : Weights[o] \in Nat
    BY <1>2 DEF Byte
<1>5. ASSUME NEW o \in Objects, NEW n
      PROVE  IsFiniteSet(Near(o, n)) /\ NearWeight(o, n) \in Nat
    <2>1. Near(o, n) \subseteq Objects
        BY DEF Near
    <2>2. IsFiniteSet(Near(o, n)) /\ \A i \in Near(o, n) : Weights[i] \in Nat
        BY <1>1, <1>4, <2>1, FS_Subset
    <2> QED  BY <2>2, SumType DEF NearWeight
<1>6. ASSUME NEW o \in Objects, NEW n
      PROVE  Found(o, n) \in Nat
    <2>1. Found(o, n) \in Byte
        BY <1>2, CappedType DEF Found, WeighOne
    <2> QED  BY <2>1 DEF Byte
<1> QED  BY <1>1, <1>2, <1>3, <1>4, <1>5, <1>6

\* What a container that shows what is in it is found to weigh, looked into one level
\* more.
LEMMA FoundLevels ==
    ASSUME db \in Databases, NEW n \in Nat, n + 1 <= MaxNesting - 1,
           NEW o \in Objects, Opens(o), NEW found, \A j \in ObjectsAt(o) : found[j] = Found(j, n)
    PROVE  Found(o, n + 1) = Capped(Weights[o] + Capped(SumFunctionOnSet(found, ObjectsAt(o))))
<1>1. MaxNesting \in Nat /\ o \in Byte
    BY WorldAssumption, WeightNumbers
<1>2. /\ MaxNesting - (n + 1) \in 0..(MaxNesting - 1)
      /\ (MaxNesting - (n + 1)) + 1 = MaxNesting - n
    BY <1>1
<1>3. PICK these : these = [i \in ObjectsAt(o) |-> WeighOne(i, WeightAt[MaxNesting - n][i])]
    OBVIOUS
<1>4. WeightAt[MaxNesting - (n + 1)][o] = Capped(SumFunction(these))
    <2>1. PICK d : d = MaxNesting - (n + 1)
        OBVIOUS
    <2>2. WeightAt[d][o] = Capped(SumFunction([i \in ObjectsAt(o) |-> WeighOne(i, WeightAt[d + 1][i])]))
        BY <1>1, <1>2, <2>1, WeightByLevels
    <2> QED  BY <1>2, <1>3, <2>1, <2>2
<1>5. SumFunction(these) = SumFunctionOnSet(these, ObjectsAt(o))
    BY <1>3 DEF SumFunction, SumFunctionOnSet, FoldFunction
<1>6. SumFunctionOnSet(these, ObjectsAt(o)) = SumFunctionOnSet(found, ObjectsAt(o))
    <2>1. ObjectsAt(o) \subseteq Objects
        BY DEF ObjectsAt
    <2>2. IsFiniteSet(ObjectsAt(o)) /\ \A j \in ObjectsAt(o) : these[j] = found[j] /\ these[j] \in Nat
        BY <1>3, <2>1, WeightNumbers, FS_Subset DEF Found
    <2> QED  BY <2>2, SumSame
<1>7. Weights[o] = Data(o).weight
    BY WeightNumbers
<1> QED  BY <1>4, <1>5, <1>6, <1>7 DEF Found, WeighOne, Opens

\* What is near it, one level more, is no more than its own weight and what is near
\* each thing in it together, and just that where nothing is inside itself.
LEMMA NearWeightLevels ==
    ASSUME db \in Databases, NEW n \in Nat, n + 1 <= MaxNesting - 1,
           NEW o \in Objects, Opens(o), NEW near, \A j \in ObjectsAt(o) : near[j] = NearWeight(j, n)
    PROVE  /\ NearWeight(o, n + 1) <= Weights[o] + SumFunctionOnSet(near, ObjectsAt(o))
           /\ NeverInsideItself =>
                NearWeight(o, n + 1) = Weights[o] + SumFunctionOnSet(near, ObjectsAt(o))
<1>1. PICK I : I = ObjectsAt(o)
    OBVIOUS
<1>2. PICK J : J = [j \in I |-> Near(j, n)]
    OBVIOUS
<1>3. I \subseteq Objects /\ IsFiniteSet(I)
    <2>1. I \subseteq Objects
        BY <1>1 DEF ObjectsAt
    <2> QED  BY <2>1, WeightNumbers, FS_Subset
<1>4. PICK U : U = UNION {J[j] : j \in I}
    OBVIOUS
<1>5. /\ \A j \in I : J[j] \subseteq Objects /\ IsFiniteSet(J[j])
      /\ \A j \in I : \A x \in J[j] : Weights[x] \in Nat
      /\ \A j \in I : near[j] = SumFunctionOnSet(Weights, J[j])
    <2> SUFFICES ASSUME NEW j \in I
                 PROVE  /\ J[j] \subseteq Objects /\ IsFiniteSet(J[j])
                        /\ \A x \in J[j] : Weights[x] \in Nat
                        /\ near[j] = SumFunctionOnSet(Weights, J[j])
        OBVIOUS
    <2>1. J[j] = Near(j, n) /\ Near(j, n) \subseteq Objects /\ j \in Objects
        BY <1>2, <1>3 DEF Near
    <2>2. IsFiniteSet(Near(j, n)) /\ \A x \in Objects : Weights[x] \in Nat
        BY <2>1, WeightNumbers
    <2>3. near[j] = SumFunctionOnSet(Weights, Near(j, n))
        BY <1>1 DEF NearWeight
    <2> QED  BY <2>1, <2>2, <2>3
<1>6. /\ IsFiniteSet(U)
      /\ SumFunctionOnSet(Weights, U) <= SumFunctionOnSet(near, I)
      /\ (\A i, j \in I : i # j => J[i] \cap J[j] = {}) =>
           SumFunctionOnSet(Weights, U) = SumFunctionOnSet(near, I)
    <2>1. \A j \in I : IsFiniteSet(J[j])
        BY <1>5
    <2>2. \A j \in I : \A x \in J[j] : Weights[x] \in Nat
        BY <1>5
    <2>3. \A j \in I : near[j] = SumFunctionOnSet(Weights, J[j])
        BY <1>5
    <2> QED  BY <1>3, <1>4, <2>1, <2>2, <2>3, SumFamily
<1>7. U \subseteq Objects
    BY <1>4, <1>5
<1>8. Near(o, n + 1) = {o} \cup U
    <2>1. U = UNION {Near(j, n) : j \in ObjectsAt(o)}
        BY <1>1, <1>2, <1>4
    <2> QED  BY <2>1, NearLevels
<1>9. /\ IsFiniteSet({o}) /\ \A x \in {o} \cup U : Weights[x] \in Nat
      /\ SumFunctionOnSet(Weights, {o}) = Weights[o]
    <2>1. IsFiniteSet({o}) /\ IsFiniteSet({})
        BY FS_Singleton, FS_EmptySet
    <2>2. \A x \in {o} \cup U : Weights[x] \in Nat
        BY <1>7, WeightNumbers
    <2>3. SumFunctionOnSet(Weights, {o}) = SumFunctionOnSet(Weights, {}) + Weights[o]
        <3>1. {o} = {} \cup {o}
            OBVIOUS
        <3>2. SumFunctionOnSet(Weights, {} \cup {o}) = SumFunctionOnSet(Weights, {}) + Weights[o]
            BY <2>1, <2>2, SumAdd
        <3> QED  BY <3>1, <3>2
    <2> QED  BY <2>1, <2>2, <2>3, SumOfNone
<1>10. /\ NearWeight(o, n + 1) <= Weights[o] + SumFunctionOnSet(Weights, U)
       /\ {o} \cap U = {} => NearWeight(o, n + 1) = Weights[o] + SumFunctionOnSet(Weights, U)
    BY <1>6, <1>8, <1>9, SumUnion DEF NearWeight
<1>11. ASSUME NeverInsideItself
       PROVE  {o} \cap U = {} /\ \A i, j \in I : i # j => J[i] \cap J[j] = {}
    <2>1. \A j \in I : o \notin J[j]
        BY <1>1, <1>2, <1>11, NearApart
    <2>2. \A i, j \in I : i # j => J[i] \cap J[j] = {}
        BY <1>1, <1>2, <1>11, NearApart
    <2> QED  BY <1>4, <2>1, <2>2
<1>12. Weights[o] \in Nat /\ NearWeight(o, n + 1) \in Nat
    BY WeightNumbers
<1>13. SumFunctionOnSet(Weights, U) \in Nat /\ SumFunctionOnSet(near, I) \in Nat
    <2>1. \A x \in U : Weights[x] \in Nat
        BY <1>9
    <2>2. \A j \in I : near[j] \in Nat
        BY <1>5, SumType
    <2> QED  BY <1>3, <1>6, <2>1, <2>2, SumType
<1> QED  BY <1>1, <1>6, <1>10, <1>11, <1>12, <1>13

\* Looked into n levels, a thing is found to weigh no less than what is near it, cut
\* at a byte, and just that where nothing is inside itself.
LEMMA FoundIsNear ==
    ASSUME db \in Databases, NEW n \in 0..(MaxNesting - 1), NEW o \in Objects
    PROVE  /\ Found(o, n) >= Capped(NearWeight(o, n))
           /\ NeverInsideItself => Found(o, n) = Capped(NearWeight(o, n))
<1> DEFINE Right(x, m) == /\ Found(x, m) >= Capped(NearWeight(x, m))
                          /\ NeverInsideItself => Found(x, m) = Capped(NearWeight(x, m))
           Good == {m \in Nat : m <= MaxNesting - 1 => \A x \in Objects : Right(x, m)}
<1>1. MaxNesting \in Nat
    BY WorldAssumption
<1>2. ASSUME NEW x \in Objects, NEW m, Near(x, m) = {x}
      PROVE  NearWeight(x, m) = Data(x).weight
    <2>1. {x} = {} \cup {x} /\ IsFiniteSet({})
        BY FS_EmptySet
    <2>2. Weights[x] \in Nat /\ Weights[x] = Data(x).weight
        BY WeightNumbers
    <2>3. SumFunctionOnSet(Weights, {} \cup {x}) = SumFunctionOnSet(Weights, {}) + Weights[x]
        BY <2>1, <2>2, SumAdd
    <2> QED  BY <1>2, <2>1, <2>2, <2>3, SumOfNone DEF NearWeight
<1>3. ASSUME NEW x \in Objects, NEW m, Near(x, m) = {x}, Found(x, m) = Capped(Data(x).weight)
      PROVE  Right(x, m)
    BY <1>2, <1>3, WeightNumbers
<1>4. ASSUME NEW x \in Objects
      PROVE  /\ Found(x, 0) = Capped(Data(x).weight)
             /\ ~Opens(x) => \A m : Found(x, m) = Capped(Data(x).weight)
    <2>1. MaxNesting - 0 = MaxNesting /\ x \in Byte
        BY <1>1, WeightNumbers
    <2>2. WeightAt[MaxNesting][x] = 0
        BY <2>1, WeightByLevels
    <2>3. Capped(Data(x).weight) = Data(x).weight /\ Data(x).weight + 0 = Data(x).weight
        BY WeightNumbers DEF Capped, Byte
    <2> QED  BY <2>1, <2>2, <2>3 DEF Found, WeighOne, Opens
<1>5. 0 \in Good
    BY <1>3, <1>4, NearLevels
<1>6. ASSUME NEW m \in Nat, m + 1 <= MaxNesting - 1, NEW x \in Objects, Opens(x),
             \A j \in Objects : Right(j, m)
      PROVE  Right(x, m + 1)
    <2>1. PICK I : I = ObjectsAt(x)
        OBVIOUS
    <2>2. I \subseteq Objects /\ IsFiniteSet(I)
        <3>1. I \subseteq Objects
            BY <2>1 DEF ObjectsAt
        <3> QED  BY <3>1, WeightNumbers, FS_Subset
    <2>3. PICK near : near = [j \in I |-> NearWeight(j, m)]
        OBVIOUS
    <2>4. PICK cut : cut = [j \in I |-> IF near[j] > 255 THEN 255 ELSE near[j]]
        OBVIOUS
    <2>5. PICK found : found = [j \in I |-> Found(j, m)]
        OBVIOUS
    <2>6. \A j \in I : /\ near[j] \in Nat /\ cut[j] \in Nat /\ found[j] \in Nat
                       /\ cut[j] = IF near[j] > 255 THEN 255 ELSE near[j]
                       /\ cut[j] <= found[j]
                       /\ NeverInsideItself => found[j] = cut[j]
        <3>1. ASSUME NEW j \in I
              PROVE  /\ near[j] \in Nat /\ found[j] \in Nat
                     /\ cut[j] = Capped(near[j]) /\ cut[j] \in Nat
                     /\ near[j] = NearWeight(j, m) /\ found[j] = Found(j, m)
                     /\ cut[j] = IF near[j] > 255 THEN 255 ELSE near[j]
            BY <2>2, <2>3, <2>4, <2>5, WeightNumbers
        <3>2. \A j \in I : found[j] >= cut[j] /\ (NeverInsideItself => found[j] = cut[j])
            BY <1>6, <2>2, <3>1
        <3> QED  BY <3>1, <3>2
    <2> DEFINE N == SumFunctionOnSet(near, I)
               C == SumFunctionOnSet(cut, I)
               F == SumFunctionOnSet(found, I)
               w == Weights[x]
               whole == NearWeight(x, m + 1)
    <2>7. N \in Nat /\ C \in Nat /\ F \in Nat /\ w \in Nat /\ whole \in Nat
        BY <2>2, <2>6, SumType, WeightNumbers
    <2>8. N = C \/ (N > 255 /\ C >= 255)
        BY <2>2, <2>4, <2>6, SumOfCut
    <2>9. C <= F
        BY <2>2, <2>6, SumLess
    <2>10. NeverInsideItself => C = F
        BY <2>2, <2>6, SumSame
    <2>11. Found(x, m + 1) = Capped(w + Capped(F))
        BY <1>6, <2>1, <2>5, FoundLevels
    <2>12. whole <= w + N /\ (NeverInsideItself => whole = w + N)
        BY <1>6, <2>1, <2>3, NearWeightLevels
    <2>13. \A v \in Nat : Capped(v) \in Nat /\ Capped(v) = IF v > 255 THEN 255 ELSE v
        BY WeightNumbers
    <2>14. PICK f : f = Found(x, m + 1)
        OBVIOUS
    <2>15. f = IF w + (IF F > 255 THEN 255 ELSE F) > 255 THEN 255
               ELSE w + (IF F > 255 THEN 255 ELSE F)
        <3> HIDE DEF F, w
        <3>1. Capped(F) \in Nat /\ Capped(F) = IF F > 255 THEN 255 ELSE F
            BY <2>7, <2>13
        <3>2. w + Capped(F) \in Nat
            BY <2>7, <3>1
        <3> QED  BY <2>11, <2>13, <2>14, <3>1, <3>2
    <2>16. Capped(whole) = IF whole > 255 THEN 255 ELSE whole
        BY <2>7, <2>13
    <2>17. f >= Capped(whole) /\ (NeverInsideItself => f = Capped(whole))
        <3> HIDE DEF N, C, F, w, whole
        <3> QED  BY <2>7, <2>8, <2>9, <2>10, <2>12, <2>15, <2>16
    <2> QED  BY <2>14, <2>17
<1>7. ASSUME NEW m \in Nat, m \in Good
      PROVE  m + 1 \in Good
    <2> SUFFICES ASSUME m + 1 <= MaxNesting - 1, NEW x \in Objects
                 PROVE  Right(x, m + 1)
        OBVIOUS
    <2>1. m + 1 \in Nat /\ \A j \in Objects : Right(j, m)
        BY <1>1, <1>7
    <2> HIDE DEF Right
    <2>2. CASE Opens(x)
        BY <1>6, <2>1, <2>2
    <2>3. CASE ~Opens(x)
        BY <1>3, <1>4, <2>1, <2>3, NearLevels
    <2> QED  BY <2>2, <2>3
<1>8. Nat \subseteq Good
    <2> HIDE DEF Good
    <2> QED  BY <1>5, <1>7, NumbersInduction
<1>9. n \in Nat /\ n <= MaxNesting - 1
    BY <1>1
<1>10. \A x \in Objects : Right(x, n)
    <2> HIDE DEF Right
    <2> QED  BY <1>8, <1>9
<1> QED  BY <1>10

\* What a thing weighs with all that is inside it, and what it is found to.
LEMMA ObjectWeighs ==
    ASSUME db \in Databases, NEW o \in Objects
    PROVE  /\ AllInside(o) = NearWeight(o, MaxNesting - 1)
           /\ AllInside(o) \in Nat /\ ObjectWeight(o) \in Nat
           /\ ObjectWeight(o) >= Capped(AllInside(o))
           /\ NeverInsideItself => ObjectWeight(o) = Capped(AllInside(o))
<1>1. MaxNesting \in Nat /\ MaxNesting >= 1
    BY WorldAssumption
<1>2. MaxNesting - 1 \in 0..(MaxNesting - 1) /\ MaxNesting - (MaxNesting - 1) = 1
    BY <1>1
<1>3. PICK S : S = WithAllInside(o)
    OBVIOUS
<1>4. S = Near(o, MaxNesting - 1)
    BY <1>3, AllIsNear
<1>5. PICK these : these = [i \in S |-> Data(i).weight]
    OBVIOUS
<1>6. AllInside(o) = SumFunctionOnSet(these, S)
    BY <1>3, <1>5 DEF AllInside, SumFunction, SumFunctionOnSet, FoldFunction
<1>7. IsFiniteSet(S) /\ S \subseteq Objects
    <2>1. S \subseteq Objects
        BY <1>4 DEF Near
    <2> QED  BY <1>4, <2>1, WeightNumbers
<1>8. SumFunctionOnSet(these, S) = SumFunctionOnSet(Weights, S)
    <2>1. \A i \in S : these[i] \in Nat /\ Weights[i] = these[i]
        BY <1>5, <1>7, WeightNumbers
    <2> QED  BY <1>7, <2>1, SumSame
<1>9. AllInside(o) = NearWeight(o, MaxNesting - 1)
    BY <1>4, <1>6, <1>8 DEF NearWeight
<1>10. ObjectWeight(o) = Found(o, MaxNesting - 1)
    BY <1>2 DEF ObjectWeight, Found
<1>11. Found(o, MaxNesting - 1) \in Nat /\ NearWeight(o, MaxNesting - 1) \in Nat
    BY WeightNumbers
<1> QED  BY <1>2, <1>9, <1>10, <1>11, FoundIsNear

\* The weight worked out level by level and cut at each is what is inside, cut once
\* (objectWeight, weighOne, weightAt).
THEOREM WeighedRight ==
    ASSUME AllFlags, CondactsComplete
    PROVE  WorldSpec => []WeightIsWhatIsInside
<1>1. ASSUME WorldTypeOK
      PROVE  WeightIsWhatIsInside
    <2> SUFFICES ASSUME NeverInsideItself, NEW o \in Objects
                 PROVE  ObjectWeight(o) = IF AllInside(o) > 255 THEN 255 ELSE AllInside(o)
        BY DEF WeightIsWhatIsInside, NeverInsideItself
    <2>1. db \in Databases
        BY <1>1 DEF WorldTypeOK
    <2> QED  BY <2>1, ObjectWeighs, WeightNumbers
<1> QED  BY <1>1, WorldTypes, PTL

-----------------------------------------------------------------------------
\* What GET and AUTOG pick up.

\* A thing picked up answered every question of GET, and nothing else moves.
LEMMA WhatIsTaken ==
    ASSUME NEW op \in {"GET", "AUTOG"}, NEW a, Do(op, a), loc' # loc
    PROVE  \E o : Takeable(o) /\ loc' = [loc EXCEPT ![o] = LocCarried] /\ db' = db
<1>1. Handle(op, a) /\ db' = db
    BY DEF Do, Test, Conditions, Chance, ChangeFlag, SetAt, Configure, Refer, Move, MovePlayer,
           Say, Picture, Nothing, Unused
<1>2. \E f, o : Get(f, o)
    BY <1>1 DEF Handle
<1>3. PICK f, o : Get(f, o)
    BY <1>2
<1> QED  BY <1>1, <1>3 DEF Get

\* One thing more in hand.
LEMMA OneMoreHeld ==
    ASSUME WorldTypeOK, NEW o, Takeable(o), loc' = [loc EXCEPT ![o] = LocCarried]
    PROVE  Carrying(loc') = Carrying(loc) + 1 /\ Carrying(loc) \in Nat
<1>1. o \in Objects /\ IsFiniteSet(Objects) /\ DOMAIN loc = Objects /\ DOMAIN loc' = Objects
    BY ObjectsAreBytes DEF WorldTypeOK, Takeable
<1>2. PICK held : held = {x \in Objects : loc[x] = LocCarried}
    OBVIOUS
<1>3. {x \in Objects : loc'[x] = LocCarried} = held \cup {o} /\ o \notin held
    BY <1>1, <1>2 DEF Takeable
<1>4. IsFiniteSet(held)
    BY <1>1, <1>2, FS_Subset
<1>5. Cardinality(held \cup {o}) = Cardinality(held) + 1 /\ Cardinality(held) \in Nat
    BY <1>3, <1>4, FS_AddElement, FS_CardinalityType
<1> QED  BY <1>1, <1>2, <1>3, <1>5 DEF Carrying

\* Nothing that was outside a thing gets inside it when another is picked up, unless
\* what is in hand is inside an object as well.
LEMMA NothingGetsInside ==
    ASSUME WorldTypeOK, NEW o, loc' = [loc EXCEPT ![o] = LocCarried], db' = db, ~HandsAreInside,
           NEW x \in Objects
    PROVE  /\ WithAllInside(x)' \subseteq WithAllInside(x)
           /\ \A i \in Objects : Data(i)' = Data(i)
           /\ Objects' = Objects
<1>1. Objects' = Objects /\ \A i : Data(i)' = Data(i) /\ Opens(i)' = Opens(i)
    BY DEF Objects, Data, Opens
<1>2. ASSUME NEW i \in Objects, NEW s \in Nat, InsideIn(i, x, s)'
      PROVE  InsideIn(i, x, s)
    <2>1. PICK p \in [0..s -> Objects] :
             /\ p[0] = i /\ p[s] = x
             /\ \A k \in 1..s : loc'[p[k - 1]] = p[k] /\ Opens(p[k])
        BY <1>1, <1>2 DEF InsideIn
    <2>2. ASSUME NEW k \in 1..s
          PROVE  loc[p[k - 1]] = p[k]
        <3>1. k - 1 \in 0..s /\ k \in 0..s
            OBVIOUS
        <3>2. p[k - 1] \in Objects /\ p[k] \in Objects /\ Opens(p[k]) /\ loc'[p[k - 1]] = p[k]
            BY <2>1, <3>1
        <3>3. p[k] # LocCarried
            BY <3>2 DEF HandsAreInside
        <3> QED  BY <3>2, <3>3 DEF WorldTypeOK
    <2> QED  BY <2>1, <2>2 DEF InsideIn
<1>3. \A s \in 1..(MaxNesting - 1) : s \in Nat
    BY WorldAssumption
<1> QED  BY <1>1, <1>2, <1>3 DEF WithAllInside, Inside

\* With all that is inside it, a thing weighs no more after another is picked up.
LEMMA NothingGetsHeavier ==
    ASSUME WorldTypeOK, WorldTypeOK', NEW o, loc' = [loc EXCEPT ![o] = LocCarried], db' = db,
           ~HandsAreInside, NEW x \in Objects
    PROVE  AllInside(x)' \in Nat /\ AllInside(x) \in Nat /\ AllInside(x)' <= AllInside(x)
<1>1. db \in Databases
    BY DEF WorldTypeOK
<1>2. PICK S : S = WithAllInside(x)
    OBVIOUS
<1>3. PICK R : R = WithAllInside(x)'
    OBVIOUS
<1>4. R \subseteq S /\ S \subseteq Objects /\ \A i \in Objects : Data(i)' = Data(i)
    BY <1>2, <1>3, NothingGetsInside, AllIsNear DEF Near
<1>5. \A i \in Objects : Weights[i] \in Nat /\ Weights[i] = Data(i).weight
    BY <1>1, WeightNumbers
<1>6. IsFiniteSet(S) /\ IsFiniteSet(R)
    BY <1>1, <1>4, WeightNumbers, FS_Subset
<1>7. PICK f : f = [i \in S |-> Data(i).weight]
    OBVIOUS
<1>8. PICK g : g = [i \in R |-> Data(i).weight]
    OBVIOUS
<1>9. AllInside(x) = SumFunctionOnSet(f, S)
    BY <1>2, <1>7 DEF AllInside, SumFunction, SumFunctionOnSet, FoldFunction
<1>10. AllInside(x)' = SumFunctionOnSet(g, R)
    <2>1. [i \in R |-> Data(i)'.weight] = g
        BY <1>4, <1>8
    <2>2. AllInside(x)' = SumFunction([i \in R |-> Data(i)'.weight])
        BY <1>3 DEF AllInside
    <2> QED  BY <1>8, <2>1, <2>2 DEF SumFunction, SumFunctionOnSet, FoldFunction
<1>11. \A i \in S : f[i] \in Nat
    BY <1>4, <1>5, <1>7
<1>12. \A i \in R : g[i] \in Nat /\ f[i] = g[i]
    BY <1>4, <1>5, <1>7, <1>8
<1>13. SumFunctionOnSet(g, R) = SumFunctionOnSet(f, R)
    BY <1>6, <1>12, SumSame
<1>14. SumFunctionOnSet(f, R) <= SumFunctionOnSet(f, S)
    BY <1>4, <1>6, <1>11, SumMore
<1>15. SumFunctionOnSet(f, S) \in Nat /\ SumFunctionOnSet(g, R) \in Nat
    BY <1>6, <1>11, <1>12, SumType
<1> QED  BY <1>9, <1>10, <1>13, <1>14, <1>15

\* What is found to weigh no more than a limit under 255, in hand and to be taken
\* together, weighs no more than that with all that is inside.
LEMMA NoWeightIsMissed ==
    ASSUME WorldTypeOK, NEW o, Takeable(o), NEW limit \in Nat, limit < 255,
           WeightCarried + ObjectWeight(o) <= limit,
           NEW all, \A x \in InHand \cup {o} : all[x] = AllInside(x)
    PROVE  SumFunctionOnSet(all, InHand \cup {o}) <= limit
<1>1. db \in Databases /\ o \in Objects /\ MaxNesting \in Nat /\ MaxNesting >= 1
    BY WorldAssumption DEF WorldTypeOK, Takeable
<1>2. LocCarried \in Byte /\ LocWorn \in Byte /\ LocCarried # LocWorn
    BY DEF LocCarried, LocWorn, Byte
<1>3. PICK found : found = [x \in Objects |-> ObjectWeight(x)]
    OBVIOUS
<1>4. \A x \in Objects : found[x] = ObjectWeight(x) /\ ObjectWeight(x) \in Nat /\ found[x] \in Nat
    BY <1>1, <1>3, ObjectWeighs
<1>5. \A where : ObjectsAt(where) \subseteq Objects /\ IsFiniteSet(ObjectsAt(where))
    <2>1. \A where : ObjectsAt(where) \subseteq Objects
        BY DEF ObjectsAt
    <2> QED  BY <1>1, <2>1, WeightNumbers, FS_Subset
<1>6. ASSUME NEW where \in Byte
      PROVE  WeightAt[0][where] = Capped(SumFunctionOnSet(found, ObjectsAt(where)))
    <2>1. PICK these : these = [i \in ObjectsAt(where) |-> WeighOne(i, WeightAt[1][i])]
        OBVIOUS
    <2>2. 0 \in 0..(MaxNesting - 1) /\ 0 + 1 = 1
        BY <1>1
    <2>3. WeightAt[0][where] = Capped(SumFunction(these))
        <3>1. PICK d : d = 0
            OBVIOUS
        <3>2. WeightAt[d][where] =
                Capped(SumFunction([i \in ObjectsAt(where) |-> WeighOne(i, WeightAt[d + 1][i])]))
            BY <1>6, <2>2, <3>1, WeightByLevels
        <3> QED  BY <2>1, <2>2, <3>1, <3>2
    <2>4. SumFunction(these) = SumFunctionOnSet(these, ObjectsAt(where))
        BY <2>1 DEF SumFunction, SumFunctionOnSet, FoldFunction
    <2>5. \A i \in ObjectsAt(where) : these[i] = found[i] /\ these[i] \in Nat
        BY <1>4, <1>5, <2>1 DEF ObjectWeight
    <2>6. SumFunctionOnSet(these, ObjectsAt(where)) = SumFunctionOnSet(found, ObjectsAt(where))
        BY <1>5, <2>5, SumSame
    <2> QED  BY <2>3, <2>4, <2>6
<1> DEFINE sum(S) == SumFunctionOnSet(found, S)
<1>7. PICK held : held = ObjectsAt(LocCarried)
    OBVIOUS
<1>8. PICK worn : worn = ObjectsAt(LocWorn)
    OBVIOUS
<1>9. /\ held \cap worn = {} /\ held \cup worn = InHand /\ o \notin held \cup worn
      /\ held \subseteq Objects /\ worn \subseteq Objects
    BY <1>2, <1>7, <1>8 DEF ObjectsAt, InHand, Takeable
<1>10. /\ IsFiniteSet(held) /\ IsFiniteSet(worn) /\ IsFiniteSet(held \cup worn)
       /\ IsFiniteSet(InHand \cup {o}) /\ InHand \cup {o} \subseteq Objects
    <2>1. IsFiniteSet(held) /\ IsFiniteSet(worn)
        BY <1>5, <1>7, <1>8
    <2>2. InHand \cup {o} \subseteq Objects
        BY <1>1, <1>9
    <2> QED  BY <1>1, <1>9, <2>1, <2>2, FS_Union, WeightNumbers, FS_Subset
<1>11. sum(InHand \cup {o}) = sum(held) + sum(worn) + ObjectWeight(o)
    <2>1. sum(held \cup worn) = sum(held) + sum(worn)
        BY <1>4, <1>9, <1>10, SumUnion
    <2>2. sum((held \cup worn) \cup {o}) = sum(held \cup worn) + found[o]
        <3>1. \A y \in (held \cup worn) \cup {o} : found[y] \in Nat
            BY <1>1, <1>4, <1>9
        <3> QED  BY <1>9, <1>10, <3>1, SumAdd
    <2> QED  BY <1>1, <1>4, <1>9, <2>1, <2>2
<1>12. sum(held) \in Nat /\ sum(worn) \in Nat /\ ObjectWeight(o) \in Nat
    BY <1>1, <1>4, <1>9, <1>10, SumType
<1>13. WeightCarried = Capped(Capped(sum(held)) + Capped(sum(worn)))
    BY <1>2, <1>6, <1>7, <1>8 DEF WeightCarried
<1>14. sum(InHand \cup {o}) <= limit
    <2> HIDE DEF sum
    <2>1. \A w \in Nat : Capped(w) \in Nat /\ Capped(w) = IF w > 255 THEN 255 ELSE w
        BY <1>1, WeightNumbers
    <2>2. PICK h \in Nat : h = Capped(sum(held)) /\ h = IF sum(held) > 255 THEN 255 ELSE sum(held)
        BY <1>12, <2>1
    <2>3. PICK w \in Nat : w = Capped(sum(worn)) /\ w = IF sum(worn) > 255 THEN 255 ELSE sum(worn)
        BY <1>12, <2>1
    <2>4. WeightCarried = IF h + w > 255 THEN 255 ELSE h + w
        BY <1>13, <2>1, <2>2, <2>3
    <2> QED  BY <1>11, <1>12, <2>2, <2>3, <2>4
<1>15. PICK cut : cut = [x \in InHand \cup {o} |-> IF all[x] > 255 THEN 255 ELSE all[x]]
    OBVIOUS
<1>16. \A x \in InHand \cup {o} : /\ all[x] \in Nat /\ cut[x] \in Nat /\ found[x] \in Nat
                                  /\ cut[x] = IF all[x] > 255 THEN 255 ELSE all[x]
                                  /\ cut[x] <= found[x]
    <2> SUFFICES ASSUME NEW x \in InHand \cup {o}
                 PROVE  /\ all[x] \in Nat /\ cut[x] \in Nat /\ found[x] \in Nat
                        /\ cut[x] = IF all[x] > 255 THEN 255 ELSE all[x]
                        /\ cut[x] <= found[x]
        OBVIOUS
    <2>1. x \in Objects /\ all[x] = AllInside(x) /\ found[x] = ObjectWeight(x)
        BY <1>4, <1>10
    <2>2. AllInside(x) \in Nat /\ ObjectWeight(x) \in Nat /\ ObjectWeight(x) >= Capped(AllInside(x))
        BY <1>1, <2>1, ObjectWeighs
    <2>3. Capped(AllInside(x)) = IF AllInside(x) > 255 THEN 255 ELSE AllInside(x)
        BY <1>1, <2>2, WeightNumbers
    <2>4. cut[x] = IF all[x] > 255 THEN 255 ELSE all[x]
        BY <1>15
    <2> QED  BY <2>1, <2>2, <2>3, <2>4
<1>17. SumFunctionOnSet(cut, InHand \cup {o}) <= sum(InHand \cup {o})
    BY <1>10, <1>16, SumLess
<1>18. \/ SumFunctionOnSet(all, InHand \cup {o}) = SumFunctionOnSet(cut, InHand \cup {o})
       \/ (SumFunctionOnSet(all, InHand \cup {o}) > 255 /\ SumFunctionOnSet(cut, InHand \cup {o}) >= 255)
    BY <1>10, <1>16, SumOfCut
<1>19. /\ SumFunctionOnSet(all, InHand \cup {o}) \in Nat /\ SumFunctionOnSet(cut, InHand \cup {o}) \in Nat
       /\ sum(InHand \cup {o}) \in Nat
    BY <1>10, <1>16, SumType
<1> QED
    <2> HIDE DEF sum
    <2> QED  BY <1>14, <1>17, <1>18, <1>19

\* What a thing picked up leaves the player with.
LEMMA TakenWithinLimits ==
    ASSUME AllFlags, WorldTypeOK, WorldTypeOK', NEW o, Takeable(o),
           loc' = [loc EXCEPT ![o] = LocCarried], db' = db
    PROVE  /\ Carrying(loc') <= flags[FlagMaxCarried]
           /\ Burden' <= flags[FlagStrength] \/ flags[FlagStrength] = 255 \/ HandsAreInside
<1>1. flags[FlagMaxCarried] \in Byte /\ flags[FlagStrength] \in Byte
    <2>1. FlagMaxCarried \in Byte /\ FlagStrength \in Byte
        BY DEF FlagMaxCarried, FlagStrength, Byte
    <2> QED  BY <2>1 DEF WorldTypeOK, AllFlags
<1>2. Carrying(loc') <= flags[FlagMaxCarried]
    <2>1. Carrying(loc) < flags[FlagMaxCarried]
        BY DEF Takeable
    <2>2. Carrying(loc') = Carrying(loc) + 1 /\ Carrying(loc) \in Nat
        BY OneMoreHeld
    <2>3. flags[FlagMaxCarried] \in Int
        BY <1>1 DEF Byte
    <2> QED  BY <2>1, <2>2, <2>3
<1>3. ASSUME flags[FlagStrength] # 255, ~HandsAreInside
      PROVE  Burden' <= flags[FlagStrength]
    <2>1. PICK limit \in Nat : limit = flags[FlagStrength] /\ limit < 255
        BY <1>1, <1>3 DEF Byte
    <2>2. db \in Databases /\ o \in Objects /\ loc \in [Objects -> Byte]
        BY DEF WorldTypeOK, Takeable
    <2>3. Objects' = Objects
        BY DEF Objects
    <2>4. PICK S : S = InHand \cup {o}
        OBVIOUS
    <2>5. S \subseteq Objects /\ IsFiniteSet(S)
        <3>1. S \subseteq Objects
            BY <2>2, <2>4 DEF InHand
        <3> QED  BY <2>2, <3>1, WeightNumbers, FS_Subset
    <2>6. InHand' = S
        <3>1. \A x \in Objects : loc'[x] = IF x = o THEN LocCarried ELSE loc[x]
            BY <2>2
        <3> QED  BY <2>2, <2>3, <2>4, <3>1 DEF InHand
    <2>7. PICK all : all = [x \in S |-> AllInside(x)]
        OBVIOUS
    <2>8. PICK now : now = [x \in S |-> AllInside(x)']
        OBVIOUS
    <2>9. Burden' = SumFunctionOnSet(now, S)
        <3>1. Burden' = SumFunction([x \in S |-> AllInside(x)'])
            BY <2>6 DEF Burden
        <3> QED  BY <2>8, <3>1 DEF SumFunction, SumFunctionOnSet, FoldFunction
    <2>10. \A x \in S : now[x] \in Nat /\ all[x] \in Nat /\ now[x] <= all[x]
        BY <1>3, <2>5, <2>7, <2>8, NothingGetsHeavier
    <2>11. SumFunctionOnSet(now, S) <= SumFunctionOnSet(all, S)
        BY <2>5, <2>10, SumLess
    <2>12. SumFunctionOnSet(all, S) <= limit
        <3>1. WeightCarried + ObjectWeight(o) <= limit
            BY <2>1 DEF Takeable
        <3>2. \A x \in InHand \cup {o} : all[x] = AllInside(x)
            BY <2>4, <2>7
        <3> QED  BY <2>1, <2>4, <3>1, <3>2, NoWeightIsMissed
    <2>13. SumFunctionOnSet(now, S) \in Nat /\ SumFunctionOnSet(all, S) \in Nat
        BY <2>5, <2>10, SumType
    <2> QED  BY <2>1, <2>9, <2>11, <2>12, <2>13
<1> QED  BY <1>2, <1>3

\* Picking a thing up never leaves the player with more things in hand than flag 37
\* allows, nor with more weight than flag 52 does (get).
THEOREM GettingWithinLimits ==
    ASSUME AllFlags, CondactsComplete
    PROVE  WorldSpec => GettingStaysWithinLimits
<1>1. ASSUME WorldTypeOK, WorldTypeOK', NEW c \in db.condacts, c.op \in {"GET", "AUTOG"},
             Do(c.op, c.a), loc' # loc
      PROVE  /\ Carrying(loc') <= flags[FlagMaxCarried]
             /\ Burden' <= flags[FlagStrength] \/ flags[FlagStrength] = 255 \/ HandsAreInside
    <2>1. PICK o : Takeable(o) /\ loc' = [loc EXCEPT ![o] = LocCarried] /\ db' = db
        BY <1>1, WhatIsTaken
    <2> QED  BY <1>1, <2>1, TakenWithinLimits
<1>2. WorldTypeOK /\ WorldTypeOK' /\ [WorldNext]_<<db, world>>
      => [\A c \in db.condacts :
            (c.op \in {"GET", "AUTOG"} /\ Do(c.op, c.a) /\ loc' # loc)
            => /\ Carrying(loc') <= flags[FlagMaxCarried]
               /\ Burden' <= flags[FlagStrength] \/ flags[FlagStrength] = 255 \/ HandsAreInside]_<<db, world>>
    BY <1>1
<1>3. WorldSpec => []WorldTypeOK
    BY WorldTypes
<1> QED  BY <1>2, <1>3, PTL DEF WorldSpec, GettingStaysWithinLimits
=============================================================================
