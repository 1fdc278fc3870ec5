------------------------------- MODULE World -------------------------------
(***************************************************************************)
(* The data an adventure works on, and every condact that only changes     *)
(* data (internal/vm: condacts.go, objects.go, vm.go).  A condact is a     *)
(* relation between the flags, the objects' places and the two booleans    *)
(* the entry that runs it looks at afterwards: done (what ISDONE asks) and *)
(* continuing (FALSE: a condition failed, the entry gives up).             *)
(*                                                                         *)
(* WorldSpec runs the condacts an adventure holds in any order: nothing is *)
(* assumed of its tables.  ProcessMachine extends this module with the     *)
(* control that decides which condact is next.                             *)
(* Operands are numbered from 1: a[1] is the code's a[0].                  *)
(***************************************************************************)
EXTENDS Words, FiniteSets, Functions

CONSTANTS Databases,    \* the adventures that may be loaded
          FlagNo,       \* the flags modelled, of the code's 256
          MaxNesting,   \* how deep a container is looked into; 10 in the code
          Rolls         \* what the dice may show, of 0..99

FlagCarried == 1
FlagVerb == 33
FlagNoun1 == 34
FlagAdject1 == 35
FlagAdverb == 36
FlagMaxCarried == 37
FlagPlayer == 38
FlagInStream == 41
FlagPrep == 43
FlagNoun2 == 44
FlagAdject2 == 45
FlagCPNoun == 46
FlagCPAdject == 47
FlagTime == 48
FlagTimeFlags == 49
FlagDoallObj == 50
FlagCurObj == 51
FlagStrength == 52
FlagCurObjLoc == 54
FlagCurObjWei == 55
FlagCurObjCon == 56
FlagCurObjWR == 57

SystemFlags == {1} \cup 33..38 \cup {41} \cup 43..52 \cup 54..57

LocNotCreated == 252
LocWorn == 253
LocCarried == 254
LocHere == 255
NoObject == 255         \* what flag 51 says when there is none
NoPicture == -1

\* An object as the database describes it.
ObjectData == [initial : Byte, weight : Byte, container : BOOLEAN,
               wearable : BOOLEAN, noun : Byte, adjective : Byte]

WellFormed(d) ==
    /\ \E n \in Byte : d.objects \in [0..(n - 1) -> ObjectData]
    /\ \E n \in Byte : d.conns \in [0..(n - 1) -> Seq([word : Byte, to : Byte])]

ASSUME WorldAssumption ==
    /\ SystemFlags \subseteq FlagNo /\ FlagNo \subseteq Byte
    /\ MaxNesting \in Nat \ {0}
    /\ Rolls \subseteq 0..99
    /\ \A d \in Databases : WellFormed(d)

VARIABLES db,           \* the adventure being run; never changes
          flags,        \* Machine.flags
          loc,          \* where each object is: object.location
          done,         \* Machine.done
          continuing,   \* Machine.continuing
          picture       \* Machine.picture, or NoPicture while not pictured

world == <<flags, loc, done, continuing, picture>>

Objects == DOMAIN db.objects
Data(o) == db.objects[o]

-----------------------------------------------------------------------------
\* Where things are.

\* Mutant: 255 is stored as it comes, as the references do.
Resolved_AsItComes(f, to) == to

\* 255 as a destination is the room the player is in (move).
Resolved(f, to) == IF to = LocHere THEN f[FlagPlayer] ELSE to

At(o, where) ==
    /\ o \in Objects
    /\ loc[o] = where \/ (where = LocHere /\ loc[o] = flags[FlagPlayer])

Present(o) == o \in Objects /\ loc[o] \in {LocCarried, LocWorn, flags[FlagPlayer]}

ObjectsAt(where) == {o \in Objects : loc[o] = where}

\* carrying: how many objects are held, the worn ones not counted.
Carrying(where) == Cardinality({o \in DOMAIN where : where[o] = LocCarried})

-----------------------------------------------------------------------------
\* What things weigh.

\* Mutant: a weight that does not fit in a byte loses what sticks out.
Capped_Wraps(w) == w % 256

\* capWeight: a weight that does not fit in a byte is the heaviest there is.
Capped(w) == IF w \in Byte THEN w ELSE 255

\* weighOne: an object weighs what it weighs itself and, for a container that weighs
\* anything at all, what is inside it as well.
WeighOne(o, inside) ==
    IF Data(o).weight = 0 \/ ~Data(o).container THEN Data(o).weight
    ELSE Capped(Data(o).weight + inside)

\* Everything in one place, down to MaxNesting levels.  The place inside a container
\* is the container's own number.
WeightAt[depth \in 0..MaxNesting] ==
    [where \in Byte |->
       IF depth = MaxNesting THEN 0
       ELSE Capped(SumFunction([i \in ObjectsAt(where) |-> WeighOne(i, WeightAt[depth + 1][i])]))]

\* Mutant: what is worn is forgotten.
WeightCarried_HeldOnly == WeightAt[0][LocCarried]

\* weightCarried: everything held and worn.
WeightCarried == Capped(WeightAt[0][LocCarried] + WeightAt[0][LocWorn])

ObjectWeight(o) == IF o \in Objects THEN WeighOne(o, WeightAt[1][o]) ELSE 0

-----------------------------------------------------------------------------
\* How a condact ends.

Goes == continuing' = TRUE
Fails == continuing' = FALSE
Did == done' = TRUE /\ Goes

SetFlag(n, v) == flags' = [flags EXCEPT ![n] = v]

\* Mutant: a sum that does not fit in a byte is kept.
Plus_Wide(x, y) == x + y

\* PLUS and MINUS stop at the ends of a byte (plus, minus).
Plus(x, y) == IF x + y > 255 THEN 255 ELSE x + y
Minus(x, y) == IF y > x THEN 0 ELSE x - y

-----------------------------------------------------------------------------
\* Conditions: the entry goes on when they hold and is given up when not.

\* HASAT and SETAT pack a flag and a bit in one byte, counting down from 59.
BitFlag(v) == 59 - (v \div 8)
BitValue(v) == <<1, 2, 4, 8, 16, 32, 64, 128>>[(v % 8) + 1]
HasBit(v) == (flags[BitFlag(v)] \div BitValue(v)) % 2 = 1

PlayerCondition(op, a) ==
    \/ op = "AT"      /\ flags[FlagPlayer] = a[1]
    \/ op = "NOTAT"   /\ flags[FlagPlayer] # a[1]
    \/ op = "ATGT"    /\ flags[FlagPlayer] > a[1]
    \/ op = "ATLT"    /\ flags[FlagPlayer] < a[1]

ObjectCondition(op, a) ==
    \/ op = "PRESENT" /\ Present(a[1])
    \/ op = "ABSENT"  /\ ~Present(a[1])
    \/ op = "WORN"    /\ At(a[1], LocWorn)
    \/ op = "NOTWORN" /\ ~At(a[1], LocWorn)
    \/ op = "CARRIED" /\ At(a[1], LocCarried)
    \/ op = "NOTCARR" /\ ~At(a[1], LocCarried)
    \/ op = "ISAT"    /\ At(a[1], a[2])
    \/ op = "ISNOTAT" /\ ~At(a[1], a[2])

FlagCondition(op, a) ==
    \/ op = "ZERO"    /\ flags[a[1]] = 0
    \/ op = "NOTZERO" /\ flags[a[1]] # 0
    \/ op = "EQ"      /\ flags[a[1]] = a[2]
    \/ op = "NOTEQ"   /\ flags[a[1]] # a[2]
    \/ op = "GT"      /\ flags[a[1]] > a[2]
    \/ op = "LT"      /\ flags[a[1]] < a[2]
    \/ op = "SAME"    /\ flags[a[1]] = flags[a[2]]
    \/ op = "NOTSAME" /\ flags[a[1]] # flags[a[2]]
    \/ op = "BIGGER"  /\ flags[a[1]] > flags[a[2]]
    \/ op = "SMALLER" /\ flags[a[1]] < flags[a[2]]
    \/ op = "HASAT"   /\ HasBit(a[1])
    \/ op = "HASNAT"  /\ ~HasBit(a[1])

SentenceCondition(op, a) ==
    \/ op = "ADJECT1" /\ flags[FlagAdject1] = a[1]
    \/ op = "ADVERB"  /\ flags[FlagAdverb] = a[1]
    \/ op = "PREP"    /\ flags[FlagPrep] = a[1]
    \/ op = "NOUN2"   /\ flags[FlagNoun2] = a[1]
    \/ op = "ADJECT2" /\ flags[FlagAdject2] = a[1]

DoneCondition(op) ==
    \/ op = "ISDONE"  /\ done
    \/ op = "ISNDONE" /\ ~done

Conditions == {"AT", "NOTAT", "ATGT", "ATLT", "PRESENT", "ABSENT", "WORN", "NOTWORN",
               "CARRIED", "NOTCARR", "ISAT", "ISNOTAT", "ZERO", "NOTZERO", "EQ",
               "NOTEQ", "GT", "LT", "SAME", "NOTSAME", "BIGGER", "SMALLER", "HASAT",
               "HASNAT", "ADJECT1", "ADVERB", "PREP", "NOUN2", "ADJECT2", "ISDONE",
               "ISNDONE"}

Holds(op, a) ==
    \/ PlayerCondition(op, a) \/ ObjectCondition(op, a) \/ FlagCondition(op, a)
    \/ SentenceCondition(op, a) \/ DoneCondition(op)

Test(op, a) ==
    /\ op \in Conditions
    /\ continuing' = Holds(op, a)
    /\ UNCHANGED <<flags, loc, done, picture>>

Chance(op, a) ==
    /\ op = "CHANCE"
    /\ \E roll \in Rolls : IF roll < a[1] THEN Goes ELSE Fails
    /\ UNCHANGED <<flags, loc, done, picture>>

-----------------------------------------------------------------------------
\* Flags.

ChangeFlag(op, a) ==
    /\ \/ op = "SET"    /\ SetFlag(a[1], 255)
       \/ op = "CLEAR"  /\ SetFlag(a[1], 0)
       \/ op = "PLUS"   /\ SetFlag(a[1], Plus(flags[a[1]], a[2]))
       \/ op = "MINUS"  /\ SetFlag(a[1], Minus(flags[a[1]], a[2]))
       \/ op = "LET"    /\ SetFlag(a[1], a[2])
       \/ op = "ADD"    /\ SetFlag(a[2], Plus(flags[a[2]], flags[a[1]]))
       \/ op = "SUB"    /\ SetFlag(a[2], Minus(flags[a[2]], flags[a[1]]))
       \/ op = "COPYFF" /\ SetFlag(a[2], flags[a[1]])
       \/ op = "COPYBF" /\ SetFlag(a[2], 255 - flags[a[1]])
       \/ op = "GOTO"   /\ SetFlag(FlagPlayer, a[1])
       \/ op = "RANDOM" /\ \E roll \in Rolls : SetFlag(a[1], roll + 1)
    /\ Did
    /\ UNCHANGED <<loc, picture>>

\* SETAT clears, sets or turns over one bit; its second operand says which.
SetAt(op, a) ==
    /\ op = "SETAT"
    /\ LET wanted == (a[2] = 1) \/ (a[2] # 0 /\ ~HasBit(a[1]))
           change == (IF wanted THEN 1 ELSE 0) - (IF HasBit(a[1]) THEN 1 ELSE 0)
       IN  SetFlag(BitFlag(a[1]), flags[BitFlag(a[1])] + change * BitValue(a[1]))
    /\ Did
    /\ UNCHANGED <<loc, picture>>

\* The limits, the clock and the input options, which do not count as acting.
Configure(op, a) ==
    /\ \/ /\ op = "ABILITY"
          /\ flags' = [flags EXCEPT ![FlagMaxCarried] = a[1], ![FlagStrength] = a[2]]
       \/ /\ op = "INPUT"
          /\ flags' = IF a[1] >= 8 THEN flags
                      ELSE [flags EXCEPT ![FlagInStream] = a[1],
                             ![FlagTimeFlags] = (@ \div 64) * 64 + (a[2] % 8) * 8 + (@ % 8)]
       \/ /\ op = "TIME"
          /\ flags' = [flags EXCEPT ![FlagTime] = a[1],
                                    ![FlagTimeFlags] = (@ \div 8) * 8 + (a[2] % 8)]
       \/ op = "WEIGH"  /\ SetFlag(a[2], ObjectWeight(a[1]))
       \/ op = "WEIGHT" /\ SetFlag(a[1], WeightCarried)
    /\ Goes
    /\ UNCHANGED <<loc, done, picture>>

-----------------------------------------------------------------------------
\* Objects.

\* note: the flags after the object o, or none, becomes the one referred to.
Noted(f, o) ==
    IF o \in Objects
    THEN [f EXCEPT ![FlagCurObj] = o,
                   ![FlagCurObjLoc] = loc[o],
                   ![FlagCurObjWei] = Data(o).weight,
                   ![FlagCurObjCon] = IF Data(o).container THEN 128 ELSE 0,
                   ![FlagCurObjWR] = IF Data(o).wearable THEN 128 ELSE 0]
    ELSE [f EXCEPT ![FlagCurObj] = NoObject, ![FlagCurObjLoc] = 0,
                   ![FlagCurObjWei] = 0, ![FlagCurObjCon] = 0, ![FlagCurObjWR] = 0]

\* The flags f with flag 1 counted again over the places there.
Recounted(f, there) == [f EXCEPT ![FlagCarried] = Carrying(there) % 256]

\* Mutant: only the player's hands count as near.
Rank_HandsOnly(o) == IF loc[o] = LocCarried THEN 3
                     ELSE IF loc[o] = flags[FlagPlayer] THEN 2 ELSE 1

\* whatO: the object the sentence means.  Held or worn beats lying here beats
\* anywhere else, and the first of the best rank wins.
Rank(o) == IF loc[o] \in {LocCarried, LocWorn} THEN 3
           ELSE IF loc[o] = flags[FlagPlayer] THEN 2 ELSE 1

Named == {o \in Objects :
            /\ Data(o).noun = flags[FlagNoun1]
            /\ \/ flags[FlagAdject1] = NoWord
               \/ Data(o).adjective \in {flags[FlagAdject1], NoWord}}

Meant ==
    IF Named = {} THEN NoObject
    ELSE CHOOSE o \in Named : \A p \in Named :
           Rank(o) > Rank(p) \/ (Rank(o) = Rank(p) /\ o <= p)

\* The four refusals of GET, the first of which is that there is no such object.
Takeable(o) ==
    /\ o \in Objects
    /\ loc[o] \notin {LocCarried, LocWorn}
    /\ loc[o] = flags[FlagPlayer]
    /\ WeightCarried + ObjectWeight(o) <= flags[FlagStrength]
    /\ Carrying(loc) < flags[FlagMaxCarried]

\* get and drop, given the flags as WHATO may have left them.
Get(f, o) ==
    /\ IF Takeable(o)
       THEN /\ loc' = [loc EXCEPT ![o] = LocCarried]
            /\ flags' = Recounted(Noted(f, o), loc')
            /\ Did
       ELSE /\ flags' = IF o \in Objects THEN Noted(f, o) ELSE f
            /\ Fails
            /\ UNCHANGED <<loc, done>>
    /\ UNCHANGED picture

\* Mutant: drop forgets to count again.
Drop_Uncounted(f, o) ==
    /\ IF o \in Objects
       THEN loc' = [loc EXCEPT ![o] = f[FlagPlayer]] /\ flags' = Noted(f, o) /\ Did
       ELSE flags' = f /\ Fails /\ UNCHANGED <<loc, done>>
    /\ UNCHANGED picture

Drop(f, o) ==
    /\ IF o \in Objects
       THEN /\ loc' = [loc EXCEPT ![o] = f[FlagPlayer]]
            /\ flags' = Recounted(Noted(f, o), loc')
            /\ Did
       ELSE flags' = f /\ Fails /\ UNCHANGED <<loc, done>>
    /\ UNCHANGED picture

Handle(op, a) ==
    \/ op = "GET"   /\ Get(flags, a[1])
    \/ op = "DROP"  /\ Drop(flags, a[1])
    \/ op = "AUTOG" /\ Get(Noted(flags, Meant), Noted(flags, Meant)[FlagCurObj])
    \/ op = "AUTOD" /\ Drop(Noted(flags, Meant), Noted(flags, Meant)[FlagCurObj])

\* WHATO and SETCO: refer to an object and leave it where it is.
Refer(op, a) ==
    /\ \/ op = "WHATO" /\ flags' = Noted(flags, Meant)
       \/ op = "SETCO" /\ flags' = Noted(flags, a[1])
    /\ Goes
    /\ UNCHANGED <<loc, done, picture>>

\* moveObject: PLACE and its relatives.  Only flag 51 follows the object.
MoveObject(o, to) ==
    /\ loc' = [loc EXCEPT ![o] = Resolved(flags, to)]
    /\ SetFlag(FlagCurObj, o)

Move(op, a) ==
    /\ \/ op \in {"REMOVE", "DESTROY"} /\ MoveObject(a[1], LocNotCreated)
       \/ op = "CREATE" /\ MoveObject(a[1], flags[FlagPlayer])
       \/ op = "PLACE"  /\ MoveObject(a[1], a[2])
       \/ op = "PUTO"   /\ MoveObject(flags[FlagCurObj], a[1])
       \/ /\ op = "SWAP"
          /\ loc' = IF {a[1], a[2]} \subseteq Objects
                    THEN [loc EXCEPT ![a[1]] = Resolved(flags, loc[a[2]]),
                                     ![a[2]] = Resolved(flags, loc[a[1]])]
                    ELSE loc
          /\ UNCHANGED flags
       \/ /\ op = "DROPALL"
          /\ loc' = [o \in Objects |-> IF loc[o] \in {LocCarried, LocWorn}
                                       THEN flags[FlagPlayer] ELSE loc[o]]
          /\ SetFlag(FlagCarried, 0)
       \/ /\ op = "RESET"
          /\ loc' = [o \in Objects |-> Resolved(flags, Data(o).initial)]
          /\ flags' = Recounted(flags, loc')
    /\ Did
    /\ UNCHANGED picture

\* MOVE: the flag named holds the room to leave; the verb is the way out.
Exits(flag) ==
    IF flags[flag] \in DOMAIN db.conns
    THEN {i \in DOMAIN db.conns[flags[flag]] :
            db.conns[flags[flag]][i].word = flags[FlagVerb]}
    ELSE {}

MovePlayer(op, a) ==
    /\ op = "MOVE"
    /\ IF Exits(a[1]) = {}
       THEN Fails /\ UNCHANGED <<flags, done>>
       ELSE SetFlag(a[1], db.conns[flags[a[1]]][First(Exits(a[1]))].to) /\ Did
    /\ UNCHANGED <<loc, picture>>

-----------------------------------------------------------------------------
\* Text, pictures, and what a console has no use for.

Say(op, a) ==
    /\ \/ op \in {"MESSAGE", "MES", "SYSMESS", "DESC"} /\ done' = TRUE
       \/ op = "LISTOBJ" /\ done' = (done \/ ObjectsAt(flags[FlagPlayer]) # {})
       \/ op = "LISTAT"  /\ done' = (done \/ ObjectsAt(a[1]) # {})
       \/ op \in {"NEWLINE", "SPACE", "PRINT", "DPRINT", "NEWTEXT"} /\ UNCHANGED done
    /\ Goes
    /\ UNCHANGED <<flags, loc, picture>>

Picture(op, a) ==
    /\ op = "PICTURE"
    /\ picture' = a[1]
    /\ Goes
    /\ UNCHANGED <<flags, loc, done>>

Unused == {"SFX", "SAVE", "LOAD", "DISPLAY", "CLS", "BEEP", "PAPER", "INK", "BORDER",
           "MODE", "MOUSE", "GFX", "WINDOW", "WINAT", "WINSIZE", "CENTRE", "TAB",
           "SAVEAT", "BACKAT", "PRINTAT", "RAMSAVE", "RAMLOAD", "PAUSE"}

Nothing(op) == op \in Unused /\ Goes /\ UNCHANGED <<flags, loc, done, picture>>

-----------------------------------------------------------------------------
\* How many operands the format gives a condact, for those that look at theirs
\* (ddb.CondactDef.Params, and the a[0] and a[1] of condacts.go).
TakesTwo == {"ISAT", "ISNOTAT", "EQ", "NOTEQ", "GT", "LT", "SAME", "NOTSAME", "BIGGER",
             "SMALLER", "PLUS", "MINUS", "LET", "ADD", "SUB", "COPYFF", "COPYBF", "SETAT",
             "ABILITY", "INPUT", "TIME", "WEIGH", "PLACE", "SWAP"}

TakesOne == {"AT", "NOTAT", "ATGT", "ATLT", "PRESENT", "ABSENT", "WORN", "NOTWORN",
             "CARRIED", "NOTCARR", "ZERO", "NOTZERO", "HASAT", "HASNAT", "ADJECT1",
             "ADVERB", "PREP", "NOUN2", "ADJECT2", "CHANCE", "SET", "CLEAR", "GOTO",
             "RANDOM", "WEIGHT", "GET", "DROP", "SETCO", "REMOVE", "DESTROY", "CREATE",
             "PUTO", "MOVE", "LISTAT", "PICTURE", "SKIP", "PROCESS", "DOALL", "EXIT",
             "INDIR"}

HasOperands(op, a) ==
    /\ op \in TakesTwo => Len(a) >= 2
    /\ op \in TakesOne => Len(a) >= 1

-----------------------------------------------------------------------------
\* One condact, and any condacts in any order.

Do(op, a) ==
    /\ \/ Test(op, a) \/ Chance(op, a)
       \/ ChangeFlag(op, a) \/ SetAt(op, a) \/ Configure(op, a)
       \/ Handle(op, a) \/ Refer(op, a) \/ Move(op, a) \/ MovePlayer(op, a)
       \/ Say(op, a) \/ Picture(op, a) \/ Nothing(op)
    /\ UNCHANGED db

\* New: the objects as the database places them, and nothing said yet.
InitialPlaces(d) == [o \in DOMAIN d.objects |-> d.objects[o].initial]

WorldInit ==
    /\ db \in Databases
    /\ flags = [n \in FlagNo |-> 0]
    /\ loc = InitialPlaces(db)
    /\ done = FALSE
    /\ continuing = TRUE
    /\ picture = NoPicture

\* db.condacts: the condacts to be found in the adventure, as records [op, a].
WorldNext == \E c \in db.condacts : Do(c.op, c.a)

WorldSpec == WorldInit /\ [][WorldNext]_<<db, world>>

-----------------------------------------------------------------------------
\* Every flag holds a byte, every object of the adventure is in some place, and
\* the adventure itself never changes.
WorldTypeOK ==
    /\ db \in Databases
    /\ flags \in [FlagNo -> Byte]
    /\ loc \in [Objects -> Byte]
    /\ done \in BOOLEAN
    /\ continuing \in BOOLEAN
    /\ picture \in Byte \cup {NoPicture}

\* What a container weighs with all that is in it, without recursion: i counts
\* when a chain of places leads from it up to the container through containers
\* that show what is in them, in fewer than MaxNesting steps (objects.go:61).
Opens(o) == Data(o).container /\ Data(o).weight # 0

InsideIn(i, o, steps) ==
    \E p \in [0..steps -> Objects] :
        /\ p[0] = i /\ p[steps] = o
        /\ \A k \in 1..steps : loc[p[k - 1]] = p[k] /\ Opens(p[k])

Inside(i, o) == \E steps \in 1..(MaxNesting - 1) : InsideIn(i, o, steps)

WithAllInside(o) == {o} \cup {i \in Objects : Inside(i, o)}
AllInside(o) == SumFunction([i \in WithAllInside(o) |-> Data(i).weight])

\* As long as no container is inside itself, the weight worked out level by level
\* and capped at every level (objectWeight) is the sum of what is inside, or 255
\* when that is more than a byte holds.
WeightIsWhatIsInside ==
    (\A o \in Objects : ~Inside(o, o)) =>
        \A o \in Objects : ObjectWeight(o) = IF AllInside(o) > 255 THEN 255 ELSE AllInside(o)

\* Picking an object up, named or meant, never leaves the player with more in
\* hand than flag 37 nor with more weight, held and worn and all that is inside,
\* than flag 52 (get) - wherever the object lay before, be it inside something
\* the player already holds, and even if things are inside one another.  A limit
\* of 255 is no limit: no weight exceeds it.  What is in the player's hands is also
\* inside object 254, for the two have one number, and is weighed twice when that
\* one is worn.
InHand == {o \in Objects : loc[o] \in {LocCarried, LocWorn}}
Burden == SumFunction([o \in InHand |-> AllInside(o)])
HandsAreInside == LocCarried \in Objects /\ Opens(LocCarried)

GettingStaysWithinLimits ==
    [][\A c \in db.condacts :
          (c.op \in {"GET", "AUTOG"} /\ Do(c.op, c.a) /\ loc' # loc)
          => /\ Carrying(loc') <= flags[FlagMaxCarried]
             /\ Burden' <= flags[FlagStrength] \/ flags[FlagStrength] = 255 \/ HandsAreInside]_<<db, world>>

\* 255 is not a place: an object only comes to hold it while the player's own
\* flag says 255 (move, "nothing stores a 255").
NothingIsPutAtHere ==
    [][\A o \in Objects : (loc'[o] = LocHere /\ loc[o] # LocHere)
                           => flags[FlagPlayer] = LocHere]_<<db, world>>

\* The condacts that move objects and do not count what is carried again.
Uncounted == {"REMOVE", "DESTROY", "CREATE", "PLACE", "PUTO", "SWAP"}

\* The condacts told which flag to write.
Writes(c, n) ==
    \/ c.op \in {"SET", "CLEAR", "PLUS", "MINUS", "LET", "RANDOM", "WEIGHT", "MOVE"} /\ c.a[1] = n
    \/ c.op \in {"ADD", "SUB", "COPYFF", "COPYBF", "WEIGH"} /\ c.a[2] = n
    \/ c.op = "SETAT" /\ BitFlag(c.a[1]) = n

\* A condact that leaves flag 1 alone, hands objects round only if it counts them, as
\* GET, DROP, AUTOG, AUTOD, DROPALL and RESET do, and does not put the player in room
\* 254, where what DROPALL drops would be held again.
LeavesTheCount(c) ==
    /\ c.op \notin Uncounted
    /\ ~Writes(c, FlagCarried)
    /\ Writes(c, FlagPlayer) => c.op = "MOVE"
    /\ c.op = "GOTO" => c.a[1] # LocCarried

\* An adventure of such condacts, that starts the player with empty hands (the game
\* begins with every flag at nought) and has no way into room 254.
CountsFaithfully(d) ==
    /\ \A c \in d.condacts : LeavesTheCount(c)
    /\ \A o \in DOMAIN d.objects : d.objects[o].initial # LocCarried
    /\ \A r \in DOMAIN d.conns : \A i \in DOMAIN d.conns[r] : d.conns[r][i].to # LocCarried

\* In such an adventure flag 1 is how many objects are held.
CarriedFlagKept == CountsFaithfully(db) => flags[FlagCarried] = Carrying(loc)

\* WHATO, AUTOG and AUTOD never pass over an object the player holds, wears or
\* has in front of them for one that answers as well but is further away (whatO).
NearestIsMeant ==
    [][\A c \in db.condacts :
          (c.op \in {"WHATO", "AUTOG", "AUTOD"} /\ Do(c.op, c.a))
          => \A o \in Named :
                /\ flags'[FlagCurObj] \in Named
                /\ Present(o) => Present(flags'[FlagCurObj])
                /\ loc[o] \in {LocCarried, LocWorn}
                   => loc[flags'[FlagCurObj]] \in {LocCarried, LocWorn}]_<<db, world>>
=============================================================================
