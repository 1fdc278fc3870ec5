------------------------------- MODULE Sections -------------------------------
(***************************************************************************)
(* The parser, up to the objects (internal/front/legacy: parser.go,        *)
(* section.go, sections.go, sections_world.go; internal/ddb: the stores    *)
(* they fill in).  It walks the lines the preprocessor let through, each   *)
(* section running until the marker of the next, in an order that is fixed.*)
(***************************************************************************)
EXTENDS Preprocessor

CONSTANTS Letters,      \* the character codes of every word a source writes
          MaxMessage    \* MAX_MESSSAGE, the last number of a text

ASSUME SectionsAssumption == MaxMessage \in Nat

VARIABLES cursor,       \* parser.at: how many lines have been walked
          section,      \* which section is being read, 0 before the first
          want,         \* the number its next record must carry
          db,           \* the database filled in
          counted,      \* the symbols the source produces: parser.define
          parsing       \* "reading", "done" or "refused"

sectionVars == <<cursor, section, want, db, counted, parsing>>

Order == <<"CTL", "VOC", "STX", "MTX", "OTX", "LTX", "CON", "OBJ", "PRO">>

Verb == 0
Adverb == 1
Noun == 2
Adjective == 3
Preposition == 4
NoWord == 255
MaxConvertible == 39
MaxWeight == 63
MaxLocation == 251
MaxObject == 255
NotCreated == 252
Worn == 253
Carried == 254
Here == 255

EmptyDatabase ==
  [null |-> FALSE, words |-> <<>>, system |-> <<>>, user |-> <<>>, objects |-> <<>>,
   locations |-> <<>>, conns |-> <<>>, processes |-> <<>>]

-----------------------------------------------------------------------------
\* What a line says.

\* The parser's own symbols overwrite.
Table == counted @@ symbols

IsByte(e) == Evaluable(e, Table) /\ Evaluate(e, Table) \in 0..255
ByteValue(e) == Evaluate(e, Table)

\* Only the first five characters of a word are kept.
NormalizeWord(name) == SubSeq(Letters[name], 1, IF Len(Letters[name]) < 5 THEN Len(Letters[name]) ELSE 5)

\* The word of a kind spelled so, which is the first one filed.
Spelled(kind, name) ==
  {i \in DOMAIN db.words :
     db.words[i].kind = kind /\ NormalizeWord(name) \in Range(db.words[i].synonyms)}
FirstSpelled(kind, name) ==
  db.words[CHOOSE i \in Spelled(kind, name) : \A j \in Spelled(kind, name) : i <= j].id

\* Words.NewLegacy: another spelling of the same value and kind is a synonym.
Filed(words, id, kind, word) ==
  IF \E i \in DOMAIN words : words[i].id = id /\ words[i].kind = kind
  THEN [i \in DOMAIN words |->
          IF words[i].id = id /\ words[i].kind = kind
          THEN [words[i] EXCEPT !.synonyms = Append(@, word)] ELSE words[i]]
  ELSE Append(words, [id |-> id, kind |-> kind, synonyms |-> <<word>>])

Counts(what, n) == ("NUM_" \o what \o "S") :> n @@ ("LAST_" \o what) :> (n - 1)

AreHeld(place) == Cardinality({i \in DOMAIN db.objects : db.objects[i].place = place})

-----------------------------------------------------------------------------
SectionsInit ==
  /\ cursor = 0
  /\ section = 0
  /\ want = 0
  /\ db = EmptyDatabase
  /\ counted = <<>>
  /\ parsing = "reading"

line == out[cursor + 1]
SourceEnds == cursor = Len(out)

Parses ==
  /\ reading = "done"
  /\ parsing = "reading"

Walks ==
  /\ Parses /\ ~SourceEnds
  /\ cursor' = cursor + 1

RefuseSource ==
  /\ parsing' = "refused"
  /\ UNCHANGED <<section, want, db, counted>>

In(name) == section > 0 /\ Order[section] = name

\* What a section asks before the next one may start.
Complete ==
  CASE In("CTL") -> db.null
    [] In("CON") -> want = Len(db.locations)
    [] OTHER -> TRUE

OpenSection ==
  /\ Walks /\ section < 8 /\ line.is = "section"
  /\ IF line.section = Order[section + 1] /\ Complete
     THEN /\ section' = section + 1
          /\ want' = 0
          /\ counted' = CASE In("OTX") -> Counts("OBJECT", Len(db.objects)) @@ counted
                          [] In("LTX") -> Counts("LOCATION", Len(db.locations)) @@ counted
                          [] OTHER -> counted
          /\ UNCHANGED <<db, parsing>>
     ELSE RefuseSource

\* /CTL: one underscore or more.
Control ==
  /\ Walks /\ In("CTL") /\ line.is = "null"
  /\ db' = [db EXCEPT !.null = TRUE]
  /\ UNCHANGED <<section, want, counted, parsing>>

\* /VOC: the symbol of a word is named by all of it, and not by the five
\* characters that are kept.
Vocabulary ==
  /\ Walks /\ In("VOC") /\ line.is = "word"
  /\ IF IsByte(line.value)
     THEN LET value == ByteValue(line.value)
          IN  /\ db' = [db EXCEPT !.words = Filed(@, value, line.kind, NormalizeWord(line.name))]
              /\ counted' = ("_VOC_" \o line.name) :> value @@ counted
              /\ UNCHANGED <<section, want, parsing>>
     ELSE RefuseSource

\* /STX, /MTX, /OTX and /LTX: texts numbered from zero, with no gap.
Blank == [place |-> 0, weight |-> 0, container |-> FALSE, wearable |-> FALSE, flags |-> {},
          noun |-> 0, adjective |-> 0]

\* What each table has room for.  An object's number is a byte: past the last it
\* would be one that there is.
LastText ==
  CASE In("OTX") -> MaxObject
    [] In("LTX") -> MaxLocation
    [] OTHER -> MaxMessage

TextEntry ==
  /\ Walks /\ section \in 3..6 /\ line.is = "text"
  /\ IF line.num = want /\ want <= LastText
     THEN /\ want' = want + 1
          /\ db' = CASE In("STX") -> [db EXCEPT !.system = Append(@, line.text)]
                     [] In("MTX") -> [db EXCEPT !.user = Append(@, line.text)]
                     [] In("OTX") -> [db EXCEPT !.objects = Append(@, [text |-> line.text] @@ Blank)]
                     [] In("LTX") -> [db EXCEPT !.locations = Append(@, line.text)]
          /\ UNCHANGED <<section, counted, parsing>>
     ELSE RefuseSource

\* /CON: a record opens every location, and its exits come after it.
LocationEntry ==
  /\ Walks /\ In("CON") /\ line.is = "location"
  /\ IF line.num = want /\ want < Len(db.locations)
     THEN want' = want + 1 /\ UNCHANGED <<section, db, counted, parsing>>
     ELSE RefuseSource

IsDirection(name) == Spelled(Verb, name) # {} \/ Spelled(Noun, name) # {}
Direction(name) == FirstSpelled(IF Spelled(Verb, name) # {} THEN Verb ELSE Noun, name)

Exit ==
  /\ Walks /\ In("CON") /\ line.is = "exit"
  /\ IF /\ want > 0
        /\ IsDirection(line.name) /\ IsByte(line.to)
        /\ \A i \in DOMAIN db.conns :
             ~(db.conns[i].from = want - 1 /\ db.conns[i].word = Direction(line.name))
     THEN /\ db' = [db EXCEPT !.conns = Append(@,
                      [from |-> want - 1, word |-> Direction(line.name), to |-> ByteValue(line.to)])]
          /\ UNCHANGED <<section, want, counted, parsing>>
     ELSE RefuseSource

\* /OBJ completes the objects /OTX has described.  An underscore is no place,
\* where everywhere else it is the null word.
ObjectPlace(e) == IF e.atoms[1].is = "null" THEN NotCreated ELSE ByteValue(e)

MayStartAt(place) == place \in {NotCreated, Worn, Carried} \cup 0..(Len(db.locations) - 1)

ObjectWord(kind, word) == IF word.is = "null" THEN NoWord ELSE FirstSpelled(kind, word.name)
IsObjectWord(kind, word) == word.is = "null" \/ Spelled(kind, word.name) # {}

ObjectEntry ==
  /\ Walks /\ In("OBJ") /\ line.is = "object"
  /\ IF /\ line.num = want /\ want < Len(db.objects)
        /\ IsByte(line.place) /\ MayStartAt(ObjectPlace(line.place))
        /\ IsByte(line.weight) /\ ByteValue(line.weight) <= MaxWeight
        /\ IsObjectWord(Noun, line.noun) /\ IsObjectWord(Adjective, line.adjective)
     THEN /\ want' = want + 1
          /\ db' = [db EXCEPT !.objects[want + 1] =
                      [text |-> @.text, place |-> ObjectPlace(line.place),
                       weight |-> ByteValue(line.weight),
                       container |-> line.container, wearable |-> line.wearable,
                       flags |-> line.flags,
                       noun |-> ObjectWord(Noun, line.noun),
                       adjective |-> ObjectWord(Adjective, line.adjective)]]
          /\ UNCHANGED <<section, counted, parsing>>
     ELSE RefuseSource

\* The objects end where the processes begin, or the source does.
ProcessesBegin ==
  IF SourceEnds THEN TRUE ELSE line.is = "section" /\ line.section \in {"PRO", "END"}

CloseObjects ==
  /\ Parses /\ In("OBJ") /\ ProcessesBegin
  /\ UNCHANGED cursor
  /\ IF want = Len(db.objects)
     THEN /\ section' = 9
          /\ counted' = "NUM_CARRIED" :> AreHeld(Carried) @@ "NUM_WORN" :> AreHeld(Worn) @@ counted
          /\ UNCHANGED <<want, db, parsing>>
     ELSE RefuseSource

\* What a section has no use for is refused, and so is a source that ends in one.
Belongs ==
  CASE In("CTL") -> {"null", "section"}
    [] In("VOC") -> {"word", "section"}
    [] section \in 3..6 -> {"text", "section"}
    [] In("CON") -> {"location", "exit", "section"}
    [] In("OBJ") -> {"object"}
    [] OTHER -> {"section"}

Misplaced ==
  /\ Parses /\ section < 9
  /\ IF SourceEnds THEN ~In("OBJ") ELSE line.is \notin Belongs /\ ~(In("OBJ") /\ ProcessesBegin)
  /\ UNCHANGED cursor
  /\ RefuseSource

SectionsNext ==
  \/ OpenSection \/ Control \/ Vocabulary \/ TextEntry \/ LocationEntry \/ Exit
  \/ ObjectEntry \/ CloseObjects \/ Misplaced
=============================================================================
