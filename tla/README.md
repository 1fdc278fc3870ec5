# QDAAD in TLA+

QDAAD is a Go implementation of DAAD, the text adventure system: a compiler
(`qdaad`), a decompiler (`qundaad`), a packager (`qpack`) and an interpreter
(`qrun`) that also plays adventures from test scripts (`.qtest`). This directory
holds TLA+ models of the parts where behaviour depends on a history of steps, the
TLC configurations that check them and the theorems TLAPS proves about them.
`PROJECT.json` is the index: components, runs, mutants, the source lines behind
every definition, hazards, findings and theorems.

## Inventory

| component | state it keeps | operations | what is hard |
|---|---|---|---|
| `internal/vm`, the world | 256 flags, the place of every object, `done`, `continuing`, the picture | the data condacts, some ninety: tests, flag arithmetic, bits, GET, DROP, AUTOG, PLACE, WEIGH, MOVE... | byte arithmetic that stops at the ends, containers inside containers, counts kept in flags that must be brought up to date |
| `internal/vm`, the process machine | the stack of frames, `finished`, `restart`, the spin count | turns, finding an entry, PROCESS, DONE, REDO, SKIP, DOALL, PARSE, END, EXIT, RESTART | returns to the right place, loops through nested calls, restarts without end, the clock on input |
| `internal/vm`, the sentence | the sentence flags, the literal, the noun for pronouns | `sentence`, `words`, `place`, `remember`, `splitQuoted` | what one line leaves for the next |
| `cmd/qrun`, the console | the scanner, the channel of lines, one goroutine | `Input`, `InputWithin`, `AnyKey` | the only concurrency of the program: a reader racing a clock |
| `internal/qtest`, the runner | the step reached, the text not yet matched, the keyboard buffer, the report | the pump, one case per kind of step; the console of the adventure | two programs taking turns: a script, and an adventure with clocks and pauses; a person in between |
| `internal/qtest`, reading scripts | none past the parse | `Parse` | text handling |
| `internal/front/legacy` | the source stack of includes, two counters of conditionals, the symbols, the section reached, the labels and the SKIPs waiting for theirs, the database | scanner, preprocessor, one parser per section, labels | conditionals in one another kept by counters; labels used before they are defined, in entries that share a block; texts filed from condacts among those of the sections |
| `internal/back` | the texts, the token table, the image, the address of each table | compress, link | numbering before and after pruning; alignment, byte order, limits of 64 KiB and of bit fields |
| `internal/ddb`, `internal/ddbfile` | the database | build, validate, read | the reader must invert the linker, with nobody to say how the bytes were laid |
| `internal/charset` | none | encode, decode | one code, several readings |
| `internal/zx0` | the block stream and its open bit group | encode, decode | the two must agree at every limit |
| `internal/media` | disk images: directory, blocks, tracks | write files into +3 and data disks; read those and FAT12, D64, ADF | block allocation, extents, a bad track in the middle |
| `internal/build` | a directory of files | write, read | a write over an older build, or one that stops half way |
| `internal/pack` | memory maps, the pictures left out | package for a machine | what lies where in 64 KiB; what is left out when it does not fit |
| `cmd/qundaad` | the source text written | decompile | sequential translation |
| commands, `internal/runtime`, `internal/console`, `internal/util`, `pkg` | none | input and output | nothing with a history |

How they interact: `qrun` builds a `vm.Machine` on a database read by
`ddbfile`, and gives it a `vm.Console`. In play that is the `console` of
`qrun.go`, whose goroutine feeds lines through a channel; under test it is the
`qtest.Runner`, which is *called back* by the machine (`Print`, `Input`,
`InputWithin`, `AnyKey`) and advances the script inside those calls, and which
passes the calls on to a second console while a `BREAKPOINT` is in force. The
compiler's chain is a pipeline: `front/legacy` builds a `ddb`, `back` links it,
`build` leaves it in a directory, and `pack` and `media`, run by another program
at another time, put what the directory holds on something a machine can load.

What makes each modelled part correct:

* world: what is said of flags and places stays true under any sequence of
  condacts; limits of weight and number are respected however things nest;
* process machine: calls return where they were made, loops give every object
  its turn and only one, the end of the input stops the game, restarting does
  not go on for ever;
* sentence: the flags mean what the line as a whole means, and nothing of an
  earlier line is mistaken for this one's;
* console: no line lost, doubled or reordered whatever clocks run out;
* runner: a script reported as holding held in every step; clocks are honest;
  the run ends;
* compiler: the lines kept are those whose conditionals say so; a SKIP lands
  where its label stands; a text written in a condact is the one its number
  finds; the bytes read back as what was written;
* build: what is read is one build, whole, and never pieces of two, whatever machine
  it is for;
* disks: no block has two owners; files read back, and a bad track takes with it
  only the files that lie on it;
* packing: parts do not load over one another, and every picture is found or is
  said to have been left out;
* ZX0: what the encoder writes, the decoder reads back.

## Modules

| module | models | kind |
|---|---|---|
| `Words` | a word's meaning and the filing of words in slots (`parser.go`) | operators |
| `World` | the data condacts (`condacts.go`, `objects.go`, `vm.go`) | state machine |
| `ProcessMachine` | `Run`, `runStack` and the control condacts, over `World` | state machine |
| `MachineHistory` | `ProcessMachine` and what an onlooker remembers | history variables |
| `Parser` | what a line means as a whole | abstract specification |
| `Sentence` | the scan word by word | implements `Parser` |
| `ConsoleReader` | the console of `qrun.go` | state machine |
| `QTestRunner` | the runner of `run.go` and any adventure | state machine |
| `Conditionals` | what conditional compilation promises | abstract specification |
| `Preprocessor` | the passes before the parser (`include.go`, `predefined.go`, `expr.go`, `preproc.go`) | implements `Conditionals` |
| `Sections`, `Processes` | the parser, up to the objects and from the processes on | state machine, over `Preprocessor` |
| `Charset` | a language's characters as bytes | operators |
| `Linker` | texts compressed and tables laid (`compress.go`, `link.go`) | state machine, over `Processes` |
| `DatabaseReader` | `reader.go`, `oldcondacts.go`, `qrun.go` | operators (recursive, TLC only) |
| `Compiler` | source to bytes: `Preprocessor`, `Sections`, `Processes` and `Linker` composed | composition |
| `RoundTrip` | what a database compiled reads back as, over `Compiler` and `DatabaseReader` | operators (TLC only) |
| `BuildFolder` | the directory between compiler and packager | state machine |
| `Diskette` | +3 and data disks, their container, worn tracks, their reader | state machine |
| `Packager` | the 48K tape, the +3 disk, the CPC disk | composes `BuildFolder` and `Diskette` |
| `ZX0` | the picture compressor and its decoder | state machine (decoder recursive, TLC only) |
| `MCWorld`, `MCMachine`, `MCSentence`, `MCQTest`, `MCCompiler`, `MCPackager` | small databases, lines, scripts, sources, builds | values for TLC |
| `Induction` | | lemmas: induction over numbers and finite sets, folds, sums |
| `WorldProofs`, `MachineProofs`, `SentenceProofs`, `ConsoleProofs`, `QTestProofs`, `CompilerProofs`, `PackagerProofs` | | theorems |

**World.** `flags`, `loc`, `done`, `continuing` and `picture` are the fields of
`Machine` a condact reads or writes; `db` is the database, a variable so that one
run checks several, and never changed. `Do(op, a)` is `exec` for one condact with
its operands already read; its disjuncts group condacts the code implements with
one helper (`Test` for `need`, `Handle` for `get` and `drop`, `Move` for
`moveObject`...). `WeightAt` is a recursive function over the nesting depth, as
`weighOne` is cut at `maxNesting`. What a condact prints is left out, but for
`done`, which printing sets.

**ProcessMachine.** `stack` is the stack of frames with the fields of `frame`.
`BeginTurn` and `EndTurn` are the body of `Run`'s loop; `FindEntry` is
`findEntry` to its end, `loopOrPop` included; `Exec` is one condact; `LeaveEntry`
the end of a block. `ParseLine`, `ParseExpired` and `ParseEnd` are the three
answers a console may give. `Crash` is the panic of an entry below the first,
which SKIP backwards may reach; `Broken` a condact with no implementation.
`Run` is given one reset at `Init`. `SpinLimit` and `MaxNesting` are the code's
constants, parameters here; `MaxInputs` bounds the lines a player types.

**MachineHistory.** A record for each frame: whether it, or what it called, has
done something; the objects its loop found in their place and that have `stayed`
there since; those it has `taken`. `asked` is how the last question for an order
ended, until the adventure restarts or writes the clock's flag itself.

**Sentence and Parser.** `Parser` says in one step what a line leaves in the
sentence flags, the literal and the pronoun's noun: its words are those outside
quotes, counted by the quotes before each (`Taken`). `Sentence` cuts the quotes
out, as `splitQuoted` does, and is then the loop of `words`, with the slots filled as words come, and implements it under the
mapping that shows the old values until the loop has ended. A typed word is a
model value and `Spelling` what it is cut to; a quote stands apart from the words,
as a player types it.

**ConsoleReader.** Lines are numbers. A channel without a buffer is the goroutine
standing at its send: `Receive` is both ends. `select` with both cases ready is
`Receive` or `Expire`. `ScanFails` is a Scan that ends on an error (a line
longer than the scanner holds, an input that cannot be read), after which the
goroutine returns as it does at the end; `broken` remembers it. `Games` consoles are made one after another over the same
input, as `test` does for its scripts. `held` and `taken` are history.

**QTestRunner.** The adventure is any that prints, asks with a clock or without,
pauses, ends or breaks; the script is a sequence of steps; the person at a
`BREAKPOINT` gives orders, resumes, lets the clock run, or has no more input. Each
kind of step of `pump` is an action or a few, by outcome. Sleeping is counted,
not done: `slept` and `quiet` are history.

**Preprocessor and Conditionals.** A source is read once, in order, without
looking ahead, so it is chosen a line at a time as it is read, and no source has
to be enumerated. A line is a record whose `is` says what it is; what it spells
is left to the scanner. `depth` is `skipDead`'s local counter, 0 when it is not
running: what in the code is a loop inside a call is here one step per line, like
everything else. `Conditionals` keeps the stack the program does without.

**Sections and Processes.** `cursor` walks `out`, what the preprocessor let
through; one action per kind of line each section knows, and `Refuse` where the
code returns an error, which ends the compilation. Entries of a group share a
block by holding its number, as in the code they share a pointer: a SKIP patched
through one is patched for all. `LastText` is what each table of texts has room
for. `opened`, and the line every entry, label and SKIP
carries, are history.

**Linker and DatabaseReader.** `LinkerNext` is `link`'s steps in its order, each
a table laid at the end of `image` and its address noted in `pointers`; `step` is
-1 when one fails. Bytes are bytes: the alignment, the byte order, the note
lengths of PAUSE, the bits of weights and attributes are those of the code. The
reader is a set of operators over a *reading*: who made the database, how long
its header is, where it was laid, how many tokens it has. `ReadsBack` (`RoundTrip`) asks that
the first reading that makes sense, of those the code tries, gives back what
`Expressible` says of the database: the same, but for what bytes cannot say (where
an object that is nowhere was written to be, which of two words of one spelling a
source meant, the case of a word). It leaves aside, by name, the database the
code's reader cannot read: of one process, on a machine that aligns nothing
(`RoomForTheLastMark`; the run `oneprocess`).

**BuildFolder, Diskette, Packager.** `BuildFolder` writes one file per step and may
stop after any; `MachineOf` is the number of the machine a manifest names, and
`NamesItsMachine` what `parseManifest` asks of it. `Diskette` allocates blocks from the directory on, an extent per
`BlocksPerExtent`, and what is on it is a sequence of cells so that no sector
can be taken for another. `spoilt` is what `damaged` is given. `Packager` reads a
build from the directory, places its parts in a map of memory or on a disk, and
leaves out what does not fit; a tape with a block past the top of memory is not
made (`TapeHolds`, `TAP.Code`). `tape` is the sequence of blocks in the order they
load, and the properties read the memory they leave behind.

**ZX0.** The writer is an action per block (`WriteLiterals`, `WriteCopy`,
`WriteEnd`) over a stream with an open bit group, `Bits` to the byte. The match
finder is the code's: the longest copy at each place, the nearest of equals, and
the offset in hand before any other. The decoder is modelled bit by bit, with the
marker that says when a byte of bits is spent.

## Runs

| run | distinct states | checks |
|---|---|---|
| `world` | 19,606 | every condact of six kinds of adventure in every order |
| `machine` | about 50,000 | six adventures against every sequence of five answers |
| `sentence` | 23,189 | lines of up to two words of six, and six longer ones, in every order |
| `console` | 70,660 | two games, four lines, any question at any time, and a Scan that fails at any |
| `qtest` | 147,631 | all scripts of two steps and five longer |
| `compile` | 269,411 | sources of six plans, line by line, to the bytes and back |
| `pack` | 189,494 | some fifty builds written, stopped, overwritten and packed at every fit, on disks that wear; every screen of up to ten bits compressed and decompressed |
| `nested`, `scripts`, `suite`, `oneprocess`, `index` | stop at a violation | one disagreement each, below |

Each property has a mutant in `PROJECT.json`: a definition of the model changed as
a plausible bug would change the code, under which TLC finds the property
violated. They stand beside the definitions they replace, under the word *Mutant*.

**Bounds and why they are enough.** *World*: three objects are what it takes for
a container in a container in a container, and for two objects that answer to a
word with one nearer than the other; weights are chosen to pass 255; flags
are the system's and two of the author's. `MaxNesting` is 2 so that the cut is
reached. *Machine*: each adventure has up to four processes and a loop within a
call; five answers let a question time out, be answered and be asked again
around a restart; `SpinLimit` 2 instead of the code's thousand only brings
the guard closer, and rolls are the lowest and the highest. *Sentence*: pairs of
words meet every pair of kinds, and the longer lines hold second nouns, several
quotes, an adjective worth 255 and words of one spelling. *Console*: the fourth
line is one behind a line held by each goroutine and one taken by each game.
*QTest*: a pair of steps meets every pair of kinds; the longer scripts are the
shapes of `docs/qtest.md`; clocks are none, or two seconds against steps of one,
three, four and five.

*Compile*: a plan says what each line of a source may be, and TLC tries every
choice. `JumpPlan` has labels before, between and after SKIPs in two entries of a
group, over two processes or one in two parts; `Reach` is 2 for the code's 128, so
that a jump one entry too far is written both ways. `ConditionPlan` is every six
lines of `#ifdef`, `#ifndef`, `#else`, `#endif`, a definition and an entry;
`DirectivePlan` and `WrongPlan` are what is refused, and by whom, a table of texts that is full among them. `WorldPlan`, of two
processes, and `OnePlan`, of one, are
linked, for a machine of eight bits, a PC and an ST: between them the two byte
orders, with and without alignment, and the two base addresses. The PC is given names on
the command line, one of them empty and one twice. `MaxMessage` 1 (for 255) is
filled by three texts; `AddressLimit` 33,980 (for 65,535) lies within the sizes of
the little worlds for the Spectrum, so that some fit and some do not. Four tokens
(for 128) include one inside another's expansion, one that is pruned, and the
first, which never is.

*Pack*: memory and sizes are scaled to thousandths with the order of the
addresses kept, and interpreters are three units long; databases leave the pictures where
they are, push them up, leave room for one, or do not fit. Disks have seven tracks
of five sectors, a record of 2 cells to 128 bytes, a block of 4 to 1,024, a
directory entry in 1 to 32, three blocks to an extent (16): a file of two extents,
a last record half full, a full disk and a full directory all occur. One of the four builds
that are written over one another is for a PC, and one loading picture is longer than the
memory. `MaxWorn` 2
lets two tracks be turned or spoilt, the directory's among them. `Bits` 2 makes an
offset four bits and a byte's bit group two, so that a screen of ten bytes reaches
past the longest offset and ends a group of bits after any block.

**Fairness.** `machine`: `WF(Next)`: the interpreter is sequential and never
waits but for the console, which answers. `console`: weak fairness of the
goroutine, which Go schedules; strong fairness of asking and of receiving, for a
game asks again and again, and a line that is there when a clock of at least a second
starts is taken before it ends; weak fairness of closing, for the person leaves.
Nothing is assumed of a Scan that fails: it may never do so, and `EveryLineIsTaken`
excepts the input of which it did.
`qtest`: weak fairness of the pump and of the return of a game that is over;
strong fairness of asking, for an adventure is a loop around its input. No
fairness is given to the person, so `RunEnds` excepts one who never resumes.
`sentence`: the loop of `words` goes on. The compiler and the packager are run
once to their end, and have no liveness to state beyond it.

Deadlock is checked in every run but `compile`, `oneprocess`, `pack` and `index`, where a
refused source, a linked one or a finished disk is where the program stops.

## What the checks found

* `nested`: a DOALL run in a process that another DOALL's body calls writes over
  flag 50, which is the outer loop's position; objects get a second turn
  (`objects.go:307`). While nothing but a loop moves the flag it counts in
  (`LoopsCountAlone`, a property of the run `machine` and the hypothesis of the
  theorems), `NoObjectGetsTwo` holds.
* `scripts`: testing several scripts at a terminal makes a console for each, and
  the goroutine of the first that reached a BREAKPOINT goes on reading the
  input: it takes a line meant for a later one (`qrun.go:182`).
  `OneReaderKeepsOrder` is what holds as long as one console has been asked.
* `oneprocess`: the reader asks for four bytes at the mark that ends a process
  (`reader.go:804`). After the last one there is that byte and the process table,
  two bytes a process (`link.go:772`): three bytes in all for one process on a machine
  that aligns nothing, and the database the compiler has just linked is not
  read, not even from the container that says how it was laid. On a machine that
  aligns there is a byte more. `ReadsBack` says what holds.
* `suite`: `docs/qtest.md` promises that a BREAKPOINT left in a script does
  nothing in a suite; `qrun` always gives the runner a console, so with nothing
  behind standard input the game ends there, the steps after it never run, and
  the script is reported as holding. `HoldingIsTheWholeScript` is what holds.
* `index`: the room a tape has for pictures is counted with the index entry of
  the picture being laid and never with those of the pictures already laid
  (`zximages.go:218`, `zx48.go:247`). When pictures nearly fill the memory the
  page ends above where the index starts, loads over it, and pictures are not
  found. `TapeLoadsWhole` says what holds: the interpreter, the database, the stub and
  the pictures are in the memory whole once all have loaded, and every
  picture is found and drawn when the page ends below the index.

Noted while modelling, without a run that stops at them; the first three are
exceptions in properties of passing runs:

* A build for a PC, which `qdaad` writes, `qpack` cannot read: `parseManifest` refuses
  machine 0 as no machine (`build.go:263`), and 0 is the PC (`machine.go:13`).
  `WrittenIsRead` says what holds: the directory has all of the build and nothing
  else, and it is read when its machine has another number, and only then.
* Flag 1 is documented as how many objects are carried (`vm.go:38`),
  but PLACE, PUTO, SWAP, CREATE, DESTROY and REMOVE change that and leave it, and
  so does the first game's reset with objects carried from the start.
  `CarriedFlagKept` is what does hold: flag 1 is right in an adventure of which
  `CountsFaithfully` is true. It carries nothing at the start or restarts, runs none of
  those condacts on what is or would be carried, never writes flag 1 as a flag, and
  never has the player *in* room 254.
* The console's goroutine closes the channel whenever Scan is false (`qrun.go:370`), and
  its comment says that a closed channel is the end of the input; Scan is false too
  at a line longer than its buffer, and nothing asks why, so the adventure ends with lines
  unread. `EndComesLast` is what holds, of an input that breaks nothing.
* A condact's opcode above 127 (the compiler's pseudo-condacts, `condact.go:67`)
  meets the bit the linker uses for the indirection (`link.go:871`); `Expressible`
  leaves them out.
* A label written in one part of a process and jumped to from another part is
  resolved by entry number within the part, and the parts are put one after
  the other (`ddb/process.go:58`). Nothing promises otherwise; `WholeSkipsLand` says what
  holds, of processes written in one piece.
* Two WAITs on one question may together outlast the adventure's clock, which is compared
  with each alone (`run.go:476`) and so never runs out. A step's WAIT is documented alone.
* `zxplus3cache.go:168` counts the +3's other files as taking an entry each,
  which a database of two extents does not; the disk refuses the picture too many, and
  `DropPicture` leaves it out.
* A loading picture may be a file of any length (`zx48.go:110`), and one that goes past
  the interpreter's address is partly loaded over; it has been shown by then.
  `TapeLoadsWhole` asks only for what is below that address. One that goes past the last
  address stops the tape from being made.
* A picture of number 255 cannot be told from the mark that ends an index.
* The comment that opens `zx0.go` says the encoder writes no copies; it does.

## Proofs

Eight modules hold the proofs, and TLAPS discharges every obligation in
them (20,167 in all). `World*` and `Machine*` are for every database,
every `MaxNesting`, `SpinLimit` and `MaxInputs`. They assume that the flags
modelled are all 256 (`AllFlags`; the TLC runs keep those the condacts use), and,
where condacts are run alone (`WorldSpec`), that each has the operands its opcode
takes (`CondactsComplete`, which the format guarantees). The others assume only
what their component's module does of its constants.

* `WorldTypes`: `WorldTypeOK` under any data condacts. It is inductive as it
  stands; the lemmas say what each helper gives back: that arithmetic stops
  within a byte, that weights are numbers no greater than 255, that bits are
  within theirs.
* `NothingPutAtHere`: an action property, from the cases of `Do` that move
  things and the range of `Resolved`.
* `NearestAlwaysMeant`: an action property, in two parts: what the flags refer to
  after a condact that names an object is what the search found (`MeantIsReferred`),
  and the search finds none further than another that bears the name
  (`MeantIsNearest`).
* `WeighedRight`: the sum of what is inside, cut once, is what the code works out
  by cutting at every level. What is near a thing down to one level more is the thing and
  what is near each thing in it (`NearLevels`), and these are apart when nothing is
  inside itself: a thing is in one place, so of two chains that begin at it one
  is the beginning of the other (`ChainsAgree`), and two that come to the same container
  through different things would close a circle (`NearApart`). Then the weight found is
  the sum for one level more and one more (`FoundIsNear`), for a sum of
  numbers cut is the sum cut (`SumOfCut`). That `WeightAt` obeys its own definition
  is proved too (`WeightByLevels`).
* `GettingWithinLimits`: an action property. Even of things inside one another the
  weight found is never less than what is inside, so under 255 nothing has been
  cut and what GET compares with flag 52 is the weight (`NoWeightIsMissed`);
  and taking a thing puts nothing inside another (`NothingGetsInside`).
* `MachineInvariant`: `IInv == TypeOK /\ StackOK /\ SpinsBelow`. None of the
  three is inductive alone. That a turn does not count past the limit
  (`TypeOK`) needs that it began within it (`SpinsBelow`). That a caller waits
  just past a PROCESS (`CallersWait`) needs that a frame on top stands inside
  its entry (`RunningInside`), for popping makes the caller the top and calling
  makes the top a caller. That a loop goes back to a DOALL that is there
  (`LoopsReturnToTheirDoall`) needs where the top stood when the DOALL was run.
  And that a frame goes to an entry that exists needs the types of the stack.
  There is a lemma for each action, and a theorem for each property
  (`MachineTypes`, `NeverOffTheEnd`, `ReturnsArePlaced`).
* `DoneIsNeverLeftOver`: from `IInv` and the history `MachineHistory` keeps, one
  record for each frame. `HistoryOK` says there are as many records as frames; that
  needs that a step changes the stack in one of five ways (`StackMoves`: empties it, leaves it, drops
  its top, replaces its top, or puts a frame on it), and that a call clears `done`.
* `NoObjectIsTakenTwice`, `NoObjectIsPassedOver`: action properties of loops, under
  `LoopsCountAlone`. `LoopInv` says of every loop that is on that each object it has
  taken is no further than its count in flag 50, that each object that has
  stayed and is no further has been taken, and that the count does not wrap. A
  loop goes round with the first object past the count (`NextObject`), so it
  takes a new one; it ends when there is none past it, so none that stayed is left.
* `ClockTellsTheLastWait`: `ClockBitIsNews` of any adventure. TIME and INPUT keep the
  flag's top bit, which is arithmetic on bytes; PARSE sets or clears it by the answer
  it got; a new game clears it; and no other step writes the flag but a
  condact told to (`Writes`).
* `CarriedFlagIsKept`: of `CountsFaithfully` adventures. `Counted` carries with the
  count that the player is never at 254, where what DROP puts down would be
  held again. A condact that hands objects round counts them anew (`RecountedCounts`),
  and what is counted fits in a byte (`CarryingFits`).
* `ScansFileWhatIsMeant`: what the slots hold half way through a line is what the
  words scanned so far mean, taken together, for every vocabulary and every
  line. `ScanIsFiled` defines that by the first noun of the words, the second,
  and so on; so the work is in how the first and the second of a sequence change
  when a word is added (`FirstIsLeast`, `FirstOfMore`, `SecondOfMore`), and then one case
  per kind of word (`FiledWordByWord`). The types of the line and the literal have
  to be carried along.
* `SentenceRefines`: `Sentence` implements `Parser`, step by step, for every
  vocabulary and any lines. The two split a line in different ways: `Sentence`
  cuts it at its quotes (`SplitQuoted`), `Parser` keeps the words before which
  there is an even number of quotes. The lemmas show that the words kept are the
  same, in the same order, without induction over the line: the kept positions
  of a run without quotes are a run (`TakenRun`), and two runs are put one after
  the other (`TakenTwoRuns`). `RefinementInv` adds to the invariant of the scan that the
  line scanned is the split of one that was typed (`SourceOfScan`), and
  `ScansFileWhatIsMeant` does the rest.
* `ConsoleStaysTyped`, `LinesKeepTheirOrder`, `EndAlwaysComesLast`: for any number of games and of
  lines. A line may be in three places: not scanned yet, in the goroutine's hand, or taken.
  `ConsoleInv` says which, from where the goroutine stands (`HandsOK`,
  `OrderOK`); order alone says nothing of the line in hand, so it is not inductive.
* `HoldingIsHonest`, `NothingSaidIsLost`, `KeysAreHandedOverOnce`,
  `ClocksAreHonest`, `RunnerTypesHold`: of any script against any adventure and
  any person. `RunnerInv` adds that a run stopped has a failure in its report,
  and that what was slept is what was waited until the stop.
* `PreprocessorRefines`: `Preprocessor` implements `Conditionals`, step by step.
  The stack that the abstract specification keeps is rebuilt from two counters and
  the lines read; `CountersAreSound` (`CountersOK`: a branch is skipped only with a conditional
  open) is the invariant the step cases need.
* `TextsAreAlwaysFiled`: for every set of sources. The number a condact is given is
  looked up in tables that go on growing, and a resolved SKIP changes operands, so
  `FilingInv` carries, while the source is read, the shapes of blocks and condacts
  (`ProcessOK`), that a table only grows at its end, and that what waits for a
  label is a SKIP that names one (`PendingOK`), so that patching it leaves texts alone.
* `SkipsAlwaysLand`: for every set of sources and any `Reach`. `WholeSkipsLand` speaks of
  a finished database by the lines of its source; the program knows only counts. `LandingInv`
  relates the two as the source is read: the entries of a process come in the order
  of their lines, all above the cursor, and each block has a first entry (`EntriesOK`);
  a label names the first entry below it, or the one after the first of its group
  (`LabelsOK`); a SKIP either waits, for its own label and from its own entry, or
  goes there already (`JumpsOK`). It is kept because entries are only added at the end,
  below every label there is. A process written in two parts breaks `EntriesOK`, which
  is why the property excepts it.
* `WholeBuildsAreRead`: `WrittenIsRead` for any builds, machines, files left over and
  stops: that what is in the directory is the build, and that it can be read exactly
  when its machine is not numbered 0. `FolderOK`
  says of each file that it is this build's from the step that writes it on, and
  of the pictures' directory that nothing else is left in it.
* `TapesLoadWhole`: `TapeLoadsWhole` of `ReleaseSpec`, for every build, with any addresses and sizes.
  It assumes of them what `PackagerAssumption` says: numbers of pictures are bytes, sizes
  and addresses are numbers, and the stub has room for the font it ends with. `ReleaseOK` carries that what
  was read has known sizes (`SizesStored` says it of the directory, in whatever
  state a write left it) and that a tape there is was made by `ZX48` of what was read. The rest is of
  what one tape holds. The page is a fold over the pictures in ascending order:
  `OneMoreLaid` adds one, and `PageIsLaid` concludes that each picture in the page lies whole where its
  row says, with the rows in order. `IndexIs` follows each row through the
  concatenation and the reversal to its place below the stub. Loading is a fold over the
  blocks: the memory holds at an address what was loaded there last (`LoadedLast`),
  and each block lies below those after it, but for the pictures, which are last
  (`LaterLiesAbove`); so each keeps what it is to keep (`BlocksAreKept`). Then the
  interpreter, reading the index down, meets lower numbers only until it comes to the picture's own
  row, and never the end mark (`RowIsFound`), and draws from there exactly the run that was
  packed (`PictureIsDrawn`).
* `BlocksHaveOneOwner`: for every size of record, sector, block, extent and disk, and any files
  (`DiskSpec(Contents)`, `FileNames` and `FileCells` any sets). `DiskOK` says that what has
  been handed out is whole blocks, so that the next file's begin where all others end.
* `FilesAreReadBack`: `FilesReadBack` of the same disks, if a track has two sectors
  at least (`DisketteAssumption`): a spoilt track of one would repeat no number.
  `DiskHolds` is the invariant. It says where each file lies: at
  some place in the directory its entries are, as many as it has extents, each naming the
  blocks that follow the extent before (`FileLies`), those blocks of `data` hold its
  cells, and there is no entry that is not some file's. And of an image it says that each track that
  has not gone bad holds, under some permutation of its sectors (`SoundTrack`),
  what `TrackCells` says, and one that has gone bad is two sectors of one number
  (`SpoiltTrack`); turning a track permutes it again (`TurnedPermutes`). The rest follows the reader over one image.
  The order of the sectors' numbers is one and no other (`OrderedIs`), so a
  sound track gives its cells (`PayloadOfTrack`) and a bad one is made up to the width of
  the others (`OneMoreTrack`): what is after it stays where the directory says
  (`PayloadIs`, `AreaReads`). The directory read is the one written (`DirectoryIsRead`), an extent is the
  cells it was given (`ExtentReads`), the extents of a name in the order of their
  numbers are the file (`WholeReads`, `NameIsAssembled`), and the place where the directory is
  is found at the first try (`FilesAreFound`).
* `ReleasesReadBack`: the two above of `ReleaseSpec`, for whatever qpack puts on a disk.
  A step of the packer is a step of the disk: what it puts there are files of the kind
  `Contents` names (`Plus3FilesAre`, which needs what a choice of pictures
  for the buffer and a fold over them come to, and `CPCFileIs`), and a picture that comes off begins the disk again.
  `FileNames` and `FileCells` stand for any sets that hold the names and the cells of releases
  (`ReleasesCovered`); they are no constants of the model.

* `PicturesAccounted`: `EveryPictureAccounted` of `ReleaseSpec`, for every build. It assumes also that
  the names a release uses are names `cpmName11` lets by (`NamesAssumption`: they are of capitals,
  digits and a point). The invariant is `PicturesPlaced`. While a +3's disk is
  being written, the files for it are the parts that are not pictures, each with its header
  (`PartsAre`), followed by the first k of the pictures that did not
  fit the buffer, and `dropped` is the rest of those (`Accounted`). So a file that does not go in is either a part, and
  the disk is given up, or the last picture, and coming off it
  keeps the two lists one (`LastIsDropped`); the others are in the buffer, which is a fold
  that lays each picture whole where its row of the index says and moves none that is
  there (`LaidNext`, `BufferIs`). That the reader finds a picture on the disk only when
  it is one of the files is the other half: nothing is read that was not
  written (`ReadIsWritten`), and no two files have one name (`NamesOnce`).

`Induction` is where these begin. The library's induction theorems take an operator, which
none of the provers here can give them, but that a well-founded relation leaves every
set a least element (`WFMin`) takes none: with a set in the place of the
operator, what holds of nought and of the next of each holds of all
(`NumbersInduction`), and what holds of a finite set when it does of it less
any one element holds of every finite set (`FiniteInduction`). That a finite set of numbers
has an ascending sequence of them (`SortedExists`) is proved so, and what a loop over such a sequence
builds. A fold is defined by a choice of
a function that obeys an equation; that there is one is `FoldExists`, and then what a
sum is when one element is added, of two sets, of a family of sets, or of numbers
cut at a limit follows.

What failed proofs changed. A loop was taken to end
whenever its frame left the stack, and to have been *offered* what was in its
place when it began; the first is false of an EXIT out of a loop and the second
of an object that leaves and comes back behind the count (`LoopEnds`, `stayed`). `ClockBitIsNews`
did not say what a table that writes the clock's flag makes of it
(`asked = "hand"`). `CarriedFlagKept` did not except a player in room 254. The kinds of
an operand were a CASE whose arms overlapped, which means no one value; and nothing said that
a condact that skips takes an operand (now in `ProcessesAssumption`).
`GettingStaysWithinLimits` excepted objects inside one another, which it need not, and did not
except an adventure of 255 objects whose last, number 254, is worn and shows what is
in it: 254 is also the number of the player's hands, so what is held is inside it as
well, and is weighed twice.

Only model-checked, and why. Liveness (`EndOfInputStops`, `RestartsRunOut`,
`ScansEnd`, `EveryLineIsTaken`, `RunEnds`) needs ENABLED. `ReadsBack` and
`StreamReadsBack` are about readers written as RECURSIVE operators, which a module with
theorems may not reach.
`LoopsCountAlone` is a hypothesis, true of some adventures and not of others: the run
shows it of its six.

## Not modelled, and why

* Text as such: the scanner's tokens, wording, layout and colours; the JSON form
  of a source and the settings file, which say the same lines otherwise.
* Random numbers are any number (`Rolls`). A quote typed inside a word. The
  debugging watch and the transcript, which only look. SAVE and LOAD, and RAMSAVE and
  RAMLOAD, which the machine implements as nothing.
* `qtest`'s parser and text matching: one line at a time, with no state.
* The token tables of each language (`tokens.go`), which are data.
* Reading: databases found inside larger files (`FindDatabases`), the MSX's packed ones
  (`msx.go`), pictures. FAT12, D64 and ADF disks, which are read for the
  decompiler and never written. TAP and TZX, sequences of blocks.
* Releases that copy files for another machine. The interpreters themselves,
  which are not in the repository's source: they are sizes.
* The decompiler: a database to source text, in one pass, with nothing kept from
  one call to the next. Its correctness is that recompiling gives the same
  bytes, a property of text; the half of it that can go wrong by state, reading
  the database, is `DatabaseReader`.

## Plan

1. *Done*: world, machine, sentence, console, runner; the compiler from a source to
   its bytes and back; the build directory, disks, tapes and the compressor.
2. *Left, modelling*: what the decompiler makes of a process whose blocks are shared
   or jumped into; the chains of clusters and sectors that FAT12 and D64 disks are
   read along; the MSX's packed databases.
3. *Left, proving*: a promise in few words and a refinement of it: of the console
   a queue of lines, while one console has been asked; of the build's directory a build
   that is whole or cannot be read.

## Running

    tlc -workers 2 -config MCMachine.cfg MCMachine
    tlapm MachineProofs.tla
