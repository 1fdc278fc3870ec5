SPECIFICATION HSpec
CONSTANTS
  Databases <- MCDatabases
  FlagNo <- MCFlagNo
  MaxNesting = 10
  Rolls = {0, 99}
  Lines <- MCLines
  Impatient = TRUE
  MaxInputs = 5
  SpinLimit = 2
INVARIANTS
  TypeOK
  RunningInside
  ReturnsToItsPlace
  DoneIsTheProcessesOwn
  ClockBitIsNews
PROPERTIES
  LoopsCountAlone
  EveryObjectGetsItsTurn
  NoObjectGetsTwo
  EndOfInputStops
  RestartsRunOut
