SPECIFICATION HSpec
CONSTANTS
  Databases <- NestedDatabases
  FlagNo <- MCFlagNo
  MaxNesting = 10
  Rolls = {0, 99}
  Lines <- MCLines
  Impatient = TRUE
  MaxInputs = 5
  SpinLimit = 2
PROPERTY
  NoObjectGetsTwo
