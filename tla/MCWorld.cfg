SPECIFICATION WorldSpec
CONSTANTS
  Databases <- MCDatabases
  FlagNo <- MCFlagNo
  MaxNesting = 2
  Rolls = {0, 99}
INVARIANTS
  WorldTypeOK
  WeightIsWhatIsInside
  CarriedFlagKept
PROPERTIES
  GettingStaysWithinLimits
  NothingIsPutAtHere
  NearestIsMeant
