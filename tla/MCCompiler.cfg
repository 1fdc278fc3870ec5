SPECIFICATION MCSpec
CONSTANTS
  Lines <- MCLines
  Options <- MCOptions
  MaxLines = 30
  Letters <- MCLetters
  Condacts <- MCCondacts
  Reach = 2
  MaxMessage = 1
  Tokens <- MCTokens
  AddressLimit = 33980
  Plans <- MCPlans
INVARIANTS
  WholeSkipsLand
  TextsAreFiled
  ReadsBack
PROPERTIES
  KeepsWhatCounts
CHECK_DEADLOCK FALSE
