SPECIFICATION Spec
CONSTANTS
  Games = 2
  MaxLines = 4
INVARIANTS
  ConsoleTypeOK
  OneReaderKeepsOrder
  EndComesLast
PROPERTIES
  EveryLineIsTaken
