SPECIFICATION Spec
CONSTANTS
  Games = 2
  MaxLines = 4
INVARIANT LinesComeInOrder
