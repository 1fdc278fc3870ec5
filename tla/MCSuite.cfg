SPECIFICATION Spec
CONSTANTS
  Scripts <- MCScripts
  Texts <- MCTexts
  Clocks = {0, 2}
  MaxSaid = 2
INVARIANT
  SuiteIsTheWholeScript
