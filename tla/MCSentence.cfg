SPECIFICATION Spec
CONSTANTS
  Vocabulary <- MCVocabulary
  Spelling <- MCSpelling
  Typed <- MCTyped
INVARIANTS
  SentenceTypeOK
  ScanIsFiled
PROPERTIES
  ImplementsParser
  ScansEnd
