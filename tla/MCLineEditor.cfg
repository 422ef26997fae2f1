SPECIFICATION MCSpec
CONSTANTS
  Letters = {"a", "b"}
  Words <- MCWords
  Inputs <- MCInputs
  ShortInputs <- MCShortInputs
  Size = 100
  MaxReads = 5
INVARIANTS
  TypeOK
  TerminalsShowText
PROPERTIES
  KeysAsPromised
CHECK_DEADLOCK FALSE
