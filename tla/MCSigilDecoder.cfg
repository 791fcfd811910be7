CONSTANTS
  Line <- MCLine
  MaxLines = 5
SPECIFICATION Spec
CHECK_DEADLOCK FALSE
INVARIANTS
  TypeOK
  HeldBack
  AgreesWithGrammar
  ScansMirror
PROPERTIES
  ImplementsHoldBack
