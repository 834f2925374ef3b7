CONSTANTS
  INLINE_BUFFER_SIZE = 14
  Blocks = {1, 2}
  Writers = {w1, w2}
  Statements <- MCStatements
  Codes <- MCCodes
  Messages <- MCMessages
  Descriptions <- MCDescriptions
  CodeRange = 256
  MaxCalls = 3
SYMMETRY Symmetry
SPECIFICATION Spec
INVARIANTS
  TypeOK
  OneOwner
  TextAsWanted
  OnlyKnownFaults
  ErrorsAreDescribed
PROPERTIES
  FailureKeepsText
CHECK_DEADLOCK FALSE
