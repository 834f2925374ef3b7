CONSTANTS
  UINT_MAX = 31
  INT_MAX = 15
  CharWord = 8
  ShortWord = 16
  LongWord = 64
  MAX_ARGS = 3
  Calls <- MCCalls
SPECIFICATION FairSpec
INVARIANTS
  TypeOK
  OneIndexing
  LiteralsKept
  FieldsDenote
PROPERTIES
  CallEnds
CHECK_DEADLOCK FALSE
