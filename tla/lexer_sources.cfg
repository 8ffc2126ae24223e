SPECIFICATION FairSpec
CONSTANTS
  MaxChars <- SomeSources
  Extern <- ExternIs
  Indeterminate = "indeterminate"
INVARIANTS
  TypeOK
  LongestMatch
  OneCharacterAhead
  EveryCharacterOnce
PROPERTIES
  PromiseKept
  GetReturns
CHECK_DEADLOCK FALSE
