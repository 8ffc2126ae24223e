SPECIFICATION FairSpec
CONSTANTS
  Idents = {"x"}
  Numerals = {"1"}
  Kinds = {"identifier", "real_number", "func_arrow", "<", "+", "*", "(", ")", ","}
  MaxTokens = 9
INVARIANTS
  TypeOK
  PrecedenceRespected
  EveryNodeOwnedOnce
  
  RecursionBounded
PROPERTY Terminates
