SPECIFICATION Spec
CONSTANTS
  Idents = {"f"}
  Numerals = {"1"}
  Kinds = {"identifier", "func_arrow", "relative_number"}
  MaxTokens = 6
INVARIANT EveryNumberIsPrimary
