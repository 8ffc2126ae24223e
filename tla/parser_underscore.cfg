SPECIFICATION Spec
CONSTANTS
  Idents = {"f"}
  Numerals = {"1"}
  Kinds = {"identifier", "func_arrow", "_"}
  MaxTokens = 6
INVARIANT UnderscoreIsNoArguments
