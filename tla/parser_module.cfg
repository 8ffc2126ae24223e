SPECIFICATION Spec
CONSTANTS
  Idents = {"f", "x"}
  Numerals = {"1", "2"}
  Kinds = {"identifier", "real_number", "func_arrow", ":", "line_break", "+", "(", ")", ",", "extern"}
  MaxTokens = 8
INVARIANTS
  ASTSpellsSource
  DefinitionsTileSource
  NeverReadsPastEof
  
