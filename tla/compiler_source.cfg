SPECIFICATION FairSpec
CONSTANTS
  Sources <- SomeSources
  Chars <- SomeChars
  MaxChars = 40
  Idents <- SomeIdents
  Numerals <- SomeNumerals
  Extern <- ExternIs
  Indeterminate = "indeterminate"
INVARIANTS
  TypeOK
  ParserMeetsGenerator
  NothingBeforeTheWholeFile
  EveryCharacterAnswered
  
PROPERTY Terminates
