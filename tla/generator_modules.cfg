SPECIFICATION FairSpec
CONSTANTS
  Names <- SomeNames
  Programs <- SomePrograms
INVARIANTS
  TypeOK
  EveryFunctionVerifies
  CodeComputesBody
  CallsInSourceOrder
  AcceptsTheValid
  ModuleIsWhatWasPrinted
PROPERTIES
  FinishedFunctionsStay
  Terminates
