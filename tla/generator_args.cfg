SPECIFICATION Spec
CONSTANTS
  Names <- SomeNames
  Programs <- ThreeArgs
INVARIANT ArgumentsRecordedByName
