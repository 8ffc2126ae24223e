SPECIFICATION Spec
CONSTANTS
  Names <- SomeNames
  Programs <- OneOperator
INVARIANT ContainedObjectExists
