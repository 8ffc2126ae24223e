SPECIFICATION Spec
CONSTANTS
  W = 6
  ValueSizes = {1, 4, 8}
  InitSizes = {0, 1, 5, 8, 17, 32}
  Junk = Junk
INVARIANTS
  InsideBuffer
  TypeOK
  HoldsWhatWasAppended
  NoBytesLeaked
  CopiesAreLinear
  GrowsToLeastPowerOfTwo
PROPERTY ThrowsOnlyAtLimit
