SPECIFICATION FairSpec
CONSTANTS
  AddrSize = 2
  IntSize = 2
  FloatSize = 2
  FloatArith <- FloatArithAny
  Sources <- Assembled
  MemSize = 4
  InitBytes = {3}
INVARIANT TypeOK
PROPERTIES
  DoesWhatIsCommented
  LoopsOnlyByJumping
