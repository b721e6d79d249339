CONSTANTS
  b1 = b1
  b2 = b2
  NoBlock = NoBlock
  Blocks = {b1, b2}
  HirValues = 4
  MaxCopies = 4
SPECIFICATION SharedSpec
INVARIANT TypeOK
INVARIANT NoLostValue
INVARIANT OneTempPerCycle
INVARIANT PhiSemantics
INVARIANT TempsPrivate
INVARIANT FrameHoldsEveryValue
PROPERTY TempOnlyForPermutation
PROPERTY ImplementsParallelAssign
PROPERTY Terminates
CHECK_DEADLOCK FALSE
