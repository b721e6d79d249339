SPECIFICATION Spec
CONSTANTS
  main = main
  outer = outer
  inner = inner
  innermost = innermost
  Main = main
  Protos <- MCProtos
  ParentOf <- MCParentOf
  FrameSize <- MCFrameSize
  Params <- MCParams
  Captures <- MCCaptures
  Consts = {1}
  Natives = {print}
  MaxCalls = 2
  MaxClosures = 3
  MaxTemps = 2
INVARIANT TypeOK
INVARIANT OneUpvaluePerSlot
INVARIANT ClosedExactlyWhenDead
INVARIANT OpenUpvaluesPointAtLocals
INVARIANT VariablesKeepTheirValues
PROPERTY ImplementsCells
CHECK_DEADLOCK FALSE
