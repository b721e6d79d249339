SPECIFICATION Spec
CONSTANTS
  Vars = {"x", "y", "z"}
  Dialects <- MCDialects
  Ticks = 3
INVARIANT EveryBlockHasPredecessor
