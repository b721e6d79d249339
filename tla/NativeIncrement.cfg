SPECIFICATION Spec
CONSTANTS
  Vars = {"x", "y", "z"}
  Dialects <- OnlyIncrements
  Ticks = 3
INVARIANT IncrementYieldsOldValue
