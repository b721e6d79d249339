SPECIFICATION Spec
CONSTANTS
  Fuel = 30
  Dialects = {"Closures"}
  Programs <- MCPrograms
INVARIANT NothingIsLeft
