SPECIFICATION Spec
CONSTANTS
  Fuel = 30
  Dialects = {"Parameters"}
  Programs <- MCPrograms
INVARIANT ArgumentsKeepTheirOrder
