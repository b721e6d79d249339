SPECIFICATION Spec
CONSTANTS
  Fuel = 30
  Dialects = {"Deferred"}
  Programs <- MCPrograms
INVARIANT AssignmentGivesAValue
