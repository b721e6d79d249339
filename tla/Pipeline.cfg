SPECIFICATION Spec
CONSTANTS
  Fuel = 30
  Dialects = {"Scopes", "Closures", "Makers", "Recursion", "Control", "Classes", "Instances", "Hoisting", "Arrays", "Numbers", "Moves", "Types"}
  Programs <- MCPrograms
INVARIANT TypeOK
INVARIANT RunsAgree
INVARIANT RefusalsAreDeserved
INVARIANT LocalsHoldTheirTypes
INVARIANT UsesReachTheirVariable
INVARIANT CodeIsBalanced
INVARIANT StackDiscipline
PROPERTY EveryRunEnds
