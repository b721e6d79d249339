SPECIFICATION Spec
CONSTANTS
  Vars = {"x", "y", "z"}
  Dialects <- MCDialects
  Ticks = 3
INVARIANT TypeOK
INVARIANT EdgesMatchTerminators
INVARIANT UsesAreDefined
INVARIANT DefinitionsDominateUses
INVARIANT DominatorsAreExact
INVARIANT PhisWhereDefinitionsMeet
INVARIANT TopIsNearest
INVARIANT RunsAgree
