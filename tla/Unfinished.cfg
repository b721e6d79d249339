SPECIFICATION Spec
CONSTANTS
  Slices <- Unfinished
  Parsed <- ParsedTokens
  Compiled <- CompiledFile
INVARIANT EveryParseEnds
CHECK_DEADLOCK FALSE
