SPECIFICATION Spec
CONSTANTS
  Slices <- MCSlices
  Parsed <- ParsedTokens
  Compiled <- CompiledFile
INVARIANT LexesAsTyped
INVARIANT TreesAreDerivations
INVARIANT SentencesAreAccepted
CHECK_DEADLOCK FALSE
