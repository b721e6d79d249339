SPECIFICATION FairSpec
CONSTANTS
  main = main
  lib = lib
  util = util
  gone = gone
  broken = broken
  first = first
  second = second
  Files <- MCFiles
  Malformed = {broken}
  Missing = {gone}
  Aliases = {first, second}
  Entry = main
  Texts <- MCTexts
INVARIANT TypeOK
INVARIANT InternalErrorsUnreachable
INVARIANT DependencyOrder
INVARIANT InitialisedInOrder
INVARIANT VerdictIsRight
PROPERTY Terminates
CHECK_DEADLOCK FALSE
