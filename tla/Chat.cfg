\* Every way a call can end, answered by the human or by the fallback, whose
\* provider sends up to six content events.
SPECIFICATION CallFairSpec
CONSTANTS
  None = None
  Asks <- AllAsks
  Ends <- AllEnds
  MaxContent = 7
  MaxEvents = 6
  Reasoning = TRUE
INVARIANTS
  CleanEndIsComplete
  OneOutcome
  StreamIsClosed
  OneSource
  SuccessIsComplete
  FailsOnlyWhenBegun
  OneAnswer
PROPERTIES
  CallEndsAndJoins
