\* Three updates, answers of at most two, three instances with any settings, one
\* failure of any kind.
SPECIFICATION FairSpec
CONSTANTS
  Settings <- AllSettings
  MaxUpdates = 3
  BatchLimit = 2
  ResponseLimit = 2
  MaxStarts = 3
  MaxFailures = 1
INVARIANTS
  OnceWhilePolling
PROPERTIES
  HandledInOrder
  KeepsPromise
  EveryUpdateIsHandled
