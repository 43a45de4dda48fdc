\* A reload while a chunk is being emitted.
SPECIFICATION Spec
CONSTANTS
  None = None
  Asks <- AllAsks
  Ends <- AllEnds
  MaxContent = 3
INVARIANTS
  ReloadIsReported
