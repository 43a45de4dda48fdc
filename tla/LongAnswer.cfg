\* Two updates that do not fit into one answer.
SPECIFICATION FairSpec
CONSTANTS
  Settings <- OnlyPolling
  MaxUpdates = 2
  BatchLimit = 2
  ResponseLimit = 1
  MaxStarts = 1
  MaxFailures = 0
PROPERTIES
  ReceiveConsumes
