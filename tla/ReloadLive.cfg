\* Nothing fails: an edit is applied, stop and the signal take effect.
SPECIFICATION FairSpec
CONSTANTS
  c1 = c1  c2 = c2
  Configs = {c1, c2}
  ModeOf <- BothModes
  Invalid = Invalid
  Faults = {}
  MaxWrites = 2
  MaxFaults = 0
  MaxRequests = 0
PROPERTIES
  FileIsApplied
  StopCompletes
  SignalStops
