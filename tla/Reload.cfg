\* Two edits and two failures of any kind at any time.
SPECIFICATION Spec
CONSTANTS
  c1 = c1  c2 = c2
  Configs = {c1, c2}
  ModeOf <- BothModes
  Invalid = Invalid
  Faults = {"listen", "configure", "serve", "watch"}
  MaxWrites = 2
  MaxFaults = 2
  MaxRequests = 1
INVARIANTS
  OneInstanceRuns
  ExitIsClean
  ModeMatches
  DeadServerIsReported
PROPERTIES
  ChangeIsNeverLost
  ReplacesOrRestores
