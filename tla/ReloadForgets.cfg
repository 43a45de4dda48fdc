\* A human is offline when the configuration is reloaded.
SPECIFICATION Spec
CONSTANTS
  c1 = c1  c2 = c2
  Configs = {c1, c2}
  ModeOf <- BothModes
  Invalid = Invalid
  Faults = {}
  MaxWrites = 1
  MaxFaults = 0
  MaxRequests = 1
PROPERTIES
  AvailabilityOutlivesReload
