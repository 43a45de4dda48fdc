\* Some 150 configurations, each with 200 requests.
SPECIFICATION Spec
CONSTANTS
  Blanks = {"", " "}
  WellFormed = {"auto", "s1", "old"}
  Second = 2
  Configs <- AllConfigs
  Requests <- AllRequests
  Leftovers <- AllLeftovers
  None = None
INVARIANTS
  OnlyKnownRefusals
  ServesWhatItLists
  WebhookReachable
  ApiIsReachable
  KeyDecides
