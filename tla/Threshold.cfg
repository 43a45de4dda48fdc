\* Three requests, two of them with one ID, and a malformed one, a threshold of two,
\* two updates handled concurrently.
SPECIFICATION Spec
CONSTANTS
  None = None
  u1 = u1  r1 = r1  r2 = r2  r3 = r3  r4 = r4  p1 = p1  p2 = p2
  Users = {u1}
  Requests = {r1, r2, r3, r4}
  Updates = {p1, p2}
  Ids <- PairIds
  IdOf <- PairID
  TargetOf <- OneHuman
  Malformed = {r4}
  Streaming = {}
  Causes = {}
  LlmFallback = FALSE
  Polling = FALSE
  Enabled = TRUE
  AfterMissedReplies = 2
INVARIANTS
  OfflineIsEarned
  SendNeverBlocks
  NothingRetained
PROPERTIES
  AvailabilityChanges
SYMMETRY PairSymmetry
