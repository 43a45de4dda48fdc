\* Two requests with one ID, one of them streaming, one that no human serves, and
\* two updates handled concurrently: every behaviour of the polling loop is one of these.
SPECIFICATION FairSpec
CONSTANTS
  None = None
  u1 = u1  r1 = r1  r2 = r2  r3 = r3  r4 = r4  p1 = p1  p2 = p2
  Users = {u1}
  Requests = {r1, r2, r3}
  Updates = {p1, p2}
  Ids <- PairIds
  IdOf <- PairID
  TargetOf <- OneUnroutable
  Malformed = {}
  Streaming = {r1}
  Causes = {}
  LlmFallback = TRUE
  Polling = FALSE
  Enabled = TRUE
  AfterMissedReplies = 1
PROPERTIES
  EveryRequestReturns
  EveryReplyHandled
