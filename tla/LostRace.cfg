SPECIFICATION TimedSpec
CONSTANTS
  None = None
  u1 = u1  r1 = r1  r2 = r2  r3 = r3  r4 = r4  p1 = p1  p2 = p2
  Users = {u1}
  Requests = {r1}
  Updates = {p1}
  Ids = {r1}
  IdOf <- OwnID
  TargetOf <- OneHuman
  Malformed = {}
  Streaming = {}
  Causes <- BothCauses
  LlmFallback = FALSE
  Polling = TRUE
  Enabled = TRUE
  AfterMissedReplies = 1
INVARIANT
  RaceWinnerIsPreferred
