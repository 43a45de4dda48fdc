\* Two requests to one human, two updates handled concurrently (webhook mode).
SPECIFICATION Spec
CONSTANTS
  None = None
  u1 = u1  r1 = r1  r2 = r2  r3 = r3  r4 = r4  p1 = p1  p2 = p2
  Users = {u1}
  Requests = {r1, r2}
  Updates = {p1, p2}
  Ids = {r1, r2}
  IdOf <- OwnID
  TargetOf <- OneHuman
  Malformed = {}
  Streaming = {r2}
  Causes <- BothCauses
  LlmFallback = TRUE
  Polling = FALSE
  Enabled = TRUE
  AfterMissedReplies = 1
INVARIANTS
  TypeOK
  ResultMatchesOutcome
  OneObservationEach
  AnswerIsOwn
  OnlyDeadlinesCount
  OpenWhileWaiting
  AcceptedReplyIsUsed
PROPERTY
  KeepsContract
SYMMETRY UpdateSymmetry
