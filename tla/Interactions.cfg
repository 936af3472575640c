SPECIFICATION FairSpec
CONSTANTS
  Permissions = {p1}
  Questions = {q1}
  Clients = {c1, c2}
  NoRequest = NoRequest
  Retries = 1
  MaxAppends = 2
  MaxCrashes = 1
INVARIANTS QuestionAnswerHeard NoOrphan
PROPERTIES Implements SettledWakes
CHECK_DEADLOCK FALSE
