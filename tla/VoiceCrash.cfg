SPECIFICATION Spec
CONSTANTS
  Sessions = {s1}
  Contexts = {c1, c2}
  Closing = {c1}
  Slow = {s1}
  Overtime = {s1}
  None = None
  MaxCalls = 2
  MaxMail = 2
  MaxEnding = 1
  MaxDeaths = 1
INVARIANTS SessionsAgree GivenUpIsDropped TextReachesField Conversation
PROPERTIES CommitsToItsOwn
CHECK_DEADLOCK FALSE
