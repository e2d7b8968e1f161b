SPECIFICATION FairSpec
CONSTANTS
  Sessions = {s1, s2}
  Contexts = {c1}
  Closing = {}
  Slow = {}
  Overtime = {}
  None = None
  MaxCalls = 1
  MaxMail = 1
  MaxEnding = 1
  MaxDeaths = 0
INVARIANTS TypeOK SessionsAgree GivenUpIsDropped Conversation
PROPERTIES CommitsToItsOwn Settles
CHECK_DEADLOCK FALSE
