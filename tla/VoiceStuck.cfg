SPECIFICATION FairSpec
CONSTANTS
  Sessions = {s1}
  Contexts = {c1}
  Closing = {}
  Slow = {}
  Overtime = {s1}
  None = None
  MaxCalls = 2
  MaxMail = 2
  MaxEnding = 1
  MaxDeaths = 0
PROPERTIES PolishingEnds
CHECK_DEADLOCK FALSE
