SPECIFICATION Spec
CONSTANTS
  Sessions = {s1}
  Contexts = {c1}
  Closing = {}
  Slow = {}
  Overtime = {}
  None = None
  MaxCalls = 2
  MaxMail = 2
  MaxEnding = 1
  MaxDeaths = 0
INVARIANTS TextNotDropped
CHECK_DEADLOCK FALSE
