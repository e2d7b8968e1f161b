CONSTANTS
  Sessions = {s1, s2}
  Long = {s2}
  None = None
  Prewarming = {}
  MaxConfigures = 2
SPECIFICATION FairSpec
PROPERTIES
  JobsEnd
  ConfigureReturns
  EventuallyUnloaded
CHECK_DEADLOCK FALSE
