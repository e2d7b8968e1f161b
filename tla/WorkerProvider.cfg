CONSTANTS
  Sessions = {s1, s2}
  Long = {}
  None = None
  Prewarming = {s1, s2}
  MaxConfigures = 1
SPECIFICATION Spec
INVARIANT RemoteMeansNoWorker
CHECK_DEADLOCK FALSE
