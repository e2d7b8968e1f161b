SPECIFICATION FairSpec
CONSTANTS
  Sessions = {s1, s2}
  Callers = {c1, c2}
  None = None
  MaxEnding = 1
INVARIANTS TypeOK PhaseBacked CancelDiscards Coherent
PROPERTIES ImplementsService EventuallyIdle MicReleased
CHECK_DEADLOCK FALSE
