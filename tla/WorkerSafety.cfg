CONSTANTS
  Sessions = {s1, s2}
  Long = {s2}
  None = None
  Prewarming = {s1, s2}
  MaxConfigures = 1
SPECIFICATION Spec
INVARIANTS
  TypeOK
  ProcessOwned
  NoCrossTalk
  NoForgottenModel
CHECK_DEADLOCK FALSE
