SPECIFICATION FairSpec
CONSTANTS
  NumCalls = 2
  MaxItems = 3
  Bodies <- MCBodies
  Heritable = {"stderr"}
INVARIANTS
  CleanEnd
  CausesGrounded
PROPERTIES
  LockstepSpec
  SessionEnds
CHECK_DEADLOCK FALSE
