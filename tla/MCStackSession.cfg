SPECIFICATION FairSpec
CONSTANTS
  NumCalls = 2
  MaxItems = 3
  Bodies <- MCBodies
  Heritable = {"stdout"}
INVARIANTS
  TypeOK
  CleanEnd
  EveryLineAnswered
  NothingLeftRunning
  CausesGrounded
PROPERTIES
  LockstepSpec
  SessionEnds
CHECK_DEADLOCK FALSE
