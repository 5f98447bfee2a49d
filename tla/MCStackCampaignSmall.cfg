SPECIFICATION Spec
CONSTANTS
  Plans <- SmallPlans
  Modes <- AllModes
INVARIANTS
  TypeOK
  FaithfulNeverChallenged
  BlameDeserved
CHECK_DEADLOCK FALSE
