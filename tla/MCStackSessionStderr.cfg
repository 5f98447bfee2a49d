SPECIFICATION FairSpec
CONSTANTS
  NumCalls = 1
  MaxItems = 1
  Bodies = {"supports"}
  Heritable = {"stderr"}
PROPERTY SessionEnds
CHECK_DEADLOCK FALSE
