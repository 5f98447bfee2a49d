SPECIFICATION Spec
CONSTANTS
  NumCalls = 1
  MaxItems = 2
  Bodies = {"supports"}
  Heritable = {}
INVARIANT ExtraStdoutIsOutput
CHECK_DEADLOCK FALSE
