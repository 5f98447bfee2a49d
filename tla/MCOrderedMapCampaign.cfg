SPECIFICATION Spec
CONSTANTS
  Modes <- AllModes
INVARIANTS
  BlameDeserved
  BreakageFound
  ReportIsWhole
CHECK_DEADLOCK FALSE
