SPECIFICATION Spec
CONSTANTS
  Content <- MCContent
  Initial <- MCInitial
  Packets <- MCPackets
  Home <- MCHome
  SpareNames = {26}
  MaxPackets = 2
  MaxDrift = 1
  OldSelection <- MCOldSelection
  NewSelection <- MCNewSelection
INVARIANTS
  TypeOK
  StaleUntilRerun
  NoCherryPicking
  RefusalExplained
  AdverseStays
  HistoryKept
  RecoveryIsPredecessors
CHECK_DEADLOCK FALSE
