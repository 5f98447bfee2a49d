SPECIFICATION Spec
CONSTANTS
  Names <- MCNames
  Commands <- MCCommands
  Kind <- MCKind
  Inputs <- MCInputs
  Output <- MCOutput
  Directories <- MCDirectories
  MaxEdits = 1
  MaxRelinks = 1
INVARIANTS
  TypeOK
  OutputWhole
  FailedRunLeavesNothing
  DigestsOfWhatWasRead
PROPERTIES
  InputsUntouched
CHECK_DEADLOCK FALSE
