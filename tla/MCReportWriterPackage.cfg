SPECIFICATION Spec
CONSTANTS
  Names <- MCNames
  Commands = {"lease"}
  Kind <- MCPackageKind
  Inputs <- MCPackageInputs
  Output <- MCPackageOutput
  Directories <- MCDirectories
  MaxEdits = 1
  MaxRelinks = 0
INVARIANTS
  PlanIsAuthenticated
CHECK_DEADLOCK FALSE
