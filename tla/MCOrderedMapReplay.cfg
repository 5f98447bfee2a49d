SPECIFICATION Spec
CONSTANTS
  Content <- MCContent
  DeclarationConcern <- MCDeclarationConcern
  SuccessorRecords <- MCSuccessorRecords
  Broken <- MCBroken
  Released <- MCReleased
  Contracts <- MCContracts
  Manifests <- MCManifests
  Rank <- MCRank
  SourceOf <- MCSourceOf
  ReleasedFiles <- MCReleasedFiles
  Variants <- MCVariants
  BodyEdits <- MCBodyEdits
  RootEdits = {"absent", "link", "file", "special", "unreadable"}
  EditBudget <- MCEditBudget
  MaxControls = 1
INVARIANTS
  ReplayIsPinned
  ViewsAgree
  ChoicesStayApart
  RecoveryIsGrounded
CHECK_DEADLOCK FALSE
