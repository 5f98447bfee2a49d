SPECIFICATION FairSpec
CONSTANTS
  Plans <- DefaultPlans
  Modes <- AllModes
INVARIANTS
  DefaultBlameDeserved
  BreakageFound
  SupportsIsComplete
PROPERTIES
  CampaignEnds
CHECK_DEADLOCK FALSE
