SPECIFICATION Spec
CONSTANTS
  Registries <- MCRegistries
  Republished <- MCRepublished
  Plans <- MCPlans
  Programs <- MCPrograms
  MaxEdits = 2
  Absent = Absent
INVARIANTS
  CampaignDecides
  BindingsHold
  AcceptedIsBound
CHECK_DEADLOCK FALSE
