SPECIFICATION Spec
CONSTANTS
  Replace = {"config", "prompt"}
  Marker = {"guide"}
  Additive = {"settings"}
  Sensitive = {"config"}
  Targets = {"pi"}
  MaxReleases = 2
  MaxEdits = 2
  MaxRounds = 2
INVARIANT TypeOK
PROPERTY PlanIsHonest
CHECK_DEADLOCK FALSE
