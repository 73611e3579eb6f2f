SPECIFICATION Spec
CONSTANTS
  Files = {f1, f2}
  NotQueued = NotQueued
  Nobody = Nobody
  MaxAttempts = 2
  BatchLimit = 1
  MaxModels = 2
  MaxExtractions = 2
  MaxVersion = 2
  MaxCrashes = 1
  MaxFaults = 1
SYMMETRY Symmetry
INVARIANTS
  TypeOK
  CurrentOrQueued
  UpgradeReaches
  CallsBounded
  OneModel
CHECK_DEADLOCK FALSE
