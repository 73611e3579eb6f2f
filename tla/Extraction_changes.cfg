SPECIFICATION Spec
CONSTANTS
  Files = {f1, f2}
  NotQueued = NotQueued
  Nobody = Nobody
  MaxAttempts = 2
  BatchLimit = 2
  MaxEdits = 2
  MaxVersion = 1
  MaxCrashes = 0
  MaxFaults = 0
  MaxRescans = 0
SYMMETRY Symmetry
INVARIANT ChangesAreQueued
