SPECIFICATION FairSpec
CONSTANTS
  Files = {f1, f2}
  NotQueued = NotQueued
  Nobody = Nobody
  MaxAttempts = 2
  BatchLimit = 2
  MaxEdits = 2
  MaxVersion = 2
  MaxCrashes = 2
  MaxFaults = 1
  MaxRescans = 1
INVARIANTS
  TypeOK
  BacklogIsQueued
  RunsBounded
PROPERTIES
  MetadataAdvances
  
