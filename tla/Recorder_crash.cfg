SPECIFICATION Spec
CONSTANTS
  Names = {a, b}
  Stamps = {s1, s2}
  Absent = Absent
  None = None
  ScanChoices = {TRUE}
  MaxEdits = 2
  MaxCrashes = 1
  MaxFaults = 0
  MaxOverflows = 0
SYMMETRY Symmetry
CHECK_DEADLOCK FALSE
INVARIANTS
  RestartHeals
