SPECIFICATION Spec
CONSTANTS
  Names = {a, b}
  Stamps = {s1, s2}
  Absent = Absent
  None = None
  ScanChoices = {TRUE, FALSE}
  MaxEdits = 3
  MaxCrashes = 1
  MaxFaults = 1
  MaxOverflows = 1
SYMMETRY Symmetry
CHECK_DEADLOCK FALSE
INVARIANTS
  TypeOK
  Explained
  HistoryFits
  OneLiveRow
  Mirror
  KeepsRow
