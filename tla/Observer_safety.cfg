SPECIFICATION ObserverSpec
CONSTANTS
  Names = {a, b}
  Stamps = {s1}
  Absent = Absent
  None = None
  ScanChoices = {TRUE}
  LateHalves = FALSE
  MaxEdits = 3
  MaxCrashes = 1
  MaxFaults = 1
  MaxOverflows = 1
SYMMETRY Symmetry
CHECK_DEADLOCK FALSE
INVARIANTS
  ObserverTypeOK
  HistorySound
  MirrorApartFromMoves
