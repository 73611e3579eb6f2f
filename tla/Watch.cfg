SPECIFICATION FairSpec
CONSTANTS
  Names = {a, b, c, d}
  None = None
  LateHalves = TRUE
  MaxEdits = 2
  MaxOverflows = 2
CHECK_DEADLOCK FALSE
INVARIANTS
  TypeOK
  TruePairs
  OnlySourcesForgotten
PROPERTY Surfaces
