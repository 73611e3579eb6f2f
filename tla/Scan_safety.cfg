SPECIFICATION Spec
CONSTANTS
  Files = {f1, f2}
  Dirs = {d1}
  Stamps = {s1, s2}
  NoRow = NoRow
  Tombstone = Tombstone
  Absent = Absent
  BatchSize = 1
  MaxEdits = 2
  MaxScans = 2
  MaxFaults = 1
SYMMETRY Symmetry
INVARIANTS
  TypeOK
  Explained
  EventsAreChanges
  ScanCovers
PROPERTY ImplementsTimeline
