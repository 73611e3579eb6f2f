SPECIFICATION Spec
CONSTANTS
  p1 = p1
  p2 = p2
  p3 = p3
  a1 = a1
  a2 = a2
  Conn = {p1, p2, p3}
  None = None
  Latest = 2
  Supported <- MCSupported
  Addrs = {a1, a2}
  Options <- MCOptions
  Absent = Absent
  MaxPolls = 1
  MaxMishaps = 1
  Requests = {c1, c2}
  Roots = {r1, r2}
  InitialRoots = {r1}
  MaxFaults = 1
  Daemons = {d1, d2}
  Fates = {"text", "error", "dies", "wedges", "dies after"}
  MaxCalls = 1
  LogEvents = {e1, e2, e3}
  e1 = e1
  Capacity = 3
  Fetched = 2
  VisibleLines = 1
  Strides = {1, 2}
  Window = 2
  Following = Following
  Unknown = Unknown
  MaxRefreshes = 3
  MaxRecorded = 1
  MaxTroubles = 1
  Texts <- MCTexts
  WatchedText <- MCWatchedText
  Updaters = {u1, u2}
  Garbled = Garbled
  MaxReleases = 2
  MaxBuilds = 2
CHECK_DEADLOCK FALSE
INVARIANTS
  SchemaSound
  
  
  ReplacedWhole
  MonitorSound
PROPERTIES
  DaemonSteps
  
