SPECIFICATION Spec
CONSTANTS
  Files = {f1, f2}
  Kinds = {created}
  Values = {v1, v2}
  LongValues = {v2}
  NoValue = NoValue
  DefaultLimit = 2
  MaxLimit = 2
  Limits = {0, NoValue}
  MaxFacets = 1
  MaxEvents = 3
  MaxClock = 2
  Names = {"a", "b"}
  RootDirs <- MCRootDirs
  Depth = 2
  Capacity = 1
  MaxRecords = 3
  MaxRollbacks = 1
  Docs = {d1, d2, d3}
  Vectors <- MCVectors
  Facets = {t1, t2}
  LongFacets = {t2}
  None = None
  SearchLimits = {0, 1, 2}
  OversampleFactor = 1
  FilterOversample = 2
  MaxCandidates = 3
  MaxStores = 3
  EventTypes <- MCEventTypes
  SearchTexts = {q1}
  Null = Null
  PageSize = 2
  MaxLog = 3
  MaxInFlight = 2
  MaxFetches = 4
  Heads = {"pdf", "zip", "jpeg"}
  Extensions = {"pdf", "docx", "xlsx", "txt"}
  Contents <- MCContents
  Properties <- MCProperties
  Nothing = Nothing
  MaxBodyText = 3
  StartYears = {0, 1899, 1970, 1999, 2099}
  MaxDays = 800
  MaxReply = 6
CHECK_DEADLOCK FALSE
INVARIANTS
  PagingSound
  
  SearchSound
  
  ContentsSound
