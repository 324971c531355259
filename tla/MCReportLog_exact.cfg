CONSTANTS
  Strings <- AllStrings
  Blank = 0
  Trim <- Trimmed
  Lower <- LowerCase
  Parts <- Substrings
  NoTime = NoTime
  MaxDuration = 5
  DefaultPolicy <- Defaults
  MinBucket = 2
  DefaultBucket = 4
  MaxBuckets = 2
  DefaultTop = 2
  MaxTop = 2
  Contents <- SomeContents
  Requests <- SomeRequests
  MaxRows = 4
  MaxDamage = 2
SPECIFICATION Spec
INVARIANTS
  TimelineComplete
  RankingExact
  RisksExact
  IntegrityExact
CHECK_DEADLOCK FALSE
