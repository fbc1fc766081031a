CONSTANTS
  Token <- MCToken
  Wildcard = "*"
  Numeric <- MCNumeric
  PrefixLen = 1
  ParamNumeric = TRUE
  ThNum = 2
  ThDen = 5
  Threads = {t1, t2}
  Lines <- MCSavedLines
  Members = {}
  Events = {}
  EventUnset = 9
  None = None
  Kinds = {"add"}
  Cap = 1
  Adds = 3
  Queries = 1
  MaxCalls <- MCMaxCalls
  MaxSaves = 1
  MaxLoads = 1
  MaxReloads = 1
  Hot = FALSE
SPECIFICATION RestoreSpec
CHECK_DEADLOCK FALSE
INVARIANTS
  MapIsTheLeavesAgain
  FreshIds
  RestoredAsSaved
  SavedLinesStillMatch
