CONSTANTS
  Token <- MCToken
  Wildcard = "*"
  Numeric <- MCNumeric
  PrefixLen = 1
  ParamNumeric = TRUE
  ThNum = 2
  ThDen = 5
  Threads = {t1}
  Lines <- MCLeafLines
  Members = {}
  Events = {}
  EventUnset = 9
  None = None
  Kinds = {"add"}
  Cap = 2
  Adds = 4
  Queries = 1
  MaxCalls <- MCMaxCalls
  MaxSaves = 1
  MaxLoads = 1
  MaxReloads = 0
  Hot = FALSE
SPECIFICATION RestoreSpec
CHECK_DEADLOCK FALSE
PROPERTIES
  LatestIsKept
