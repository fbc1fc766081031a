CONSTANTS
  Token <- MCToken
  Wildcard = "*"
  Numeric <- MCNumeric
  PrefixLen = 1
  ParamNumeric = TRUE
  ThNum = 2
  ThDen = 5
  Threads = {t1, t2}
  Lines <- MCFewLines
  Members = {}
  Events = {}
  EventUnset = 9
  None = None
  Kinds = {"add", "extract"}
  Cap = 1
  Adds = 2
  Queries = 1
  MaxCalls <- MCMaxCalls
  MaxSaves = 1
  MaxLoads = 0
  MaxReloads = 1
  Hot = TRUE
SPECIFICATION RestoreSpec
CHECK_DEADLOCK FALSE
INVARIANTS
  AbsorbedCovered
  MatchStaysApplicable
  LeafWithinCap
