CONSTANTS
  Token <- MCToken
  Wildcard = "*"
  Numeric <- MCNumeric
  PrefixLen = 1
  ParamNumeric = TRUE
  ThNum = 2
  ThDen = 5
  Threads = {t1, t2}
  Lines <- MCFewLines
  Members = {}
  Events = {0, 3}
  EventUnset = 9
  None = None
  Kinds = {"add", "extract"}
  Cap = 1
  Adds = 3
  Queries = 1
  MaxCalls <- MCMaxCalls
SPECIFICATION FairSpec
INVARIANTS
  EventWindowIsHull
PROPERTIES
  EveryCallReturns
