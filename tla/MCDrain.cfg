CONSTANTS
  Token <- MCToken
  Wildcard = "*"
  Numeric <- MCNumeric
  PrefixLen = 1
  ParamNumeric = TRUE
  ThNum = 2
  ThDen = 5
  Threads = {t1}
  Lines <- MCLeafLines
  Members = {m}
  Events = {2}
  EventUnset = 9
  None = None
  Kinds = {"add", "get"}
  Cap = 2
  Adds = 4
  Queries = 1
  MaxCalls <- MCMaxCalls
SPECIFICATION Spec
PROPERTIES
  IsDrain
