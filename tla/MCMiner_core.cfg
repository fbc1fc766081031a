CONSTANTS
  Token <- MCToken
  Wildcard = "*"
  Numeric <- MCNumeric
  PrefixLen = 1
  ParamNumeric = TRUE
  ThNum = 2
  ThDen = 5
  Threads = {t1, t2, t3}
  Lines <- MCLines
  Members = {}
  Events = {}
  EventUnset = 9
  None = None
  Kinds = {"add"}
  Cap = 2
  Adds = 4
  Queries = 1
  MaxCalls <- MCMaxCalls
SYMMETRY ThreadSymmetry
SPECIFICATION Spec
INVARIANTS
  TypeOK
  AbsorbedCovered
  MatchStaysSimilar
  NoTwinTemplates
  LeafWithinCap
  FiledUnderItsKeys
  MapIsTheLeaves
  EveryLineCounted
  ReportsMatchChanges
PROPERTIES
  TemplatesOnlyOpen
