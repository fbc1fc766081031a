CONSTANTS
  Limit = 2
  MaxInt = 1500000000
  None = None
  Newline = 10
  Return = 13
  Space <- MCSpace
  SepChunk = 3
  Starts <- MCStarts
  JsonOf <- MCJsonOf
  Readings <- MCReadings
  Null = Null
  Cases <- MCCases
  KnownMasks <- MCKnownMasks
  NaN = NaN
  MaxBytes = 6
SPECIFICATION Spec
CHECK_DEADLOCK FALSE
INVARIANTS
  ChunksDoNotShow
  GroupingKeepsLines
  GroupsBeginAtStarts
  TimesIgnoreUnits
  SeparatorIsMeant
  ReportIgnoresMapOrder
  FormatsAgree
