CONSTANTS
  Records <- MCRecords
  Space <- MCSpace
  Newline = "n"
  Masks <- MCMasks
  PathDelims <- MCPathDelims
  FirstLineDelims <- MCFirstLineDelims
  None = None
  Blank = " "
  MaxChars = 6
SPECIFICATION Spec
CHECK_DEADLOCK FALSE
INVARIANTS
  TokensAreSegments
  NothingUnmasked
  TemplateIsFaithful
