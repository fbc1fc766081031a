CONSTANTS
  Savers = {s1, s2}
  Blob = {b1, b2}
  Nothing = Nothing
  Pieces = 2
  MaxSaves = 2
  MaxFailures = 0
SYMMETRY Symmetry
SPECIFICATION Spec
INVARIANTS
  LoadedIsWhole
