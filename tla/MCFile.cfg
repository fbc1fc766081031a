CONSTANTS
  Savers = {s1}
  Blob = {b1, b2}
  Nothing = Nothing
  Pieces = 3
  MaxSaves = 4
  MaxFailures = 2
SPECIFICATION Spec
INVARIANTS
  LoadedIsWhole
  AckedIsStored
PROPERTIES
  IsStore
