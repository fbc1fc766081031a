CONSTANTS
  Bodies <- MCBodies
  Magic <- MCMagic
  None = None
  EventUnset = 99
  Junk <- MCJunk
SPECIFICATION Spec
INVARIANTS
  RestoredIsWritten
  DamageIsDetected
  FailedRestoreChangesNothing
