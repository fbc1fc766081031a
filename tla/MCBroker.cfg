CONSTANTS
  Clients = {c1, c2}
  Backends = {"memory", "redis", "kafka"}
  Nothing = Nothing
  MaxCalls = 3
  MaxRetries = 1
SPECIFICATION Spec
CHECK_DEADLOCK FALSE
INVARIANTS
  LoadedWasStored
  AckedTookEffect
  AckedStaysReplaced
PROPERTIES
  TimeoutsEndCalls
