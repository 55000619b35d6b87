CONSTANTS
  Requests = {r1, r2}
  Limit = 1
  MaxAttempts = 2
  MaxPins = 2
  MaxHits = 2
  MaxCrashes = 1
  MaxFaults = 1
SPECIFICATION Spec
INVARIANTS TypeOK GuessesBounded SmsBounded
PROPERTIES LockoutEnds
CHECK_DEADLOCK FALSE
