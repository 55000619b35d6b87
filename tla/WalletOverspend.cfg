CONSTANTS
  u1 = u1
  r1 = r1
  r2 = r2
  Users = {u1}
  Calls = {c1, c2, c3}
  Refs = {r1, r2, r3}
  Requests <- TopUpAndSprays
  Openings = {1}
  MaxBalance = 3
  MaxAttempts = 1
  MaxFaults = 0
  Missing = Missing
SPECIFICATION Spec
PROPERTY LedgerDebitsTaken
CHECK_DEADLOCK FALSE
