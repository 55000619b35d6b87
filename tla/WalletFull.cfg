CONSTANTS
  u1 = u1
  r1 = r1
  r2 = r2
  Users = {u1}
  Calls = {c1, c2, c3}
  Refs = {r1, r2}
  Requests <- RetriedTopUps
  Openings = {2}
  MaxBalance = 3
  MaxAttempts = 2
  MaxFaults = 1
  Missing = Missing
SPECIFICATION FairSpec
INVARIANTS TypeOK  CreditedOnce
PROPERTIES OnlyMoneyMoves QueuedDebitSettles
CHECK_DEADLOCK FALSE
