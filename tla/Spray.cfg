CONSTANTS
  MaxNotes = 2
  Note = 2
  Sends = {s1, s2}
  Openings = {3}
  MaxFlying = 1
  PerCall = 1
  MaxVisits = 3
  MaxMishaps = 1
  Missing = Missing
SPECIFICATION FairSpec
INVARIANTS BalanceIsHonest OverlaySpraysItsBalance
PROPERTIES SpraysSettle
CHECK_DEADLOCK FALSE
