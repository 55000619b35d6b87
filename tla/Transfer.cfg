CONSTANTS
  r1 = r1
  r2 = r2
  Users = {1, 2}
  Txns = {t1, t2, t3}
  Refs = {r1, r2}
  Requests <- AllRequests
  Openings = {0, 1}
  Missing = Missing
SPECIFICATION FairSpec
INVARIANTS ChecksHold TransfersNeverLand
PROPERTIES EveryTransactionEnds
