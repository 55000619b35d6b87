CONSTANTS
  ada = ada
  bola = bola
  one = one
  both = both
  Guests = {ada, bola}
  Gifts = {one, both}
  Giver <- Givers
  Price <- Prices
  Sends = {s1, s2, s3}
  Refs = {r1, r2}
  Openings = {2}
  Missing = Missing
  MaxAttempts = 2
  MaxFaults = 1
SPECIFICATION FairSpec
INVARIANTS ChargedOnce NothingUnpaid AnsweredGiftCounts
PROPERTIES AnsweredGiftIsSaved
CHECK_DEADLOCK FALSE
