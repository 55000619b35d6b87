CONSTANTS
  Rooms = {r1, r2}
  Guests = {ada, bola}
  Clients = {c1}
  Limit = 1
  Podium = 1
  MaxGifts = 3
  MaxVisits = 2
  MaxFaults = 1
  None = None
SPECIFICATION FairSpec
INVARIANTS SettledBoardIsRight NothingInvented
PROPERTIES EventuallyRight
CHECK_DEADLOCK FALSE
