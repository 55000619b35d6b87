CONSTANTS
  ada = ada
  bola = bola
  tab1 = tab1
  tab2 = tab2
  wedding = wedding
  party = party
  gala = gala
  c1 = c1
  c2 = c2
  c3 = c3
  c4 = c4
  Users = {ada, bola}
  Events = {wedding, party, gala}
  Sockets = {tab1, tab2}
  Owners <- OneOrTwo
  Scripts <- AllVisits
  MaxFaults = 1
  Nobody = Nobody
  Venue = gala
  HostCalls = {c1, c2, c3, c4}
  Scenarios <- Scenes
  MaxLosses = 1
  Missing = Missing
SPECIFICATION RoomSpec
INVARIANTS NeverOvercounts CountsGuests
PROPERTIES NewestTabStays  
