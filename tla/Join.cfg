SPECIFICATION FairJoinSpec
CONSTANTS
  Codes = {c1, c2, c3, c4}
  Events = {c1, c2, c3}
  MaxRecent = 2
  MaxLookups = 4
  MaxFaults = 1
  None = None
INVARIANTS RecentsAreLatest
PROPERTIES EntersTheCode SettlesOnTheCode
