CONSTANTS
  Totals = {0, 7}
  NoteValue = 2
  Counts = {1, 2}
  MaxActive = 3
  MaxPerCall = 2
  BurstCount = 1
  MaxBursts = 3
  MaxRings = 2
  Life = 2
  MaxOverlays = 2
SPECIFICATION StageSpec
INVARIANTS PoolsBounded CounterFollows
PROPERTIES StageComesToRest
CHECK_DEADLOCK FALSE
