SPECIFICATION SystemSpec
CONSTANTS
  Turns = {t1, t2}
  NoTurn = NoTurn
  Requests = {h1, h2}
  MaxRuns = 1
  MaxAttempts = 1
  Ahead = 1
  MaxFaults = 2
SYMMETRY Symmetry
INVARIANT InputMatchesTurn
PROPERTY UsesStore
CHECK_DEADLOCK FALSE
