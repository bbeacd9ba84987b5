SPECIFICATION SystemSpec
CONSTANTS
  Turns = {t1}
  NoTurn = NoTurn
  Requests = {h1, h2}
  MaxRuns = 2
  MaxAttempts = 2
  Ahead = 1
  MaxFaults = 4
SYMMETRY Symmetry
INVARIANTS
  SystemTypeOK
  RunsFormChain
CHECK_DEADLOCK FALSE
