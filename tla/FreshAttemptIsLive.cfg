SPECIFICATION SystemSpec
CONSTANTS
  Turns = {t1}
  NoTurn = NoTurn
  Requests = {h1}
  MaxRuns = 2
  MaxAttempts = 2
  Ahead = 1
  MaxFaults = 4
PROPERTY FreshAttemptIsLive
CHECK_DEADLOCK FALSE
