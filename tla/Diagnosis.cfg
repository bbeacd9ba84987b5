SPECIFICATION Spec
CONSTANTS
  DefaultSteps <- MCSteps
  CustomIds = {"custom"}
  Blankable = {"custom"}
  OlderMaps = {}
  PortableCases = {}
  Credentials = {FALSE}
  MaxHistory = 6
  Special <- MCSpecial
  Strengthens <- MCStrengthens
  Weakens <- MCWeakens
  Reasons <- MCReasons
  Parent <- MCParent
  Questions <- MCQuestions
  Answers <- MCAnswers
  Eligible = {"U12.01", "U26.17"}
  Cards <- MCCards
  Journeys <- MCJourneys
  Signals = {"user_declines", "catalog_gap"}
  MaxAnswerEvents = 5
  MaxCited = 1
  Requests <- MCRequests
  MaxDetours = 2
  MaxClaims = 1
  ObjectiveOrder <- MCOrder
  Required = {"D8"}
  GapAccepted = {"D8"}
  VagueAccepted = {}
  Catalog = {"U12"}
  Concluding = {"hypothesis_ready", "compound_blockers", "needs_evidence"}
  Early = {"user_declines"}
  MaxAttempts = 2
  MaxEvidence = 1
  Modes = {"deterministic", "mastra"}
  PauseAt = 2
  HardBudget = 3
  MaxTurns <- MCTurns
  c1 = c1
  c2 = c2
  Clients = {c1, c2}
  Sessions = {"s1"}
  sessionCreateLimit = 1
  sessionTurnLimit = 1
  ipTurnLimit = 2
  windowSeconds = 2
  Second = 2
  PruneAbove = 1
  MaxTime = 5
  MaxRefused = 1
SYMMETRY ClientSymmetry
CHECK_DEADLOCK FALSE
INVARIANTS JourneyAgrees CaseSound DiagnosisSound TurnsRest GateHolds
PROPERTIES CaseMovesOn
