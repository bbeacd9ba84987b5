SPECIFICATION StoreFairSpec
CONSTANTS
  Turns = {t1, t2, t3}
  NoTurn = NoTurn
INVARIANTS
  TypeOK
  OneAnswerInFlight
  RevisionsNumberAnswers
  AppliedInOrder
  EnvelopeKeptWhileNeeded
  ClaimsCurrent
PROPERTIES
  NoLostUpdate
  SettledForever
  OpenTurnReleased
  ImplementsAnswerLog
CHECK_DEADLOCK FALSE
