SPECIFICATION Spec
CONSTANTS
  h1 = h1
  h2 = h2
  i1 = i1
  i2 = i2
  p1 = p1
  p2 = p2
  l1 = l1
  l2 = l2
  r1 = r1
  r2 = r2
  t1 = t1
  t2 = t2
  Kinds = {"research", "verify"}
  Handlers = {h1, h2}
  DedupeTtl = 1
  KeyTtl = 2
  SlotWindow = 2
  VerifyLimit = 3
  MaxTime = 3
  MaxEntries = 3
  MaxRestarts = 1
  Instances = {i1, i2}
  Pollers = {p1, p2}
  Lookups = {l1, l2}
  MaxResearchRuns = 2
  MaxDeploys = 3
  InCorpus = {2, 3}
  Reviewed = {2}
  Published = {}
  None = None
  Runs = {r1, r2}
  Gates = {"route", "field"}
  Proposals <- MCProposals
  Initial <- MCFiles
  MaxRounds = 2
  MaxAuditAttempts = 2
  MaxTrouble = 1
  MaxLate = 1
  Tasks = {t1, t2}
  ModelOf <- MCModelOf
  Reasons = {"q1", "q2"}
  GateSlots = {"g"}
  Answers <- MCLinkAnswers
  Confirming = {t1, t2}
  MaxLinks = 2
  MaxLinkAttempts = 2
  MaxLinkRuns = 2
  MaxRelabels = 1
  MaxDrafts = 1
CHECK_DEADLOCK FALSE
INVARIANTS SubmissionsBounded DraftsStored AuditsEarned LinksExact
PROPERTIES DraftOutlivesDeploys UnderReviewStays
