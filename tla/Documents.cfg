SPECIFICATION Spec
CONSTANTS
  Compound <- CompoundActions
  Near <- NearPairs
  FirstJourney <- Straight
  Changed <- Edited
  MaxChanges = 2
  Sources = {1, 2, 3}
  Findings <- MCFindings
  Answers <- MCAnswers
  MaxFound = 4
  FirstGraph <- Straight
  FirstPlatform <- Retrieved
  Revised <- Edited
  Reviewed <- MCReviewed
  Connected = {"open and copy", "sign up"}
  MaxEdits = 2
  MaxDay = 3
  FreshDays = 1
  c1 = c1
  c2 = c2
  ann = ann
  auth = auth
  Commands = {c1, c2}
  Samples = {s1}
  People = {ann, bob, cid}
  Reasons = {auth, quota}
  MaxCommands = 4
  Urls <- MCUrls
  Domains <- MCDomains
  Organizations = {"acme"}
  ResultLists <- MCResultLists
  LinkLists <- MCLinkLists
  MaxPages = 2
  MaxRedirects = 2
  Rows <- MCRows
  FirstPlatforms <- MCPlatforms
  ReviewsOf <- MCReviewsOf
  Lowered <- LowerKeys
  Normalized <- WordKeys
  CohortKey = "runtimes"
  Participants = {"b", "c", "d", "e"}
  ComparisonDays = 1
  MIN_QUALIFIED_PEERS = 3
  MaxReviews = 2
  MaxHalfDays = 3
  DefaultSteps <- MCSteps
  CustomIds = {}
  Blankable = {}
  OlderMaps <- MCOlder
  PortableCases <- MCCases
  Credentials = {TRUE, FALSE}
  MaxHistory = 3
CHECK_DEADLOCK FALSE
INVARIANTS RouteHolds ResearchHolds PublishedStands LabelsStand PeersStand JourneyAgrees
PROPERTIES TimeOnlyRetires LocalCopyGoesLast
