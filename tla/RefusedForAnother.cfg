SPECIFICATION ResearchSpec
CONSTANTS
  Requests = {h1, h2}
  Polls = {p1}
  Platforms = {alias1, alias2}
  NoPlatform = NoPlatform
  MaxKeys = 2
INVARIANT RefusedForAnother
CHECK_DEADLOCK FALSE
