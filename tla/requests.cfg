SPECIFICATION Spec
CONSTANTS
  r1 = r1  r2 = r2  t1 = t1  d1 = d1  d2 = d2  u1 = u1  a1 = a1  a2 = a2
  h1 = h1  h2 = h2
  MaxRows = 2
  Events <- AllEvents
  Agents = {}
  Audience <- NoAudience
  AttemptCap = 2
  ClaimLimit = 1
  MaxLost = 1
  NoEvent = NoEvent
  Handlers = {h1, h2}
  Requests = {r1, r2}
  Titles = {t1}
  TitleOf <- SameTitle
  Movies = {t1}
  Dates = {}
  Answers = {}
  Followers = {}
  NoRequest = NoRequest
  NoDate = NoDate
SYMMETRY SameHandlers
INVARIANTS TypeOK OnePending ApprovedIsTaken
