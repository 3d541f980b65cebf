SPECIFICATION FairSpec
CONSTANTS
  r1 = r1  r2 = r2  t1 = t1  d1 = d1  d2 = d2  u1 = u1  a1 = a1  a2 = a2
  h1 = h1  h2 = h2
  MaxRows = 2
  Events <- AllEvents
  Agents = {a1, a2}
  Audience <- MixedAudience
  AttemptCap = 2
  ClaimLimit = 1
  MaxLost = 1
  NoEvent = NoEvent
  Handlers = {}
  Requests = {}
  Titles = {t1}
  TitleOf <- SameTitle
  Movies = {t1}
  Dates = {d1, d2}
  Answers = {d1, d2, NoDate}
  Followers = {u1}
  NoRequest = NoRequest
  NoDate = NoDate
INVARIANTS AnnouncedOnce RemovedWhenDelivered CeilingKept
PROPERTY RowsSettle
