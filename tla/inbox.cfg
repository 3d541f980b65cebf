SPECIFICATION Spec
CONSTANTS
  e1 = e1  e2 = e2  t1 = t1  d1 = d1  d2 = d2
  MaxRows = 2
  Grabs = {1, 2}
  TitleOf <- SameTitle
  HashOf <- TwoHashes
  Answered = {2}
  Episodes = {}
  NoEpisode = NoEpisode
  Kinds = {"grab", "failed"}
  AttemptCap = 2
  ClaimLimit = 2
  MaxLost = 1
INVARIANTS TypeOK OutcomeKept ToldOnce RunsBounded
