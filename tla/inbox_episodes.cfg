SPECIFICATION Spec
CONSTANTS
  e1 = e1  e2 = e2  t1 = t1  d1 = d1  d2 = d2
  MaxRows = 2
  Grabs = {1}
  TitleOf <- SameTitle
  HashOf <- SameHash
  Answered = {}
  Episodes = {e1, e2}
  NoEpisode = NoEpisode
  Kinds = {"imported"}
  AttemptCap = 2
  ClaimLimit = 2
  MaxLost = 0
INVARIANT ImportShown
