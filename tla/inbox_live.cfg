SPECIFICATION FairSpec
CONSTANTS
  e1 = e1  e2 = e2  t1 = t1  d1 = d1  d2 = d2
  MaxRows = 2
  Grabs = {1}
  TitleOf <- SameTitle
  HashOf <- TwoHashes
  Answered = {1}
  Episodes = {e1}
  NoEpisode = NoEpisode
  Kinds = {"imported"}
  AttemptCap = 2
  ClaimLimit = 2
  MaxLost = 1

PROPERTY RowsSettle
