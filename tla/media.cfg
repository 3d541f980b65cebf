SPECIFICATION FairSpec
CONSTANTS
  Readers = {r1, r2}
  Workers = {w1}
  TypedStat = TRUE
  Referenced = TRUE
  Path = path
  Hash = hash
  MaxFaults = 2
  MaxSweeps = 1
  None = None
INVARIANTS TypeOK StoredBacked HeldIsServed
PROPERTY Heals
