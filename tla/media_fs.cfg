SPECIFICATION Spec
CONSTANTS
  Readers = {r1, r2}
  Workers = {w1}
  TypedStat = FALSE
  Referenced = TRUE
  Path = path
  Hash = hash
  MaxFaults = 0
  MaxSweeps = 0
  None = None
INVARIANT HeldIsServed
