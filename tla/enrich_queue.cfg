SPECIFICATION FairSpec
CONSTANTS
  series = series
  w1 = w1  w2 = w2  c1 = c1
  e1 = e1  e2 = e2  e3 = e3
  Kinds = {series}
  Ids = {e1, e2, e3}
  Workers = {w1, w2}
  WorkerKind <- OnePool
  Callers = {c1}
  Capacity = 1
  Nothing = Nothing
INVARIANTS TypeOK SlotsAccounted OneJobPerEntity
PROPERTIES HotOvertakenAtMostOncePerWorker KeepsPromise JobsServed ShutdownEnds
CHECK_DEADLOCK FALSE
