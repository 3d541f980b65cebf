SPECIFICATION Spec
CONSTANTS
  i1 = i1  s1 = s1  a1 = a1  x1 = x1  x2 = x2  d1 = d1
  Instances = {i1}
  Inst <- OneInstance
  Decisions = {d1}
  Target <- OneDecision
  None = None
  SyncRuns = {s1}
  AsyncRuns = {a1}
  Rescans = {x1}
INVARIANTS TypeOK SlotHeld RowSettledBeforeSlot PointerSettledBeforeSlot SuccessorReal
PROPERTY StatusWrittenOnce
CHECK_DEADLOCK FALSE
