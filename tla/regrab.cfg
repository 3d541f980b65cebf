SPECIFICATION OneLoopFair
CONSTANTS
  l1 = l1  l2 = l2  t1 = t1  s1 = s1
  Loops = {l1, l2}
  Refreshers = {f1}
  Torrents = {t1}
  Seasons = {s1}
  SeasonOf <- Pack
  Cooldown = 1
  Threshold = 2
  MaxNow = 2
  MaxCount = 2
  None = None
INVARIANT TypeOK
PROPERTIES Throttled ParkedForCause OneLoopLive
