SPECIFICATION Spec
CONSTANTS
  s1 = s1  s2 = s2  s3 = s3  r1 = r1  r2 = r2  r3 = r3
  Walker = scan
  Callers = {scan, click}
  Seasons = {s1, s2, s3}
  Releases = {r1, r2, r3}
  SeasonOf <- SeasonOfThree
  MaxAttempts = 2
  NoRelease = NoRelease
  Library <- ThreeSeasons
  MaxGrabs = 1
  MaxSeries = 2
  StreakLimit = 2
  MaxScans = 1
  MaxClicks = 1
INVARIANTS TypeOK CooldownRespected ScanBounded CountersAgree
CHECK_DEADLOCK FALSE
