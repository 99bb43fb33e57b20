SPECIFICATION FairSpec
CONSTANTS
  r1 = r1
  r2 = r2
  s1 = s1
  w1 = w1
  w2 = w2
  None = None
  Releases = {r1, r2}
  Snapshots = {s1}
  Workers = {w1, w2}
  Keys <- ApiKeys
  ObjectKey <- ApiObjectKey
  MayPass = {r1}
  MayReject = {r1, r2}
  MaxAttempts = 2
  MaxFaults = 2
  ClockSkew = TRUE
PROPERTIES
  QueueDrains
  TombstonesClose
CHECK_DEADLOCK FALSE
