SPECIFICATION Spec
CONSTANTS
  r1 = r1
  r2 = r2
  s1 = s1
  w1 = w1
  w2 = w2
  None = None
  Releases = {r1, r2}
  Snapshots = {s1}
  Workers = {w1, w2}
  Keys = {s1}
  ObjectKey <- SharedObjectKey
  MayPass = {r1}
  MayReject = {r2}
  MaxAttempts = 2
  MaxFaults = 2
  ClockSkew = TRUE
INVARIANTS
  PendingSourceRetained
  AcceptedSourceRetained
  LeaseFencesAttempt
  CheckpointConsistent
PROPERTIES
  ImplementsLedger
CHECK_DEADLOCK FALSE
