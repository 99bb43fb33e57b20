SPECIFICATION FairSpec
CONSTANTS
  h1 = h1
  h2 = h2
  idx = idx
  None = None
  Handlers = {h1, h2}
  Indexer = idx
  Deployments = {1, 2}
  Lanes <- MCLanes
INVARIANTS
  ReconciliationAccepted
  MirrorNeverAhead
  CommitmentIsDeployed
  FailsClosed
PROPERTIES
  QuarantineSticks
  ClaimsExpire
