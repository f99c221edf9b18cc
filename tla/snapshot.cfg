SPECIFICATION FairSpec
CONSTANTS
  r1 = r1
  r2 = r2
  c1 = c1
  c2 = c2
  Runs = {r1, r2}
  NoRun = NoRun
  Commits = {c1, c2}
  NoCommit = NoCommit
  MaxDamages = 1
INVARIANTS
  StoreTypeOK
  AcquiredIsIntact
  AcquiredIsPreserved
PROPERTIES
  WriteOnce
  RetriedRunsAcquire
CHECK_DEADLOCK FALSE
