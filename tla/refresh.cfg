SPECIFICATION OrderedSpec
CONSTANTS
  r1 = r1
  r2 = r2
  r3 = r3
  s1 = s1
  Runs = {r1, r2, r3}
  NoRun = NoRun
  Plan <- AcquireOnly
  FlakyStages = {"acquire"}
  MaxCrashes = 1
  MaxDbErrors = 1
  Sources = {s1}
  NoSource = NoSource
  MaxSchedErrors = 1
  Repo <- OneSource
  MaxFaults = 1
INVARIANTS
  SchedTypeOK
  OneRefreshPerSource
PROPERTIES
  RefreshGoesOn
