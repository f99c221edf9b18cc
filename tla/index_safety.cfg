SPECIFICATION ISpec
CONSTANTS
  r1 = r1
  r2 = r2
  c1 = c1
  c2 = c2
  r3 = r3
  c3 = c3
  Runs = {r1, r2, r3}
  NoRun = NoRun
  Plan <- IndexPlan
  FlakyStages = {"normalize", "vector"}
  MaxCrashes = 1
  MaxDbErrors = 1
  Commits = {c1, c2, c3}
  CommitOf <- OwnCommits
  Searchable = {c1, c2}
INVARIANTS
  IndexTypeOK
  UnretriedIsIndexed
  MissingIsUnfinished
CONSTRAINT OneFailure
