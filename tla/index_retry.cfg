SPECIFICATION ISpec
CONSTANTS
  r1 = r1
  r2 = r2
  c1 = c1
  c2 = c2
  r3 = r3
  c3 = c3
  Runs = {r1, r2}
  NoRun = NoRun
  Plan <- IndexPlan
  FlakyStages = {"vector", "export"}
  MaxCrashes = 0
  MaxDbErrors = 0
  Commits = {c1, c2}
  CommitOf <- OwnTwo
  Searchable = {c1, c2}
INVARIANTS
  PublishedIsIndexed
