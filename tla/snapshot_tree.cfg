SPECIFICATION Spec
CONSTANTS
  r1 = r1
  r2 = r2
  c1 = c1
  Runs = {r1, r2}
  NoRun = NoRun
  Commits = {c1}
  NoCommit = NoCommit
  MaxDamages = 0
INVARIANTS
  StagesReadExactTree
CHECK_DEADLOCK FALSE
