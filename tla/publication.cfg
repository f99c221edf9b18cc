SPECIFICATION PSpec
CONSTANTS
  r1 = r1
  r2 = r2
  c1 = c1
  c2 = c2
  j1 = j1
  j2 = j2
  Runs = {r1, r2}
  NoRun = NoRun
  Plan <- ExportOnly
  FlakyStages = {"export"}
  MaxCrashes = 1
  MaxDbErrors = 1
  Callers = {c1, c2}
  Worker = Worker
  Jobs = {j1, j2}
  NoJob = NoJob
  BoardSize = 1
  MaxFaults = 1
CONSTRAINT ReportsOnOneRun
SYMMETRY Interchangeable
INVARIANTS
  WikiOnPassedRuns
  ReviewHasManifest
  BoardTellsOutcome
