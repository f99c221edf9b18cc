SPECIFICATION FairSpec
CONSTANTS
  r1 = r1
  r2 = r2
  Runs = {r1, r2}
  NoRun = NoRun
  Plan <- ShippedPlan
  FlakyStages = {}
  MaxCrashes = 0
  MaxDbErrors = 0
PROPERTIES
  EveryRunExported
