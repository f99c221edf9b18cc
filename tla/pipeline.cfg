SPECIFICATION FairSpec
CONSTANTS
  r1 = r1
  r2 = r2
  Runs = {r1, r2}
  NoRun = NoRun
  Plan <- SmallPlan
  FlakyStages = {"acquire", "integrity", "export"}
  MaxCrashes = 1
  MaxDbErrors = 2
INVARIANTS
  TypeOK
  ReadyMeansPlanPassed
  StagesInOrder
  SettledIsReleased
  RunningIsHeld
  FailureNamesStage
  CompletedIffReady
PROPERTIES
  PassedIsFinal
  ImplementsLifecycle
  EveryRunSettles
