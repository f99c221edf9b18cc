SPECIFICATION FairSpec
CONSTANTS
  u1 = u1
  u2 = u2
  s1 = s1
  s2 = s2
  Units = {u1, u2}
  Symbols = {s1, s2}
INVARIANTS
  TypeOK
  RowsPreserved
  RecordedIsApplied
  UpIsCurrent
PROPERTIES
  StartupCompletes
