SPECIFICATION FairDocSpec
CONSTANTS
  r1 = r1
  r2 = r2
  Runs = {r1, r2}
  NoRun = NoRun
  TextLines = 3
  ScriptLines = 3
  Files <- AllFiles
  Settings <- AllSettings
  Trees <- AllTrees
  Unsafe <- UnsafeFiles
INVARIANTS
  DocTypeOK
  MarkdownPartition
  ChunksAreFull
  WindowsCutNothing
  NoNestedWindows
  OwnersEnclose
  UnclosedIsReported
  FtsMatchesUnits
  SymbolsMatchUnits
  NothingLost
PROPERTIES
  StagesEnd
CONSTRAINTS
  SecondRunOfFew
