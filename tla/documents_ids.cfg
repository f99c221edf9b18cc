SPECIFICATION DocSpec
CONSTANTS
  r1 = r1
  r2 = r2
  Runs = {r1, r2}
  NoRun = NoRun
  TextLines = 3
  ScriptLines = 3
  Files <- PythonFiles
  Settings <- AllSettings
  Trees <- PythonTrees
  Unsafe = {}
INVARIANTS
  SymbolsAreStored
