-------------------------- MODULE Documents_proofs ---------------------------
(***************************************************************************)
(* The normalize and syntax stages over every commit: they cut and scan    *)
(* each file as TextUnits and ScriptSymbols say, and what they store of a  *)
(* run agrees, however often they are interrupted.                         *)
(***************************************************************************)
EXTENDS Documents, Texts_proofs

(***************************************************************************)
(* Where the worker is.  A text is cut, or a script scanned, only inside   *)
(* of the loop over the files, and it is the file that the loop is at; the *)
(* syntax stage is entered once normalize has passed.                      *)
(***************************************************************************)

Placed ==
  /\ tree \in Trees
  /\ run \in Runs \cup {NoRun} /\ stage \in StageNames
  /\ task \in {"idle", "files", "report", "rows", "units", "done"}
  /\ task = "idle" <=> run = NoRun
  /\ at \in 1..(Len(tree) + 1)
  /\ passed \in [Runs -> SUBSET StageNames]
  /\ run # NoRun => (stage = "syntax" <=> "normalize" \in passed[run])
  /\ mode # "idle" => /\ task = "files" /\ stage = "normalize" /\ at <= Len(tree)
                      /\ text = tree[at] /\ NormalizeReads(text)
  /\ scan # "idle" => /\ task = "files" /\ stage = "syntax" /\ at <= Len(tree)
                      /\ script = tree[at] /\ SyntaxReads(script)
                      /\ script.language = "script"

LEMMA TreeFacts ==
  ASSUME tree \in Trees
  PROVE /\ tree \in Seq(Files) /\ Len(tree) \in Nat
        /\ \A p \in 1..Len(tree) : tree[p] \in Files
BY TreesAssumption

LEMMA CutKeeps == Cut => /\ mode # "idle" /\ mode' # "idle" /\ text' = text /\ limits' = limits
BY DEF Cut, NextSection, EndSection, BlankLine, FullChunk, AddLine, EndMarkdown, BlankWindow,
       Window, EndWindows, InSection, Close

LEMMA ScanKeeps == Scan => scan # "idle" /\ scan' # "idle" /\ script' = script
BY DEF Scan, ScanClass, ScanDeclaration, ScanOther, EndScan, NextRow

LEMMA PlacedInit == DocInit => Placed
BY TreesAssumption DEF DocInit, TextInit, ScanInit, Placed, StageNames

\* The loop over the files goes on.
LEMMA TakeFilePlaced ==
  ASSUME Placed, task = "files", at <= Len(tree), NEW new, TakeFile(new),
         mode' = "idle", scan' = "idle"
  PROVE Placed'
BY TreeFacts DEF Placed, TakeFile

\* A step of a stage after its loop changes no more than how far it is.
LEMMA TaskPlaced ==
  ASSUME Placed, run # NoRun, task # "files" \/ at > Len(tree), UNCHANGED loopVars,
         task' \in {"report", "rows", "units", "done"}
  PROVE Placed'
BY TreeFacts DEF Placed, loopVars, textVars, cutVars, scanVars

LEMMA PlacedStep == Placed /\ [DocNext]_vars => Placed'
<1>. SUFFICES ASSUME Placed, [DocNext]_vars PROVE Placed'
  OBVIOUS
<1>1. ASSUME NEW r \in Runs, Begin(r) PROVE Placed'
  <2>1. mode' = "idle" /\ scan' = "idle"
    BY <1>1, RunsAssumption DEF Begin, Placed, textVars, cutVars, scanVars
  <2> QED BY <1>1, <2>1, RunsAssumption, TreeFacts DEF Begin, Placed, StageNames
<1>2. CASE FailToRead \/ SkipBinary \/ SkipUndecoded \/ Analyze
  <2>1. /\ task = "files" /\ at <= Len(tree) /\ mode' = "idle" /\ scan' = "idle"
        /\ \E new : TakeFile(new)
    BY <1>2 DEF FailToRead, SkipBinary, SkipUndecoded, Analyze, AtFile, textVars, cutVars, scanVars
  <2> QED BY <2>1, TakeFilePlaced
<1>3. CASE TakeText \/ TakeScript
  <2>1. /\ task = "files" /\ at <= Len(tree) /\ mode' = "idle" /\ scan' = "idle"
        /\ \E new : TakeFile(new)
    <3>1. CASE TakeText
      BY <3>1 DEF TakeText, Placed, DropText, scanVars
    <3>2. CASE TakeScript
      BY <3>2 DEF TakeScript, Placed, DropScript, textVars, cutVars
    <3> QED BY <1>3, <3>1, <3>2
  <2> QED BY <2>1, TakeFilePlaced
<1>4. CASE ReadText
  BY <1>4, TreeFacts DEF ReadText, OpenText, AtFile, File, Placed, docVars, work, scanVars
<1>5. CASE CutText
  BY <1>5, CutKeeps DEF CutText, Placed, docVars, work, scanVars
<1>6. CASE ReadScript
  BY <1>6, TreeFacts DEF ReadScript, OpenScript, AtFile, File, Placed, docVars, work, textVars, cutVars
<1>7. CASE ScanScript
  BY <1>7, ScanKeeps DEF ScanScript, Placed, docVars, work, textVars, cutVars
<1>8. CASE EndFiles \/ WriteReport \/ StoreFiles \/ StoreUnits
  <2>1. run # NoRun
    BY <1>8 DEF EndFiles, WriteReport, StoreFiles, StoreUnits, Placed
  <2>2. task # "files" \/ at > Len(tree)
    BY <1>8 DEF EndFiles, WriteReport, StoreFiles, StoreUnits
  <2>3. UNCHANGED loopVars /\ task' \in {"report", "rows", "units", "done"}
    BY <1>8 DEF EndFiles, WriteReport, StoreFiles, StoreUnits, AfterFiles, AfterUnits, AfterReport
  <2> QED BY <2>1, <2>2, <2>3, TaskPlaced
<1>9. CASE RaiseConflict
  BY <1>9, TreeFacts DEF RaiseConflict, Placed, textVars, cutVars, scanVars
<1>10. CASE Pass
  <2>1. passed' \in [Runs -> SUBSET StageNames]
    BY <1>10, RunsAssumption DEF Pass, Placed
  <2> QED BY <1>10, <2>1, TreeFacts DEF Pass, Placed, textVars, cutVars, scanVars
<1>11. CASE Interrupt
  BY <1>11, TreeFacts DEF Interrupt, DropText, DropScript, Placed
<1>12. CASE UNCHANGED vars
  BY <1>12 DEF vars, docVars, work, textVars, cutVars, scanVars, Placed
<1> QED BY <1>1, <1>2, <1>3, <1>4, <1>5, <1>6, <1>7, <1>8, <1>9, <1>10, <1>11, <1>12
        DEF DocNext, Work, Normalize, Syntax, Store, Rest

LEMMA PlacedInvariant == DocSpec => []Placed
BY PlacedInit, PlacedStep, PTL DEF DocSpec

(***************************************************************************)
(* The two loops inside.                                                   *)
(***************************************************************************)

LEMMA TextInside == Placed /\ [DocNext]_vars => [TextNext]_textVars
<1>. SUFFICES ASSUME Placed, [DocNext]_vars PROVE [TextNext]_textVars
  OBVIOUS
<1>1. ASSUME NEW r \in Runs, Begin(r) PROVE UNCHANGED textVars
  BY <1>1 DEF Begin
<1>2. CASE FailToRead \/ SkipBinary \/ SkipUndecoded \/ Analyze \/ ReadScript \/ ScanScript \/ TakeScript
  BY <1>2 DEF FailToRead, SkipBinary, SkipUndecoded, Analyze, ReadScript, ScanScript, TakeScript
<1>3. CASE ReadText
  BY <1>3, TreeFacts DEF ReadText, AtFile, File, Placed, TextNext
<1>4. CASE CutText \/ TakeText \/ Interrupt
  BY <1>4 DEF CutText, TakeText, Interrupt, TextNext
<1>5. CASE Store
  BY <1>5 DEF Store, EndFiles, WriteReport, StoreFiles, StoreUnits, RaiseConflict, Pass, loopVars
<1>6. CASE UNCHANGED vars
  BY <1>6 DEF vars
<1> QED BY <1>1, <1>2, <1>3, <1>4, <1>5, <1>6 DEF DocNext, Work, Normalize, Syntax, Rest

LEMMA ScanInside == Placed /\ [DocNext]_vars => [ScanNext]_scanVars
<1>. SUFFICES ASSUME Placed, [DocNext]_vars PROVE [ScanNext]_scanVars
  OBVIOUS
<1>1. ASSUME NEW r \in Runs, Begin(r) PROVE UNCHANGED scanVars
  BY <1>1 DEF Begin
<1>2. CASE FailToRead \/ SkipBinary \/ SkipUndecoded \/ Analyze \/ ReadText \/ CutText \/ TakeText
  BY <1>2 DEF FailToRead, SkipBinary, SkipUndecoded, Analyze, ReadText, CutText, TakeText
<1>3. CASE ReadScript
  BY <1>3, TreeFacts DEF ReadScript, AtFile, File, Placed, ScanNext
<1>4. CASE ScanScript \/ TakeScript \/ Interrupt
  BY <1>4 DEF ScanScript, TakeScript, Interrupt, ScanNext
<1>5. CASE Store
  BY <1>5 DEF Store, EndFiles, WriteReport, StoreFiles, StoreUnits, RaiseConflict, Pass, loopVars
<1>6. CASE UNCHANGED vars
  BY <1>6 DEF vars
<1> QED BY <1>1, <1>2, <1>3, <1>4, <1>5, <1>6 DEF DocNext, Work, Normalize, Syntax, Rest

\* The normalize stage cuts the texts of a commit as TextUnits says, whatever
\* runs, interruptions and retries come in between (normalize.run).
THEOREM TextsAreCut == DocSpec => TextSpec
<1>1. DocInit => TextInit
  BY DEF DocInit
<1> QED BY <1>1, PlacedInvariant, TextInside, PTL DEF DocSpec, TextSpec

\* The syntax stage scans the scripts of a commit as ScriptSymbols says
\* (syntax.run).
THEOREM ScriptsAreScanned == DocSpec => ScanSpec
<1>1. DocInit => ScanInit
  BY DEF DocInit
<1> QED BY <1>1, PlacedInvariant, ScanInside, PTL DEF DocSpec, ScanSpec

\* Every file of a commit is cut into whole units, as a single one is
\* (normalize.run).
THEOREM CutIsSound ==
  DocSpec => [](MarkdownPartition /\ ChunksAreFull /\ WindowsCutNothing /\ NoNestedWindows)
BY TextsAreCut, TextInvariant, PTL DEF TextInv

\* The owners that syntax records are those of the script, and no class that is
\* never closed goes unrecorded, for every script of a commit (syntax.run,
\* tree_sitter.py).
THEOREM ScanIsSound == DocSpec => [](OwnersEnclose /\ UnclosedIsReported)
BY ScriptsAreScanned, OwnersAreAround, UnclosedAreReported, PTL

(***************************************************************************)
(* Types of what the stages find and store.                                *)
(***************************************************************************)

UnitTypes == DeclKinds \cup {"markdown_section", "text_chunk", "code_chunk", "module",
                             "configuration-object", "constant"}

\* A symbol of the file p.
IsSymbol(s, p) == s.path = p /\ s.first \in Nat /\ s.last \in Nat /\ s.kind \in UnitTypes

\* It stands on lines of the file.
OnLines(s, f) == s.first \in 1..LastLine(f) /\ s.last \in 1..LastLine(f)

LEMMA ResultOfSymbols ==
  ASSUME NEW p \in Paths, NEW f, NEW syms, NEW imps, NEW errs,
         \A s \in syms : IsSymbol(s, p), \A i \in imps : i.path = p, errs \subseteq {p}
  PROVE IsResult(FromSymbols(p, f, syms, imps, errs))
<1>. DEFINE r == FromSymbols(p, f, syms, imps, errs)
<1>1. /\ r.units = {UnitFromSymbol(f, s) : s \in syms} /\ r.symbols = syms /\ r.imports = imps
      /\ r.errors \subseteq {p} /\ r.files = {}
  BY DEF FromSymbols, Nothing
<1>2. ASSUME NEW s \in syms PROVE IsUnit(UnitFromSymbol(f, s))
  <2>1. IsSymbol(s, p)
    OBVIOUS
  <2> QED BY <2>1 DEF IsSymbol, IsUnit, UnitFromSymbol, UnitTypes
<1>3. \A s \in syms : s.path \in Paths
  BY DEF IsSymbol
<1>. HIDE DEF r
<1>4. IsResult(r)
  BY <1>1, <1>2, <1>3 DEF IsResult
<1> QED BY <1>4 DEF r

LEMMA ResultOfFallback ==
  ASSUME NEW p \in Paths, NEW f \in Files
  PROVE IsResult(Fallback(p, f)) /\ Fallback(p, f).symbols = {}
BY FileFacts DEF Fallback, Error, Nothing, IsResult, IsUnit, LastLine

LEMMA ModuleIsSymbol ==
  ASSUME NEW p, NEW f \in Files, NEW kind \in UnitTypes
  PROVE IsSymbol(ModuleSymbol(p, f, kind), p) /\ OnLines(ModuleSymbol(p, f, kind), f)
BY FileFacts DEF ModuleSymbol, MakeSymbol, IsSymbol, OnLines, LastLine

LEMMA PythonAreSymbols ==
  ASSUME NEW p, NEW f \in Files
  PROVE /\ \A s \in PythonSymbols(p, f) : IsSymbol(s, p) /\ OnLines(s, f)
        /\ \A i \in PythonImports(p, f) : i.path = p
<1>1. ASSUME NEW s \in PythonSymbols(p, f) PROVE IsSymbol(s, p) /\ OnLines(s, f)
  <2>1. CASE s = ModuleSymbol(p, f, "module")
    BY <2>1, ModuleIsSymbol DEF UnitTypes
  <2>2. CASE s # ModuleSymbol(p, f, "module")
    <3>1. PICK i \in Walked(f) : \E k \in DOMAIN f.nodes[i].names :
            /\ f.nodes[i].kind \in {"class", "function", "constant"}
            /\ s = MakeSymbol(p, f.nodes[i].kind, f.nodes[i].up, f.nodes[i].names[k], k,
                              f.nodes[i].first, f.nodes[i].last)
      BY <2>2 DEF PythonSymbols
    <3>2. f.nodes[i].first \in 1..LastLine(f) /\ f.nodes[i].last \in 1..LastLine(f)
      BY NodesAssumption, FileFacts DEF Walked, LastLine
    <3> QED BY <3>1, <3>2 DEF MakeSymbol, IsSymbol, OnLines, UnitTypes, DeclKinds
  <2> QED BY <2>1, <2>2
<1>2. \A i \in PythonImports(p, f) : i.path = p
  BY DEF PythonImports
<1> QED BY <1>1, <1>2

LEMMA ResultOfAnalysis ==
  ASSUME NEW p \in Paths, NEW f \in Files
  PROVE IsResult(Analysis(p, f))
<1>1. IsResult(FromSymbols(p, f, {ModuleSymbol(p, f, "configuration-object")}, {}, {}))
  BY ModuleIsSymbol, ResultOfSymbols DEF UnitTypes
<1>2. IsResult(FromSymbols(p, f, PythonSymbols(p, f), PythonImports(p, f), {}))
  BY PythonAreSymbols, ResultOfSymbols
<1> QED BY <1>1, <1>2, ResultOfFallback DEF Analysis

LEMMA ResultOfScript ==
  ASSUME Placed, ScanInv, scan = "scanned", \A s \in symbols : s.kind \in DeclKinds
  PROVE IsResult(ScriptAnalysis(at, script))
<1>1. script \in Files /\ at \in Paths /\ script.n \in Nat
  BY BraceFacts DEF ScanInv, Placed, Paths
<1>2. \A s \in symbols : s.first \in Nat /\ s.last \in Nat
  BY <1>1 DEF ScanInv, SymbolsOK
<1>. DEFINE syms == {ModuleSymbol(at, script, "module")} \cup
              {MakeSymbol(at, s.kind, s.owners, s.first, 1, s.first, s.last) : s \in symbols}
            imps == {[path |-> at, name |-> l, place |-> 1, first |-> l, last |-> l] : l \in imported}
<1>3. \A s \in syms : IsSymbol(s, at)
  <2>1. IsSymbol(ModuleSymbol(at, script, "module"), at)
    BY <1>1, ModuleIsSymbol DEF UnitTypes
  <2>2. \A s \in symbols :
          IsSymbol(MakeSymbol(at, s.kind, s.owners, s.first, 1, s.first, s.last), at)
    BY <1>2 DEF IsSymbol, MakeSymbol, UnitTypes
  <2> QED BY <2>1, <2>2
<1>4. \A i \in imps : i.path = at
  OBVIOUS
<1>. HIDE DEF syms, imps
<1>5. \A e \in {{}, {at}} : IsResult(FromSymbols(at, script, syms, imps, e))
  BY <1>1, <1>3, <1>4, ResultOfSymbols
<1> QED BY <1>1, <1>5, ResultOfFallback DEF ScriptAnalysis, syms, imps

\* The symbols of the scan at hand are of kinds that declarations have.
KindsOK == \A s \in symbols : s.kind \in DeclKinds

TablesOK ==
  /\ fileRows \in [Runs -> SUBSET Paths]
  /\ unitRows \in [Runs -> SUBSET UNION {unitRows[r] : r \in Runs}]
  /\ DOMAIN symbolRows = Runs /\ DOMAIN importRows = Runs
  /\ \A r \in Runs :
       /\ \A u \in unitRows[r] : IsUnit(u)
       /\ \A s \in symbolRows[r] : s.path \in Paths
       /\ \A i \in importRows[r] : i.path \in Paths
  /\ reported \in [StageNames -> SUBSET Paths] /\ reporter \in Runs \cup {NoRun}

DocInv ==
  /\ Placed /\ TextInv /\ ScanInv
  /\ KindsOK /\ IsResult(found) /\ TablesOK

LEMMA TypesFollow == DocInv => DocTypeOK
<1>. SUFFICES ASSUME DocInv PROVE DocTypeOK
  OBVIOUS
<1>1. limits \in Settings
  BY DEF DocInv, TextInv, TextTypeOK
<1>2. ASSUME NEW r \in Runs
      PROVE IsResult([Nothing EXCEPT !.units = unitRows[r], !.symbols = symbolRows[r],
                                     !.imports = importRows[r]])
  BY DEF DocInv, TablesOK, IsResult, Nothing
<1> QED BY <1>1, <1>2 DEF DocInv, Placed, TablesOK, DocTypeOK

LEMMA KindsStep == KindsOK /\ [ScanNext]_scanVars => KindsOK'
<1>. SUFFICES ASSUME KindsOK, [ScanNext]_scanVars PROVE KindsOK'
  OBVIOUS
<1>1. ASSUME NEW f \in Files, OpenScript(f) PROVE KindsOK'
  BY <1>1 DEF OpenScript, KindsOK
<1>2. CASE ScanClass \/ ScanDeclaration
  <2>1. PICK kind \in DeclKinds : \E end : symbols' = symbols \cup {Symbol(kind, end, Left)}
    BY <1>2 DEF ScanClass, ScanDeclaration, Declares, DeclKinds
  <2>2. \A end : Symbol(kind, end, Left).kind = kind
    BY DEF Symbol
  <2> QED BY <2>1, <2>2 DEF KindsOK
<1>3. CASE ScanOther \/ EndScan \/ DropScript \/ UNCHANGED scanVars
  BY <1>3 DEF ScanOther, EndScan, DropScript, scanVars, KindsOK
<1> QED BY <1>1, <1>2, <1>3 DEF ScanNext, Scan

LEMMA MergedResult ==
  ASSUME NEW a, NEW b, IsResult(a), IsResult(b)
  PROVE IsResult(Merge(a, b))
BY DEF IsResult, Merge

LEMMA ErrorIsResult == ASSUME NEW p \in Paths PROVE IsResult(Error(p)) /\ IsResult(Row(p))
BY DEF IsResult, Error, Row, Nothing

\* What the loop takes over from a file is well-formed.
LEMMA TakenResult ==
  ASSUME DocInv, NEW new, TakeFile(new), IsResult(new)
  PROVE IsResult(found)' /\ TablesOK'
<1>1. IsResult(Merge(found, new))
  BY MergedResult DEF DocInv
<1>2. IsResult(found)'
  BY <1>1 DEF TakeFile, IsResult, IsUnit, Paths
<1>3. TablesOK'
  BY DEF DocInv, TablesOK, TakeFile, tables, reports, IsUnit, Paths
<1> QED BY <1>2, <1>3

LEMMA TextResult ==
  ASSUME DocInv, TakeText
  PROVE IsResult(found)' /\ TablesOK'
<1>. DEFINE new == IF mode = "raised" THEN [Row(at) EXCEPT !.errors = {at}]
                   ELSE [Row(at) EXCEPT !.units =
                          {[path |-> at, type |-> UnitType(text), first |-> u.first,
                            last |-> u.last, symbol |-> {}] : u \in units}]
<1>1. at \in Paths
  BY DEF DocInv, Placed, TakeText, Paths
<1>2. \A u \in units : u.first \in Nat /\ u.last \in Nat
  BY DEF DocInv, TextInv, TextTypeOK
<1>3. IsResult(new)
  BY <1>1, <1>2 DEF IsResult, IsUnit, Row, Nothing, UnitType
<1> QED BY <1>3, TakenResult DEF TakeText

LEMMA ResultStep ==
  ASSUME DocInv, [DocNext]_vars
  PROVE IsResult(found)' /\ TablesOK'
<1>1. ASSUME NEW r \in Runs, Begin(r) PROVE IsResult(found)' /\ TablesOK'
  BY <1>1 DEF DocInv, Begin, tables, reports, IsResult, Nothing, TablesOK, IsUnit, Paths
<1>2. CASE FailToRead \/ SkipBinary \/ SkipUndecoded
  <2>1. at \in Paths
    BY <1>2 DEF DocInv, Placed, FailToRead, SkipBinary, SkipUndecoded, AtFile, Paths
  <2> QED BY <1>2, <2>1, ErrorIsResult, TakenResult DEF FailToRead, SkipBinary, SkipUndecoded
<1>3. CASE Analyze
  <2>1. at \in Paths /\ File \in Files
    BY <1>3, TreeFacts DEF DocInv, Placed, Analyze, AtFile, Paths, File
  <2> QED BY <1>3, <2>1, ResultOfAnalysis, TakenResult DEF Analyze
<1>4. CASE TakeText
  BY <1>4, TextResult
<1>5. CASE TakeScript
  BY <1>5, ResultOfScript, TakenResult DEF TakeScript, DocInv, KindsOK
<1>6. CASE ReadText \/ CutText \/ ReadScript \/ ScanScript \/ UNCHANGED vars
  <2>1. UNCHANGED docVars
    BY <1>6 DEF ReadText, CutText, ReadScript, ScanScript, vars
  <2> QED BY <2>1 DEF DocInv, docVars, work, tables, reports, IsResult, TablesOK, IsUnit, Paths
<1>7. CASE EndFiles \/ RaiseConflict \/ Pass \/ Interrupt
  BY <1>7 DEF DocInv, EndFiles, RaiseConflict, Pass, Interrupt, loopVars, tables, reports, IsResult, Nothing,
              TablesOK, IsUnit, Paths
<1>8. CASE WriteReport
  <2>1. IsResult(found)' /\ found.errors \subseteq Paths /\ tree' = tree
    BY <1>8 DEF DocInv, WriteReport, loopVars, IsResult, IsUnit, Paths
  <2>2. reported' \in [StageNames -> SUBSET Paths]
    BY <1>8, <2>1 DEF DocInv, WriteReport, TablesOK
  <2>3. reporter' \in Runs \cup {NoRun}
    BY <1>8 DEF DocInv, WriteReport, TablesOK, Placed
  <2> QED BY <1>8, <2>1, <2>2, <2>3 DEF DocInv, WriteReport, loopVars, tables, TablesOK, IsUnit, Paths
<1>9. CASE StoreFiles
  <2>1. IsResult(found)' /\ tree' = tree /\ Paths' = Paths
    BY <1>9 DEF DocInv, StoreFiles, loopVars, IsResult, IsUnit, Paths
  <2>2. fileRows' \in [Runs -> SUBSET Paths]
    BY <1>9 DEF DocInv, StoreFiles, TablesOK, IsResult
  <2> QED BY <1>9, <2>1, <2>2 DEF DocInv, StoreFiles, loopVars, reports, TablesOK, IsUnit, Paths
<1>10. CASE StoreUnits
  <2>1. IsResult(found)' /\ IsResult(found) /\ tree' = tree /\ Paths' = Paths
    BY <1>10 DEF DocInv, StoreUnits, loopVars, IsResult, IsUnit, Paths
  <2>2. /\ DOMAIN unitRows = Runs /\ DOMAIN symbolRows = Runs /\ DOMAIN importRows = Runs
    BY DEF DocInv, TablesOK
  <2>3. \A r \in Runs : /\ unitRows'[r] = unitRows[r] \/ unitRows'[r] = found.units
                        /\ symbolRows'[r] = symbolRows[r] \/ symbolRows'[r] = found.symbols
                        /\ importRows'[r] = importRows[r] \/ importRows'[r] = found.imports
    BY <1>10, <2>2 DEF StoreUnits
  <2>4. /\ DOMAIN symbolRows' = Runs /\ DOMAIN importRows' = Runs
        /\ unitRows' \in [Runs -> SUBSET UNION {unitRows'[r] : r \in Runs}]
    BY <1>10, <2>2 DEF StoreUnits
  <2>5. \A r \in Runs :
          /\ \A u \in unitRows'[r] : IsUnit(u)
          /\ \A s \in symbolRows'[r] : s.path \in Paths
          /\ \A i \in importRows'[r] : i.path \in Paths
    BY <2>1, <2>3 DEF DocInv, TablesOK, IsResult
  <2>6. fileRows' = fileRows /\ reported' = reported /\ reporter' = reporter
    BY <1>10 DEF StoreUnits, reports
  <2> QED BY <2>1, <2>4, <2>5, <2>6 DEF DocInv, TablesOK, IsUnit, Paths
<1> QED BY <1>1, <1>2, <1>3, <1>4, <1>5, <1>6, <1>7, <1>8, <1>9, <1>10
        DEF DocNext, Work, Normalize, Syntax, Store, Rest

LEMMA DocInitInv == DocInit => DocInv
<1>. SUFFICES ASSUME DocInit PROVE DocInv
  OBVIOUS
<1>1. Placed /\ TextInv /\ ScanInv
  BY PlacedInit, TextInitInv, ScanInitInv DEF DocInit
<1>2. KindsOK
  BY DEF DocInit, ScanInit, KindsOK
<1>3. IsResult(found) /\ TablesOK
  BY DEF DocInit, IsResult, Nothing, TablesOK
<1> QED BY <1>1, <1>2, <1>3 DEF DocInv

LEMMA DocInvStep == DocInv /\ [DocNext]_vars => DocInv'
BY PlacedStep, TextInside, ScanInside, TextStep, ScanStep, KindsStep, ResultStep DEF DocInv

LEMMA DocInvariant == DocSpec => []DocInv
BY DocInitInv, DocInvStep, PTL DEF DocSpec

\* Every variable of the two stages keeps its type, for every commit and any
\* number of runs.
THEOREM TypeCorrect == DocSpec => []DocTypeOK
BY DocInvariant, TypesFollow, PTL

(***************************************************************************)
(* The tables agree.                                                       *)
(***************************************************************************)

\* The id of a unit, a symbol or an import depends on the commit alone.
LEMMA IdsStay ==
  ASSUME tree' = tree
  PROVE /\ \A u : UnitId(u)' = UnitId(u)
        /\ \A s : SymbolId(s)' = SymbolId(s)
        /\ \A i : ImportId(i)' = ImportId(i)
BY DEF UnitId, SymbolId, ImportId

LEMMA TreeStays == [DocNext]_vars => tree' = tree
BY DEF DocNext, Work, Normalize, Syntax, Store, Rest, Begin, FailToRead, SkipBinary, ReadText, CutText,
       TakeText, SkipUndecoded, Analyze, ReadScript, ScanScript, TakeScript, EndFiles,
       WriteReport, StoreFiles, StoreUnits, RaiseConflict, Pass, Interrupt, TakeFile, vars,
       docVars, loopVars

LEMMA FtsStep ==
  ASSUME DocInv, FtsMatchesUnits, [DocNext]_vars
  PROVE FtsMatchesUnits'
<1>1. CASE StoreUnits
  <2>1. run \in Runs /\ DOMAIN unitRows = Runs
    BY <1>1 DEF DocInv, Placed, TablesOK, StoreUnits
  <2>2. /\ unitRows' = [unitRows EXCEPT ![run] = found.units]
        /\ fts' = FtsKept(run) \cup {<<run, UnitId(u)>> : u \in found.units}
    BY <1>1 DEF StoreUnits
  <2>. DEFINE ids(rows, r) == {<<r, UnitId(u)>> : u \in rows[r]}
  <2>3. fts = UNION {ids(unitRows, r) : r \in Runs}
    BY DEF FtsMatchesUnits
  <2>4. FtsKept(run) = UNION {ids(unitRows, r) : r \in Runs \ {run}}
    BY <2>1, <2>3 DEF FtsKept, OldIds
  <2>5. \A r \in Runs \ {run} : ids(unitRows', r) = ids(unitRows, r)
    BY <2>1, <2>2
  <2>6. ids(unitRows', run) = {<<run, UnitId(u)>> : u \in found.units}
    BY <2>1, <2>2
  <2>. HIDE DEF ids
  <2>7. fts' = UNION {ids(unitRows', r) : r \in Runs}
    BY <2>1, <2>2, <2>4, <2>5, <2>6, ZenonT(30)
  <2>8. \A u : UnitId(u)' = UnitId(u)
    BY TreeStays, IdsStay
  <2> QED BY <2>7, <2>8 DEF FtsMatchesUnits, ids
<1>2. CASE ~ StoreUnits
  <2>1. fts' = fts /\ unitRows' = unitRows
    BY <1>2 DEF DocNext, Work, Normalize, Syntax, Store, Rest, Begin, FailToRead, SkipBinary, ReadText, CutText,
                TakeText, SkipUndecoded, Analyze, ReadScript, ScanScript, TakeScript, EndFiles,
                WriteReport, StoreFiles, RaiseConflict, Pass, Interrupt, TakeFile, tables, reports, vars,
                docVars
  <2>2. \A u : UnitId(u)' = UnitId(u)
    BY TreeStays, IdsStay
  <2> QED BY <2>1, <2>2 DEF FtsMatchesUnits
<1> QED BY <1>1, <1>2

\* Full-text search sees the units of each run and no others, whatever other runs
\* share their ids and wherever a stage is interrupted (replace_units).
THEOREM FtsAgrees == DocSpec => []FtsMatchesUnits
<1>1. DocInit => FtsMatchesUnits
  BY DEF DocInit, FtsMatchesUnits
<1> QED BY <1>1, DocInvariant, FtsStep, PTL DEF DocSpec

(***************************************************************************)
(* replace_units leaves the old symbols of a run where there are no new    *)
(* ones.  It does no harm: whether a commit gives symbols depends on its   *)
(* files alone, so that a run that is done again finds some if it has found*)
(* some before.                                                            *)
(***************************************************************************)

TopKinds == {"class", "interface", "enum", "function"}

\* The syntax stage finds symbols in the file.
Yields(f) ==
  /\ SyntaxReads(f)
  /\ \/ f.language = "script" /\ \E l \in 1..f.n : f.decl[l] \in TopKinds
     \/ f.language \in {"config", "python"} /\ f.parses

ScanYields ==
  scan # "idle" =>
    (symbols # {} <=> \E l \in 1..script.n : l < row /\ script.decl[l] \in TopKinds)

SymbolsOf(us) == UNION {u.symbol : u \in us}

FoundAgrees ==
  /\ found.symbols = SymbolsOf(found.units)
  /\ run = NoRun \/ stage = "normalize" => found.symbols = {}
  /\ run # NoRun /\ stage = "syntax" =>
       (found.symbols # {} <=> \E p \in Paths : p < at /\ Yields(tree[p]))
  /\ task \in {"report", "rows", "units", "done"} => at = Len(tree) + 1

RowsYield ==
  \A r \in Runs : symbolRows[r] # {} =>
    "normalize" \in passed[r] /\ \E p \in Paths : Yields(tree[p])

AgreeInv == DocInv /\ ScanYields /\ FoundAgrees /\ RowsYield /\ SymbolsMatchUnits

LEMMA SymbolsOfFromSymbols ==
  ASSUME NEW p, NEW f, NEW syms, NEW imps, NEW errs
  PROVE LET r == FromSymbols(p, f, syms, imps, errs)
        IN r.symbols = syms /\ SymbolsOf(r.units) = syms
<1>1. \A s \in syms : UnitFromSymbol(f, s).symbol = {s}
  BY DEF UnitFromSymbol
<1>. DEFINE r == FromSymbols(p, f, syms, imps, errs)
<1>2. r.symbols = syms /\ r.units = {UnitFromSymbol(f, s) : s \in syms}
  BY DEF FromSymbols, Nothing
<1>. HIDE DEF r
<1>3. SymbolsOf(r.units) = syms
  BY <1>1, <1>2 DEF SymbolsOf
<1> QED BY <1>2, <1>3 DEF r

LEMMA SymbolsOfFallback ==
  ASSUME NEW p, NEW f
  PROVE Fallback(p, f).symbols = {} /\ SymbolsOf(Fallback(p, f).units) = {}
BY DEF Fallback, Error, Nothing, SymbolsOf

LEMMA AnalysisYields ==
  ASSUME NEW p, NEW f \in Files, SyntaxReads(f), f.language # "script"
  PROVE /\ Analysis(p, f).symbols = SymbolsOf(Analysis(p, f).units)
        /\ Analysis(p, f).symbols # {} <=> Yields(f)
<1>1. CASE f.language = "config" /\ f.parses
  <2>1. Analysis(p, f) = FromSymbols(p, f, {ModuleSymbol(p, f, "configuration-object")}, {}, {})
    BY <1>1 DEF Analysis
  <2> QED BY <1>1, <2>1, SymbolsOfFromSymbols DEF Yields
<1>2. CASE f.language = "python" /\ f.parses
  <2>1. Analysis(p, f) = FromSymbols(p, f, PythonSymbols(p, f), PythonImports(p, f), {})
    BY <1>2 DEF Analysis
  <2>2. PythonSymbols(p, f) # {}
    BY DEF PythonSymbols
  <2> QED BY <1>2, <2>1, <2>2, SymbolsOfFromSymbols DEF Yields
<1>3. CASE ~ (f.language \in {"config", "python"} /\ f.parses)
  <2>1. Analysis(p, f) = Fallback(p, f)
    BY <1>3 DEF Analysis
  <2> QED BY <1>3, <2>1, SymbolsOfFallback DEF Yields
<1> QED BY <1>1, <1>2, <1>3

LEMMA ScriptYields ==
  ASSUME AgreeInv, scan = "scanned"
  PROVE LET r == ScriptAnalysis(at, script)
        IN r.symbols = SymbolsOf(r.units) /\ (r.symbols # {} <=> Yields(tree[at]))
<1>1. /\ script = tree[at] /\ SyntaxReads(script) /\ script.language = "script"
      /\ row = script.n + 1 /\ script.n \in Nat
      /\ symbols # {} <=> \E l \in 1..script.n : l < row /\ script.decl[l] \in TopKinds
  BY BraceFacts DEF AgreeInv, DocInv, Placed, ScanInv, ScanYields
<1>2. symbols # {} <=> Yields(tree[at])
  BY <1>1 DEF Yields
<1>3. CASE symbols = {}
  <2>1. ScriptAnalysis(at, script) = Fallback(at, script)
    BY <1>3 DEF ScriptAnalysis
  <2> QED BY <1>2, <1>3, <2>1, SymbolsOfFallback
<1>4. CASE symbols # {}
  <2>. DEFINE syms == {ModuleSymbol(at, script, "module")} \cup
                {MakeSymbol(at, s.kind, s.owners, s.first, 1, s.first, s.last) : s \in symbols}
  <2>1. PICK imps, errs : ScriptAnalysis(at, script) = FromSymbols(at, script, syms, imps, errs)
    BY <1>4 DEF ScriptAnalysis
  <2>2. syms # {}
    OBVIOUS
  <2>. HIDE DEF syms
  <2> QED BY <1>2, <1>4, <2>1, <2>2, SymbolsOfFromSymbols
<1> QED BY <1>3, <1>4

LEMMA ScanYieldsStep ==
  ASSUME ScanInv, ScanYields, [ScanNext]_scanVars
  PROVE ScanYields'
<1>1. ASSUME NEW f \in Files, OpenScript(f) PROVE ScanYields'
  <2>1. /\ script' = f /\ row' = 1 /\ symbols' = {}
    BY <1>1 DEF OpenScript
  <2>2. \A l \in 1..f.n : ~ (l < 1)
    BY BraceFacts
  <2> QED BY <2>1, <2>2 DEF ScanYields
<1>2. CASE NextRow /\ (ScanClass \/ ScanDeclaration \/ ScanOther)
  <2>1. /\ script' = script /\ row' = row + 1 /\ row \in 1..script.n /\ scan = "lines"
        /\ script.n \in Nat
        /\ \A i \in 1..Len(Left) : \E c \in symbols : IsClass(c)
        /\ Left \in Seq(Places)
    BY <1>2, InLines, LeftIsOpen
  <2>2. symbols # {} <=> \E l \in 1..script.n : l < row /\ script.decl[l] \in TopKinds
    BY <2>1 DEF ScanYields
  <2>3. Left # <<>> => symbols # {}
    <3>1. Left # <<>> => 1 \in 1..Len(Left)
      BY <2>1, EmptySeq
    <3> QED BY <2>1, <3>1
  <2>4. symbols' # {} <=> symbols # {} \/ script.decl[row] \in TopKinds
    BY <1>2, <2>3 DEF ScanClass, ScanDeclaration, ScanOther, Declares, TopKinds
  <2>5. \A l \in 1..script.n : l < row + 1 <=> l < row \/ l = row
    BY <2>1
  <2> QED BY <2>1, <2>2, <2>4, <2>5 DEF ScanYields
<1>3. CASE EndScan
  BY <1>3 DEF EndScan, ScanYields
<1>4. CASE DropScript \/ UNCHANGED scanVars
  BY <1>4 DEF DropScript, scanVars, ScanYields
<1> QED BY <1>1, <1>2, <1>3, <1>4 DEF ScanNext, Scan, ScanClass, ScanDeclaration, ScanOther

LEMMA MergedSymbols ==
  ASSUME NEW a, NEW b, a.symbols = SymbolsOf(a.units), b.symbols = SymbolsOf(b.units)
  PROVE /\ Merge(a, b).symbols = SymbolsOf(Merge(a, b).units)
        /\ Merge(a, b).symbols # {} <=> a.symbols # {} \/ b.symbols # {}
<1>1. Merge(a, b).symbols = a.symbols \cup b.symbols /\ Merge(a, b).units = a.units \cup b.units
  BY DEF Merge
<1>2. SymbolsOf(a.units \cup b.units) = SymbolsOf(a.units) \cup SymbolsOf(b.units)
  BY DEF SymbolsOf
<1> QED BY <1>1, <1>2

\* The loop goes on behind a file that has given new.
LEMMA TakeFileAgrees ==
  ASSUME AgreeInv, NEW new, TakeFile(new), task = "files", at <= Len(tree),
         new.symbols = SymbolsOf(new.units),
         stage = "normalize" => new.symbols = {},
         stage = "syntax" => (new.symbols # {} <=> Yields(tree[at]))
  PROVE FoundAgrees' /\ RowsYield' /\ SymbolsMatchUnits'
<1>1. /\ found' = Merge(found, new) /\ at' = at + 1 /\ tree' = tree /\ run' = run /\ stage' = stage
      /\ task' = task /\ passed' = passed /\ symbolRows' = symbolRows /\ unitRows' = unitRows
  BY DEF TakeFile, tables, reports
<1>2. /\ found'.symbols = SymbolsOf(found'.units)
      /\ found'.symbols # {} <=> found.symbols # {} \/ new.symbols # {}
  BY <1>1, MergedSymbols DEF AgreeInv, FoundAgrees
<1>3. run # NoRun /\ stage \in StageNames /\ at \in Paths /\ Len(tree) \in Nat
  BY TreeFacts DEF AgreeInv, DocInv, Placed, Paths
<1>4. stage = "syntax" => (found'.symbols # {} <=> \E p \in Paths : p < at + 1 /\ Yields(tree[p]))
  <2>1. \A p \in Paths : p < at + 1 <=> p < at \/ p = at
    BY <1>3 DEF Paths
  <2> QED BY <1>2, <1>3, <2>1 DEF AgreeInv, FoundAgrees
<1>5. stage = "normalize" => found'.symbols = {}
  BY <1>2, <1>3 DEF AgreeInv, FoundAgrees
<1>6. FoundAgrees'
  BY <1>1, <1>2, <1>3, <1>4, <1>5 DEF FoundAgrees, Paths
<1>7. RowsYield' /\ SymbolsMatchUnits'
  BY <1>1 DEF AgreeInv, RowsYield, SymbolsMatchUnits, Paths
<1> QED BY <1>6, <1>7

\* The rows of a run are stored.
LEMMA StoreUnitsAgrees ==
  ASSUME AgreeInv, StoreUnits
  PROVE FoundAgrees' /\ RowsYield' /\ SymbolsMatchUnits'
<1>1. /\ run \in Runs /\ run # NoRun /\ stage \in StageNames
      /\ stage = "syntax" <=> "normalize" \in passed[run]
      /\ DOMAIN unitRows = Runs /\ DOMAIN symbolRows = Runs
      /\ at = Len(tree) + 1 /\ Len(tree) \in Nat
      /\ found.symbols = SymbolsOf(found.units)
      /\ stage = "normalize" => found.symbols = {}
      /\ stage = "syntax" => (found.symbols # {} <=> \E p \in Paths : p < at /\ Yields(tree[p]))
  BY TreeFacts DEF AgreeInv, DocInv, Placed, TablesOK, FoundAgrees, StoreUnits
<1>2. /\ unitRows' = [unitRows EXCEPT ![run] = found.units]
      /\ symbolRows' = IF found.symbols = {} THEN symbolRows
                       ELSE [symbolRows EXCEPT ![run] = found.symbols]
      /\ UNCHANGED loopVars /\ task' \in {"report", "done"}
  BY DEF StoreUnits, AfterUnits
<1>3. found.symbols # {} => stage = "syntax" /\ \E p \in Paths : Yields(tree[p])
  BY <1>1 DEF StageNames
<1>4. found.symbols = {} => symbolRows[run] = {}
  <2>1. ASSUME found.symbols = {}, symbolRows[run] # {} PROVE FALSE
    <3>1. "normalize" \in passed[run] /\ \E p \in Paths : Yields(tree[p])
      BY <1>1, <2>1 DEF AgreeInv, RowsYield
    <3>2. stage = "syntax" /\ \A p \in Paths : p < at
      BY <1>1, <3>1 DEF Paths
    <3> QED BY <1>1, <2>1, <3>1, <3>2
  <2> QED BY <2>1
<1>5. symbolRows'[run] = found.symbols /\ unitRows'[run] = found.units
  BY <1>1, <1>2, <1>4
<1>6. \A r \in Runs \ {run} : symbolRows'[r] = symbolRows[r] /\ unitRows'[r] = unitRows[r]
  BY <1>1, <1>2
<1>7. SymbolsMatchUnits'
  BY <1>1, <1>5, <1>6 DEF AgreeInv, SymbolsMatchUnits, SymbolsOf
<1>8. RowsYield'
  BY <1>1, <1>2, <1>3, <1>5, <1>6 DEF AgreeInv, RowsYield, loopVars, Paths
<1>9. FoundAgrees'
  BY <1>1, <1>2 DEF AgreeInv, FoundAgrees, loopVars, Paths
<1> QED BY <1>7, <1>8, <1>9

LEMMA AgreeStep == AgreeInv /\ [DocNext]_vars => AgreeInv'
<1>. SUFFICES ASSUME AgreeInv, [DocNext]_vars PROVE AgreeInv'
  OBVIOUS
<1>1. DocInv' /\ ScanYields'
  BY DocInvStep, ScanInside, ScanYieldsStep DEF AgreeInv, DocInv
<1>2. SUFFICES FoundAgrees' /\ RowsYield' /\ SymbolsMatchUnits'
  BY <1>1 DEF AgreeInv
<1>3. ASSUME NEW r \in Runs, Begin(r) PROVE FoundAgrees' /\ RowsYield' /\ SymbolsMatchUnits'
  <2>1. FoundAgrees'
    <3>1. \A p \in Paths : ~ (p < 1)
      BY DEF Paths
    <3> QED BY <1>3, <3>1 DEF Begin, FoundAgrees, Nothing, SymbolsOf, Paths
  <2> QED BY <1>3, <2>1 DEF Begin, tables, reports, AgreeInv, RowsYield, SymbolsMatchUnits, Paths
<1>4. CASE FailToRead \/ SkipBinary \/ SkipUndecoded
  <2>1. PICK new : TakeFile(new) /\ new.symbols = {} /\ new.units = {}
    BY <1>4 DEF FailToRead, SkipBinary, SkipUndecoded, Error, Row, Nothing
  <2>2. task = "files" /\ at <= Len(tree) /\ (stage = "syntax" => ~ SyntaxReads(tree[at]))
    BY <1>4 DEF FailToRead, SkipBinary, SkipUndecoded, AtFile, File
  <2> QED BY <2>1, <2>2, TakeFileAgrees DEF SymbolsOf, Yields
<1>5. CASE Analyze
  <2>1. /\ task = "files" /\ at <= Len(tree) /\ stage = "syntax" /\ File = tree[at]
        /\ SyntaxReads(File) /\ File.language # "script" /\ TakeFile(Analysis(at, File))
    BY <1>5 DEF Analyze, AtFile, File
  <2>2. File \in Files
    BY <2>1, TreeFacts DEF AgreeInv, DocInv, Placed
  <2> QED BY <2>1, <2>2, AnalysisYields, TakeFileAgrees
<1>6. CASE TakeText
  <2>1. PICK new : TakeFile(new) /\ new.symbols = {} /\ SymbolsOf(new.units) = {}
    <3>1. LET new == [Row(at) EXCEPT !.errors = {at}]
          IN new.symbols = {} /\ SymbolsOf(new.units) = {}
      BY DEF Row, Nothing, SymbolsOf
    <3>2. LET new == [Row(at) EXCEPT !.units =
                       {[path |-> at, type |-> UnitType(text), first |-> u.first,
                         last |-> u.last, symbol |-> {}] : u \in units}]
          IN new.symbols = {} /\ SymbolsOf(new.units) = {}
      BY DEF Row, Nothing, SymbolsOf
    <3> QED BY <1>6, <3>1, <3>2 DEF TakeText
  <2>2. task = "files" /\ at <= Len(tree) /\ stage = "normalize"
    BY <1>6 DEF TakeText, AgreeInv, DocInv, Placed
  <2> QED BY <2>1, <2>2, TakeFileAgrees
<1>7. CASE TakeScript
  <2>1. task = "files" /\ at <= Len(tree) /\ stage = "syntax" /\ TakeFile(ScriptAnalysis(at, script))
    BY <1>7 DEF TakeScript, AgreeInv, DocInv, Placed
  <2> QED BY <1>7, <2>1, ScriptYields, TakeFileAgrees DEF TakeScript
<1>8. CASE ReadText \/ CutText \/ ReadScript \/ ScanScript \/ UNCHANGED vars
  <2>1. UNCHANGED docVars
    BY <1>8 DEF ReadText, CutText, ReadScript, ScanScript, vars
  <2> QED BY <2>1 DEF docVars, work, tables, reports, AgreeInv, FoundAgrees, RowsYield, SymbolsMatchUnits, Paths
<1>9. CASE RaiseConflict \/ Interrupt
  BY <1>9 DEF RaiseConflict, Interrupt, tables, reports, AgreeInv, FoundAgrees, Nothing, SymbolsOf, RowsYield,
              SymbolsMatchUnits, Paths
<1>10. CASE Pass
  <2>1. FoundAgrees' /\ SymbolsMatchUnits'
    BY <1>10 DEF Pass, tables, reports, AgreeInv, FoundAgrees, Nothing, SymbolsOf, SymbolsMatchUnits
  <2>2. \A r \in Runs : "normalize" \in passed[r] => "normalize" \in passed'[r]
    BY <1>10 DEF Pass, AgreeInv, DocInv, Placed
  <2> QED BY <1>10, <2>1, <2>2 DEF Pass, tables, reports, AgreeInv, RowsYield, Paths
<1>11. CASE EndFiles \/ WriteReport \/ StoreFiles
  <2>1. /\ UNCHANGED loopVars /\ symbolRows' = symbolRows /\ unitRows' = unitRows
        /\ task' \in {"report", "rows", "units", "done"} /\ run # NoRun
    BY <1>11 DEF EndFiles, WriteReport, StoreFiles, tables, reports, AfterFiles, AfterReport, AgreeInv,
                 DocInv, Placed
  <2>2. at = Len(tree) + 1
    BY <1>11, TreeFacts DEF EndFiles, WriteReport, StoreFiles, AgreeInv, DocInv, Placed, FoundAgrees
  <2>3. FoundAgrees'
    BY <2>1, <2>2 DEF loopVars, AgreeInv, FoundAgrees, Paths
  <2> QED BY <2>1, <2>3 DEF loopVars, AgreeInv, RowsYield, SymbolsMatchUnits, Paths
<1>12. CASE StoreUnits
  BY <1>12, StoreUnitsAgrees
<1> QED BY <1>3, <1>4, <1>5, <1>6, <1>7, <1>8, <1>9, <1>10, <1>11, <1>12
        DEF DocNext, Work, Normalize, Syntax, Store, Rest

\* The symbols of a run are those that its units were made from, although
\* replace_units keeps the old ones when it is given none (replace_units).
THEOREM SymbolsAgree == DocSpec => []SymbolsMatchUnits
<1>1. DocInit => AgreeInv
  <2>1. DocInit => DocInv
    BY DocInitInv
  <2>2. DocInit => ScanYields /\ FoundAgrees /\ RowsYield /\ SymbolsMatchUnits
    BY DEF DocInit, ScanInit, ScanYields, FoundAgrees, Nothing, SymbolsOf, RowsYield,
           SymbolsMatchUnits
  <2> QED BY <2>1, <2>2 DEF AgreeInv
<1>2. AgreeInv => SymbolsMatchUnits
  BY DEF AgreeInv
<1> QED BY <1>1, <1>2, AgreeStep, PTL DEF DocSpec

(***************************************************************************)
(* Nothing is lost.  A loop over the files covers the lines of each file   *)
(* that it reads, or records the file.  Which files that it reads normalize*)
(* records is decided by the files and the settings, so that every report  *)
(* of the stage names them, whichever run wrote it last; a file that could *)
(* not be read is named by the report of the same run only.                *)
(***************************************************************************)

CoveredBy(us, p, lines) == \A i \in lines : \E u \in us : u.path = p /\ i \in u.first..u.last

\* normalize cuts the file, and its searchable lines are in the units.
Kept(us, p) ==
  NormalizeReads(tree[p]) /\ ~ Fails(tree[p]) => CoveredBy(us, p, Searchable(tree[p]))

\* syntax reads the file, and all of its lines are in the units.
Whole(us, p) == SyntaxReads(tree[p]) => CoveredBy(us, p, 1..tree[p].n)

\* The files that normalize and syntax record.
Failed == {p \in Paths : NormalizeReads(tree[p]) /\ Fails(tree[p])}
Undecoded == {p \in Paths : ~ SyntaxReads(tree[p])}

Accounted(s, f, p) ==
  IF s = "normalize"
    THEN /\ p \in f.files \cup f.errors /\ (p \in Failed => p \in f.errors)
         /\ p \in f.files => Kept(f.units, p)
  ELSE (p \in Undecoded => p \in f.errors) /\ Whole(f.units, p)

FoundAll ==
  /\ run # NoRun => /\ \A p \in Paths : p < at => Accounted(stage, found, p)
                    /\ \A p \in found.files : p < at
  /\ task \in {"report", "rows", "units", "done"} => at = Len(tree) + 1

\* The tables of a run that has passed normalize, and those of one that is
\* behind the loop.
StoredAll ==
  \A r \in Runs :
    /\ "normalize" \in passed[r] =>
         /\ reporter = r => Paths \subseteq fileRows[r] \cup reported["normalize"]
         /\ Failed \subseteq reported["normalize"]
         /\ \/ \A p \in fileRows[r] : Kept(unitRows[r], p)
            \/ Undecoded \subseteq reported["syntax"] /\ \A p \in Paths : Whole(unitRows[r], p)
    /\ "syntax" \in passed[r] =>
         /\ "normalize" \in passed[r]
         /\ Undecoded \subseteq reported["syntax"] /\ \A p \in Paths : Whole(unitRows[r], p)

StoringAll ==
  /\ run # NoRun /\ stage = "normalize" =>
       /\ task \in {"units", "report", "done"} => fileRows[run] = found.files
       /\ task \in {"report", "done"} => \A p \in found.files : Kept(unitRows[run], p)
       /\ task = "done" => reported["normalize"] = found.errors /\ reporter = run
  /\ run # NoRun /\ stage = "syntax" =>
       /\ task # "rows"
       /\ task \in {"units", "done"} => Undecoded \subseteq reported["syntax"]
       /\ task = "done" => \A p \in Paths : Whole(unitRows[run], p)

LossInv == DocInv /\ OutcomeInv /\ FoundAll /\ StoredAll /\ StoringAll

LEMMA LossLeavesNothing == LossInv => NothingLost
<1>. SUFFICES ASSUME LossInv, NEW r \in Runs, NEW p \in Paths
              PROVE  /\ "normalize" \in passed[r] /\ reporter = r =>
                          p \in fileRows[r] \cup reported["normalize"]
                     /\ "normalize" \in passed[r] /\ p \in fileRows[r] /\ NormalizeReads(tree[p]) =>
                          \/ Covered(r, p, Searchable(tree[p]))
                          \/ p \in reported["normalize"]
                          \/ ~ SyntaxReads(tree[p]) /\ p \in reported["syntax"]
                     /\ "syntax" \in passed[r] =>
                          \/ SyntaxReads(tree[p]) /\ Covered(r, p, 1..tree[p].n)
                          \/ ~ SyntaxReads(tree[p]) /\ p \in reported["syntax"]
  BY DEF NothingLost
<1>1. \A lines : Covered(r, p, lines) <=> CoveredBy(unitRows[r], p, lines)
  BY DEF Covered, CoveredBy
<1>2. Searchable(tree[p]) \subseteq 1..tree[p].n
  BY DEF Searchable
<1>3. ASSUME "normalize" \in passed[r], p \in fileRows[r], NormalizeReads(tree[p]),
             ~ Fails(tree[p])
      PROVE \/ Covered(r, p, Searchable(tree[p]))
            \/ ~ SyntaxReads(tree[p]) /\ p \in reported["syntax"]
  BY <1>1, <1>2, <1>3 DEF LossInv, StoredAll, Kept, Whole, Undecoded, CoveredBy
<1> QED BY <1>1, <1>3 DEF LossInv, StoredAll, Whole, Undecoded, Failed

\* What the loops take over from a file.
LEMMA CutKeepsAll ==
  ASSUME DocInv, OutcomeInv, mode = "cut",
         NEW us, us = {[path |-> at, type |-> UnitType(text), first |-> u.first,
                        last |-> u.last, symbol |-> {}] : u \in units}
  PROVE Kept(us, at)
<1>1. /\ text = tree[at] /\ text \in Files /\ limits \in Settings /\ text.n \in Nat
      /\ limits.overlap \in Nat /\ limits.chunkLines \in Nat \ {0}
      /\ \A u \in units : u.first \in Nat /\ u.last \in Nat
  BY SettingsAssumption, FileFacts DEF DocInv, Placed, TextInv, TextTypeOK
<1>2. ASSUME NEW i \in Searchable(text) PROVE \E u \in units : i \in u.first..u.last
  <2>1. i \in 1..text.n /\ ~ text.blank[i] /\ (text.language = "markdown" => i >= FirstSection(text))
    BY <1>2 DEF Searchable
  <2>2. CASE text.language = "markdown"
    <3>1. FirstSection(text) \in Nat
      BY <1>1, FirstSectionInFile
    <3>2. i \in FirstSection(text)..(line - 1) /\ ~ Pending
      BY <1>1, <2>1, <2>2, <3>1 DEF DocInv, TextInv, MarkdownPartition, InMarkdown
    <3> QED BY <2>1, <2>2, <3>2 DEF DocInv, TextInv, MarkdownPartition, InMarkdown
  <2>3. CASE text.language # "markdown"
    <3>1. i \in i..text.n /\ i - i <= limits.overlap /\ i - i < limits.chunkLines
      BY <1>1, <2>1
    <3>2. ~ BlankLines(text, i, i)
      BY <2>1 DEF BlankLines
    <3>3. \E u \in units : u.first <= i /\ i <= u.last
      BY <2>1, <2>3, <3>1, <3>2 DEF DocInv, TextInv, WindowsCutNothing, InWindows
    <3> QED BY <1>1, <2>1, <3>3
  <2> QED BY <2>2, <2>3
<1>3. ASSUME NEW u \in units PROVE \E v \in us : v.path = at /\ v.first = u.first /\ v.last = u.last
  <2>. DEFINE v == [path |-> at, type |-> UnitType(text), first |-> u.first, last |-> u.last,
                    symbol |-> {}]
  <2>1. v.path = at /\ v.first = u.first /\ v.last = u.last
    OBVIOUS
  <2>2. v \in us
    OBVIOUS
  <2> QED BY <2>1, <2>2
<1>4. CoveredBy(us, at, Searchable(text))
  BY <1>2, <1>3 DEF CoveredBy
<1> QED BY <1>1, <1>4 DEF Kept

LEMMA WholeModule ==
  ASSUME NEW p \in Paths, NEW us, tree[p] \in Files,
         \E u \in us : u.path = p /\ u.first = 1 /\ u.last = LastLine(tree[p])
  PROVE Whole(us, p)
<1>1. tree[p].n \in Nat
  BY FileFacts
<1>2. \A i \in 1..tree[p].n : i \in 1..LastLine(tree[p])
  BY <1>1 DEF LastLine
<1> QED BY <1>2 DEF Whole, CoveredBy

LEMMA SymbolsAreWhole ==
  ASSUME NEW p \in Paths, tree[p] \in Files, NEW syms, NEW imps, NEW errs, NEW kind,
         ModuleSymbol(p, tree[p], kind) \in syms
  PROVE Whole(FromSymbols(p, tree[p], syms, imps, errs).units, p)
<1>1. UnitFromSymbol(tree[p], ModuleSymbol(p, tree[p], kind))
        \in FromSymbols(p, tree[p], syms, imps, errs).units
  BY DEF FromSymbols, Nothing
<1>2. LET u == UnitFromSymbol(tree[p], ModuleSymbol(p, tree[p], kind))
      IN u.path = p /\ u.first = 1 /\ u.last = LastLine(tree[p])
  BY DEF UnitFromSymbol, ModuleSymbol, MakeSymbol
<1> QED BY <1>1, <1>2, WholeModule

LEMMA FallbackIsWhole ==
  ASSUME NEW p \in Paths, tree[p] \in Files
  PROVE Whole(Fallback(p, tree[p]).units, p)
<1>1. \E u \in Fallback(p, tree[p]).units : u.path = p /\ u.first = 1 /\ u.last = LastLine(tree[p])
  BY DEF Fallback, Error, Nothing
<1> QED BY <1>1, WholeModule

LEMMA AnalysisIsWhole ==
  ASSUME NEW p \in Paths, tree[p] \in Files
  PROVE Whole(Analysis(p, tree[p]).units, p)
<1>1. Whole(FromSymbols(p, tree[p], {ModuleSymbol(p, tree[p], "configuration-object")}, {}, {}).units, p)
  BY SymbolsAreWhole
<1>2. Whole(FromSymbols(p, tree[p], PythonSymbols(p, tree[p]), PythonImports(p, tree[p]), {}).units, p)
  <2>1. ModuleSymbol(p, tree[p], "module") \in PythonSymbols(p, tree[p])
    BY DEF PythonSymbols
  <2> QED BY <2>1, SymbolsAreWhole
<1> QED BY <1>1, <1>2, FallbackIsWhole DEF Analysis

LEMMA ScriptIsWhole ==
  ASSUME at \in Paths, tree[at] \in Files, script = tree[at]
  PROVE Whole(ScriptAnalysis(at, script).units, at)
<1>. DEFINE syms == {ModuleSymbol(at, script, "module")} \cup
              {MakeSymbol(at, s.kind, s.owners, s.first, 1, s.first, s.last) : s \in symbols}
            imps == {[path |-> at, name |-> l, place |-> 1, first |-> l, last |-> l] : l \in imported}
            errs == IF mismatch THEN {at} ELSE {}
<1>1. ScriptAnalysis(at, script) =
        IF symbols = {} THEN Fallback(at, script) ELSE FromSymbols(at, script, syms, imps, errs)
  BY DEF ScriptAnalysis
<1>2. ModuleSymbol(at, tree[at], "module") \in syms
  OBVIOUS
<1>. HIDE DEF syms, imps, errs
<1>3. Whole(FromSymbols(at, tree[at], syms, imps, errs).units, at)
  BY <1>2, SymbolsAreWhole
<1> QED BY <1>1, <1>3, FallbackIsWhole

\* syntax stores no rows of files.
LEMMA AnalysisHasNoRows == \A p, f : Analysis(p, f).files = {}
BY DEF Analysis, FromSymbols, Fallback, Error, Nothing

LEMMA ScriptHasNoRows == \A p, f : ScriptAnalysis(p, f).files = {}
BY DEF ScriptAnalysis, FromSymbols, Fallback, Error, Nothing

LEMMA CoverGrows ==
  ASSUME NEW us, NEW vs, us \subseteq vs, NEW p
  PROVE (Kept(us, p) => Kept(vs, p)) /\ (Whole(us, p) => Whole(vs, p))
BY DEF Kept, Whole, CoveredBy

\* Nothing that is promised of a file depends on more than the commit and the
\* settings.
LEMMA PromisesStay ==
  ASSUME tree' = tree, limits' = limits
  PROVE /\ Paths' = Paths /\ Failed' = Failed /\ Undecoded' = Undecoded
        /\ \A us, p : (Kept(us, p)' <=> Kept(us, p)) /\ (Whole(us, p)' <=> Whole(us, p))
<1>1. \A f : Fails(f)' <=> Fails(f)
  BY DEF Fails, BadWindow, Start, Step, WindowFrom, HasRange, FirstSection, HeadingLines, BlankLines
<1> QED BY <1>1 DEF Paths, Failed, Undecoded, Kept, Whole, CoveredBy, Searchable, FirstSection,
                    HeadingLines

LEMMA SettingsStay == [TextNext]_textVars => limits' = limits
BY DEF TextNext, OpenText, Cut, NextSection, EndSection, BlankLine, FullChunk, AddLine,
       EndMarkdown, BlankWindow, Window, EndWindows, DropText, textVars

\* The loop goes on behind a file that has given new.
LEMMA TakeFileAccounts ==
  ASSUME LossInv, NEW new, TakeFile(new), limits' = limits, task = "files", at <= Len(tree),
         Accounted(stage, new, at), new.files \subseteq {at}
  PROVE FoundAll' /\ StoredAll' /\ StoringAll'
<1>1. /\ found'.units = found.units \cup new.units /\ found'.errors = found.errors \cup new.errors
      /\ found'.files = found.files \cup new.files
      /\ at' = at + 1 /\ tree' = tree /\ run' = run /\ stage' = stage /\ task' = task
      /\ passed' = passed /\ UNCHANGED <<unitRows, fileRows, reported, reporter>>
  BY DEF TakeFile, tables, reports, Merge
<1>2. /\ Paths' = Paths /\ Failed' = Failed /\ Undecoded' = Undecoded
      /\ \A us, p : (Kept(us, p)' <=> Kept(us, p)) /\ (Whole(us, p)' <=> Whole(us, p))
  BY <1>1, PromisesStay
<1>3. run # NoRun /\ at \in Nat /\ Len(tree) \in Nat
  BY TreeFacts DEF LossInv, DocInv, Placed
<1>4. ASSUME NEW p \in Paths, p < at + 1 PROVE Accounted(stage, found', p)
  <2>1. p < at \/ p = at
    BY <1>3, <1>4 DEF Paths
  <2>2. CASE p < at
    <3>1. Accounted(stage, found, p) /\ p \notin new.files
      BY <1>3, <2>2 DEF LossInv, FoundAll
    <3> QED BY <1>1, <3>1, CoverGrows DEF Accounted
  <2>3. CASE p = at
    <3>1. p \notin found.files
      BY <1>3, <2>3 DEF LossInv, FoundAll
    <3> QED BY <1>1, <2>3, <3>1, CoverGrows DEF Accounted
  <2> QED BY <2>1, <2>2, <2>3
<1>5. \A p : Accounted(stage, found, p)' <=> Accounted(stage, found', p)
  BY <1>1, <1>2 DEF Accounted
<1>6. FoundAll'
  <2>1. \A p \in found'.files : p < at + 1
    BY <1>1, <1>3 DEF LossInv, FoundAll, DocInv, IsResult, Paths
  <2> QED BY <1>1, <1>2, <1>4, <1>5, <2>1 DEF FoundAll
<1>7. StoredAll' /\ StoringAll'
  BY <1>1, <1>2 DEF LossInv, StoredAll, StoringAll
<1> QED BY <1>6, <1>7

LEMMA LossStep == LossInv /\ [DocNext]_vars => LossInv'
<1>. SUFFICES ASSUME LossInv, [DocNext]_vars PROVE LossInv'
  OBVIOUS
<1>1. DocInv' /\ OutcomeInv' /\ limits' = limits
  BY DocInvStep, TextInside, OutcomeStep, SettingsStay DEF LossInv, DocInv
<1>2. SUFFICES FoundAll' /\ StoredAll' /\ StoringAll'
  BY <1>1 DEF LossInv
<1>3. tree' = tree /\ Len(tree) \in Nat
  BY TreeStays, TreeFacts DEF LossInv, DocInv, Placed
<1>4. /\ Paths' = Paths /\ Failed' = Failed /\ Undecoded' = Undecoded
      /\ \A us, p : (Kept(us, p)' <=> Kept(us, p)) /\ (Whole(us, p)' <=> Whole(us, p))
  BY <1>1, <1>3, PromisesStay
<1>5. \A s, f, p : Accounted(s, f, p)' <=> Accounted(s, f, p)
  BY <1>4 DEF Accounted
<1>6. ASSUME run' = NoRun, task' = "idle", UNCHANGED <<passed, tables, reports>>
      PROVE FoundAll' /\ StoredAll' /\ StoringAll'
  BY <1>4, <1>6 DEF LossInv, FoundAll, StoredAll, StoringAll, tables, reports
<1>7. ASSUME NEW r \in Runs, Begin(r) PROVE FoundAll' /\ StoredAll' /\ StoringAll'
  <2>1. \A p \in Paths : ~ (p < 1)
    BY DEF Paths
  <2> QED BY <1>4, <1>7, <2>1
          DEF Begin, Nothing, tables, reports, LossInv, FoundAll, StoredAll, StoringAll
<1>8. CASE SkipBinary \/ FailToRead
  <2>1. /\ task = "files" /\ at <= Len(tree) /\ stage = "normalize"
        /\ \/ TakeFile(Error(at))
           \/ TakeFile(Row(at)) /\ ~ NormalizeReads(tree[at])
    BY <1>8 DEF SkipBinary, FailToRead, AtFile, File
  <2>2. Accounted(stage, Error(at), at) /\ Error(at).files = {}
    BY <2>1 DEF Accounted, Error, Nothing
  <2>3. Row(at).files = {at} /\ (~ NormalizeReads(tree[at]) => Accounted(stage, Row(at), at))
    BY <2>1 DEF Accounted, Row, Nothing, Failed, Kept
  <2> QED BY <1>1, <2>1, <2>2, <2>3, TakeFileAccounts
<1>9. CASE SkipUndecoded
  <2>1. /\ task = "files" /\ at <= Len(tree) /\ stage = "syntax" /\ ~ SyntaxReads(tree[at])
        /\ TakeFile(Error(at))
    BY <1>9 DEF SkipUndecoded, AtFile, File
  <2>2. Accounted(stage, Error(at), at) /\ Error(at).files = {}
    BY <2>1 DEF Accounted, Error, Nothing, Whole
  <2> QED BY <1>1, <2>1, <2>2, TakeFileAccounts
<1>10. CASE Analyze
  <2>1. /\ task = "files" /\ at <= Len(tree) /\ stage = "syntax" /\ SyntaxReads(tree[at])
        /\ TakeFile(Analysis(at, tree[at]))
    BY <1>10 DEF Analyze, AtFile, File
  <2>2. at \in Paths /\ tree[at] \in Files
    BY <2>1, TreeFacts DEF LossInv, DocInv, Placed, Paths
  <2>3. Accounted(stage, Analysis(at, tree[at]), at) /\ Analysis(at, tree[at]).files = {}
    BY <2>1, <2>2, AnalysisIsWhole, AnalysisHasNoRows DEF Accounted, Undecoded
  <2> QED BY <1>1, <2>1, <2>3, TakeFileAccounts
<1>11. CASE TakeText
  <2>1. /\ task = "files" /\ at <= Len(tree) /\ stage = "normalize" /\ text = tree[at]
        /\ NormalizeReads(text) /\ mode \in {"cut", "raised"}
    BY <1>11 DEF TakeText, LossInv, DocInv, Placed
  <2>. DEFINE us == {[path |-> at, type |-> UnitType(text), first |-> u.first,
                      last |-> u.last, symbol |-> {}] : u \in units}
  <2>2. CASE mode = "raised"
    <3>. DEFINE new == [Row(at) EXCEPT !.errors = {at}]
    <3>1. Accounted(stage, new, at) /\ new.files = {at}
      BY <2>1, <2>2 DEF Accounted, Row, Nothing, Kept, LossInv, OutcomeInv
    <3>2. TakeFile(new)
      BY <1>11, <2>2 DEF TakeText
    <3>. HIDE DEF new
    <3> QED BY <1>1, <2>1, <3>1, <3>2, TakeFileAccounts
  <2>3. CASE mode = "cut"
    <3>1. Kept(us, at) /\ at \notin Failed
      BY <2>1, <2>3, CutKeepsAll DEF LossInv, OutcomeInv, Failed
    <3>. DEFINE new == [Row(at) EXCEPT !.units = us]
    <3>2. new.units = us /\ new.files = {at}
      BY DEF Row, Nothing
    <3>3. TakeFile(new)
      BY <1>11, <2>3 DEF TakeText
    <3>. HIDE DEF us, new
    <3>4. Accounted(stage, new, at)
      BY <2>1, <3>1, <3>2 DEF Accounted
    <3> QED BY <1>1, <2>1, <3>2, <3>3, <3>4, TakeFileAccounts
  <2> QED BY <2>1, <2>2, <2>3
<1>12. CASE TakeScript
  <2>1. /\ task = "files" /\ at <= Len(tree) /\ stage = "syntax" /\ script = tree[at]
        /\ SyntaxReads(script) /\ TakeFile(ScriptAnalysis(at, script))
    BY <1>12 DEF TakeScript, LossInv, DocInv, Placed
  <2>2. at \in Paths /\ tree[at] \in Files
    BY <2>1, TreeFacts DEF LossInv, DocInv, Placed, Paths
  <2>3. Accounted(stage, ScriptAnalysis(at, script), at) /\ ScriptAnalysis(at, script).files = {}
    BY <2>1, <2>2, ScriptIsWhole, ScriptHasNoRows DEF Accounted, Undecoded
  <2> QED BY <1>1, <2>1, <2>3, TakeFileAccounts
<1>13. CASE ReadText \/ CutText \/ ReadScript \/ ScanScript \/ UNCHANGED vars
  <2>1. UNCHANGED docVars
    BY <1>13 DEF ReadText, CutText, ReadScript, ScanScript, vars
  <2> QED BY <1>4, <1>5, <2>1 DEF docVars, work, tables, reports, LossInv, FoundAll, StoredAll, StoringAll
<1>14. CASE RaiseConflict \/ Interrupt
  BY <1>6, <1>14 DEF RaiseConflict, Interrupt
<1>15. ASSUME task # "files" \/ at > Len(tree), run # NoRun, UNCHANGED loopVars,
              task' \in {"report", "rows", "units", "done"}
       PROVE FoundAll'
  BY <1>3, <1>4, <1>5, <1>15 DEF LossInv, FoundAll, DocInv, Placed, loopVars
<1>16. run # NoRun /\ task # "idle" => run \in Runs /\ stage \in StageNames
  BY DEF LossInv, DocInv, Placed
<1>17. task \in {"report", "rows", "units", "done"} /\ run # NoRun =>
         \A p \in Paths : Accounted(stage, found, p)
  BY <1>3 DEF LossInv, FoundAll, Paths
<1>18. CASE EndFiles
  <2>1. FoundAll'
    BY <1>15, <1>18 DEF EndFiles, AfterFiles, LossInv, DocInv, Placed
  <2> QED BY <1>4, <1>18, <2>1 DEF EndFiles, AfterFiles, loopVars, tables, reports, LossInv, StoredAll, StoringAll
<1>19. CASE WriteReport
  <2>1. /\ run # NoRun /\ task = "report" /\ UNCHANGED loopVars /\ UNCHANGED tables
        /\ stage \in StageNames /\ reported' = [reported EXCEPT ![stage] = found.errors]
        /\ reporter' = IF stage = "normalize" THEN run ELSE reporter
        /\ run \in Runs /\ (stage = "syntax" <=> "normalize" \in passed[run])
        /\ task' = AfterReport(stage) /\ DOMAIN reported = StageNames
    BY <1>19 DEF WriteReport, LossInv, DocInv, Placed, TablesOK
  <2>2. FoundAll'
    BY <1>15, <2>1 DEF AfterReport
  <2>3. /\ stage = "normalize" => Failed \subseteq found.errors
        /\ stage = "syntax" => Undecoded \subseteq found.errors
    BY <1>17, <2>1 DEF Accounted, Failed, Undecoded
  <2>4. /\ reported'[stage] = found.errors
        /\ \A s \in StageNames : s # stage => reported'[s] = reported[s]
    BY <2>1
  <2>5. /\ Failed \subseteq reported["normalize"] => Failed \subseteq reported'["normalize"]
        /\ Undecoded \subseteq reported["syntax"] => Undecoded \subseteq reported'["syntax"]
    BY <2>1, <2>3, <2>4 DEF StageNames
  <2>6. StoredAll'
    BY <1>4, <2>1, <2>4, <2>5 DEF loopVars, tables, StageNames, LossInv, StoredAll
  <2>7. StoringAll'
    BY <1>4, <2>1, <2>3, <2>4 DEF loopVars, tables, AfterReport, StageNames, LossInv, StoringAll
  <2> QED BY <2>2, <2>6, <2>7
<1>20. CASE StoreFiles
  <2>1. /\ run \in Runs /\ run # NoRun /\ task = "rows" /\ task' = "units" /\ UNCHANGED loopVars
        /\ fileRows' = [fileRows EXCEPT ![run] = found.files] /\ DOMAIN fileRows = Runs
        /\ UNCHANGED <<unitRows, reported, reporter>>
        /\ stage \in StageNames /\ (stage = "syntax" <=> "normalize" \in passed[run])
    BY <1>20 DEF StoreFiles, reports, LossInv, DocInv, Placed, TablesOK
  <2>2. FoundAll'
    BY <1>15, <2>1
  <2>3. fileRows'[run] = found.files /\ \A r \in Runs : r # run => fileRows'[r] = fileRows[r]
    BY <2>1
  <2>4. StoredAll'
    <3>1. "normalize" \notin passed[run] /\ "syntax" \notin passed[run]
      BY <2>1 DEF StageNames, LossInv, StoringAll, StoredAll
    <3> QED BY <1>4, <2>1, <2>3, <3>1 DEF loopVars, LossInv, StoredAll
  <2>5. StoringAll'
    BY <1>4, <2>1, <2>3 DEF loopVars, LossInv, StoringAll
  <2> QED BY <2>2, <2>4, <2>5
<1>21. CASE StoreUnits
  <2>1. /\ run \in Runs /\ run # NoRun /\ task = "units" /\ task' = AfterUnits(stage)
        /\ UNCHANGED loopVars /\ UNCHANGED <<fileRows, reported, reporter>>
        /\ unitRows' = [unitRows EXCEPT ![run] = found.units] /\ DOMAIN unitRows = Runs
        /\ stage \in StageNames /\ (stage = "syntax" <=> "normalize" \in passed[run])
    BY <1>21 DEF StoreUnits, reports, LossInv, DocInv, Placed, TablesOK
  <2>2. FoundAll'
    BY <1>15, <2>1 DEF AfterUnits
  <2>3. unitRows'[run] = found.units /\ \A r \in Runs : r # run => unitRows'[r] = unitRows[r]
    BY <2>1
  <2>4. /\ stage = "normalize" => \A p \in found.files : Kept(found.units, p)
        /\ stage = "syntax" => /\ \A p \in Paths : Whole(found.units, p)
                               /\ Undecoded \subseteq reported["syntax"]
    BY <1>17, <2>1 DEF Accounted, LossInv, StoringAll, DocInv, IsResult
  <2>5. passed' = passed /\ run' = run /\ stage' = stage /\ found' = found
    BY <2>1 DEF loopVars
  <2>6. StoringAll'
    BY <1>4, <2>1, <2>3, <2>4, <2>5 DEF AfterUnits, StageNames, LossInv, StoringAll
  <2>7. stage = "normalize" => "normalize" \notin passed[run] /\ "syntax" \notin passed[run]
    BY <2>1 DEF LossInv, StoredAll
  <2>8. StoredAll'
    BY <1>4, <2>1, <2>3, <2>4, <2>5, <2>7 DEF StageNames, LossInv, StoredAll
  <2> QED BY <2>2, <2>6, <2>8
<1>22. CASE Pass
  <2>1. /\ run \in Runs /\ stage \in StageNames /\ run' = NoRun /\ task' = "idle" /\ task = "done"
        /\ passed' = [passed EXCEPT ![run] = @ \cup {stage}] /\ DOMAIN passed = Runs
        /\ stage = "syntax" <=> "normalize" \in passed[run]
        /\ UNCHANGED <<unitRows, fileRows, reported, reporter>>
    BY <1>22, RunsAssumption DEF Pass, tables, reports, LossInv, DocInv, Placed
  <2>2. FoundAll' /\ StoringAll'
    BY <2>1 DEF FoundAll, StoringAll
  <2>3. /\ passed'[run] = passed[run] \cup {stage}
        /\ \A r \in Runs : r # run => passed'[r] = passed[r]
    BY <2>1
  <2>4. run # NoRun
    BY <2>1, RunsAssumption
  <2>5. ASSUME stage = "normalize"
        PROVE /\ Paths \subseteq fileRows[run] \cup reported["normalize"]
              /\ Failed \subseteq reported["normalize"]
              /\ \A p \in fileRows[run] : Kept(unitRows[run], p)
    <3>1. /\ reported["normalize"] = found.errors /\ fileRows[run] = found.files
          /\ \A p \in found.files : Kept(unitRows[run], p)
      BY <2>1, <2>4, <2>5 DEF LossInv, StoringAll
    <3>2. \A p \in Paths : Accounted("normalize", found, p)
      BY <1>17, <2>1, <2>4, <2>5
    <3> QED BY <3>1, <3>2 DEF Accounted, Failed
  <2>6. StoredAll'
    BY <1>4, <2>1, <2>3, <2>4, <2>5 DEF StageNames, LossInv, StoredAll, StoringAll
  <2> QED BY <2>2, <2>6
<1> QED BY <1>7, <1>8, <1>9, <1>10, <1>11, <1>12, <1>13, <1>14, <1>18,
          <1>19, <1>20, <1>21, <1>22
        DEF DocNext, Work, Normalize, Syntax, Store, Rest

\* No line of a text is lost on its way into the tables, for every commit, all
\* settings and any number of runs, wherever the stages are interrupted
\* (normalize.run, syntax.run).
THEOREM NothingIsLost == DocSpec => []NothingLost
<1>1. DocInit => LossInv
  <2>. SUFFICES ASSUME DocInit PROVE LossInv
    OBVIOUS
  <2>1. DocInv
    BY DocInitInv
  <2>2. OutcomeInv
    BY DEF DocInit, TextInit, OutcomeInv, InMarkdown
  <2>3. FoundAll /\ StoredAll /\ StoringAll
    BY DEF DocInit, FoundAll, StoredAll, StoringAll
  <2> QED BY <2>1, <2>2, <2>3 DEF LossInv
<1> QED BY <1>1, LossStep, LossLeavesNothing, PTL DEF DocSpec

(***************************************************************************)
(* What replace_units may meet twice.  Two files whose paths differ in a   *)
(* backslash only have one name in every id, and may conflict in both      *)
(* stages.  Else normalize never stores two units with one id, and syntax  *)
(* can only for two sorts of files: a script with a declaration that is as *)
(* long as the file and longer than a unit may be, and a Python file with  *)
(* two declarations, or twice the same import, on the same lines.          *)
(***************************************************************************)

OneBlock(f) ==
  /\ f.n > 0 /\ f.decl[1] # "none" /\ IsBlockEnd(f, 1, f.n)
  /\ Size(f, 1, f.n) - 1 > limits.maxSymbol

SameLines(p, f) ==
  \/ \E s, t \in PythonSymbols(p, f) :
       /\ s # t /\ s.first = t.first /\ s.last = t.last
       /\ s.kind = t.kind \/ Oversized(f, s)
  \/ \E i, j \in PythonImports(p, f) : i # j /\ ImportId(i) = ImportId(j)

Twins(p) ==
  LET f == tree[p] IN
  \/ f.language = "script" /\ OneBlock(f)
  \/ f.language = "python" /\ f.parses /\ SameLines(p, f)

\* Two paths that normalize_path makes the same.
Namesakes == \E p, q \in Paths : p # q /\ tree[p].name = tree[q].name

Excused(p) == Namesakes \/ (stage = "syntax" /\ Twins(p))

\* Rows with one key are the same row, unless two files have one name or syntax is
\* at a file that has twins.
UnitsApart(f) == \A u, v \in f.units : UnitId(u) = UnitId(v) => u = v \/ Excused(u.path)
SymbolsApart(f) == \A s, t \in f.symbols : SymbolId(s) = SymbolId(t) => s = t \/ Excused(s.path)
ImportsApart(f) == \A i, j \in f.imports : ImportId(i) = ImportId(j) => i = j \/ Excused(i.path)

Apart(f) == UnitsApart(f) /\ SymbolsApart(f) /\ ImportsApart(f)

Within(f, lo, hi) ==
  \A x \in f.units \cup f.symbols \cup f.imports : x.path \in Nat /\ lo <= x.path /\ x.path < hi

FoundApart == run # NoRun => Within(found, 1, at) /\ Apart(found)

FirstsDiffer == scan # "idle" => \A s, t \in symbols : s.first = t.first => s = t

LEMMA FirstsDifferStep == ScanInv /\ FirstsDiffer /\ [ScanNext]_scanVars => FirstsDiffer'
<1>. SUFFICES ASSUME ScanInv, FirstsDiffer, [ScanNext]_scanVars PROVE FirstsDiffer'
  OBVIOUS
<1>1. ASSUME NEW f \in Files, OpenScript(f) PROVE FirstsDiffer'
  BY <1>1 DEF OpenScript, FirstsDiffer
<1>2. CASE ScanClass \/ ScanDeclaration
  <2>1. NextRow
    BY <1>2 DEF ScanClass, ScanDeclaration
  <2>2. row \in Nat /\ \A s \in symbols : s.first \in Nat /\ s.first < row
    BY <2>1, InLines DEF SymbolsOK
  <2>3. PICK kind, end : symbols' = symbols \cup {Symbol(kind, end, Left)}
    BY <1>2 DEF ScanClass, ScanDeclaration
  <2>4. Symbol(kind, end, Left).first = row
    BY DEF Symbol
  <2>5. scan # "idle"
    BY <2>1 DEF NextRow
  <2> QED BY <2>2, <2>3, <2>4, <2>5 DEF FirstsDiffer
<1>3. CASE ScanOther \/ EndScan
  <2>1. symbols' = symbols /\ scan # "idle"
    BY <1>3 DEF ScanOther, EndScan, NextRow
  <2> QED BY <2>1 DEF FirstsDiffer
<1>4. CASE DropScript \/ UNCHANGED scanVars
  BY <1>4 DEF DropScript, scanVars, FirstsDiffer
<1> QED BY <1>1, <1>2, <1>3, <1>4 DEF ScanNext, Scan

\* A file of its own adds no conflict with the files before it.
LEMMA MergedApart ==
  ASSUME NEW f, NEW g, NEW p \in Paths, Len(tree) \in Nat,
         Within(f, 1, p), Within(g, p, p + 1), Apart(f), Apart(g)
  PROVE Apart(Merge(f, g)) /\ Within(Merge(f, g), 1, p + 1)
<1>1. /\ Merge(f, g).units = f.units \cup g.units /\ Merge(f, g).symbols = f.symbols \cup g.symbols
      /\ Merge(f, g).imports = f.imports \cup g.imports
  BY DEF Merge
<1>2. /\ \A u, v : UnitId(u) = UnitId(v) => tree[u.path].name = tree[v.path].name
      /\ \A u, v : SymbolId(u) = SymbolId(v) => tree[u.path].name = tree[v.path].name
      /\ \A u, v : ImportId(u) = ImportId(v) => tree[u.path].name = tree[v.path].name
  BY DEF UnitId, SymbolId, ImportId
<1>3. /\ \A x \in f.units \cup f.symbols \cup f.imports : x.path < p /\ x.path \in Paths
      /\ \A x \in g.units \cup g.symbols \cup g.imports : x.path = p /\ x.path \in Paths
  BY DEF Within, Paths
<1>8. ASSUME NEW x \in f.units \cup f.symbols \cup f.imports,
             NEW y \in g.units \cup g.symbols \cup g.imports,
             tree[x.path].name = tree[y.path].name
      PROVE Namesakes
  BY <1>3, <1>8 DEF Namesakes, Paths
<1>4. UnitsApart(Merge(f, g))
  BY <1>1, <1>2, <1>8 DEF UnitsApart, Apart, Excused
<1>5. SymbolsApart(Merge(f, g))
  BY <1>1, <1>2, <1>8 DEF SymbolsApart, Apart, Excused
<1>6. ImportsApart(Merge(f, g))
  BY <1>1, <1>2, <1>8 DEF ImportsApart, Apart, Excused
<1>7. Within(Merge(f, g), 1, p + 1)
  <2>1. \A x \in f.units \cup f.symbols \cup f.imports : 1 <= x.path /\ x.path < p + 1
    BY <1>3 DEF Within, Paths
  <2>2. \A x \in g.units \cup g.symbols \cup g.imports : 1 <= x.path /\ x.path < p + 1
    BY <1>3 DEF Within, Paths
  <2> QED BY <1>1, <1>3, <2>1, <2>2 DEF Within, Paths
<1> QED BY <1>4, <1>5, <1>6, <1>7 DEF Apart

\* Where a span starts and ends says which lines it has.
LEMMA SameSpan ==
  ASSUME NEW f \in Files, NEW a \in 1..LastLine(f), NEW b \in 1..LastLine(f),
         NEW c \in 1..LastLine(f), NEW d \in 1..LastLine(f), Span(f, a, b) = Span(f, c, d)
  PROVE a = c /\ b = d
<1>1. /\ f.n \in Nat /\ \A i, j \in 0..f.n : i < j => f.ends[i] < f.ends[j]
      /\ f.ends \in [0..f.n -> Nat]
  BY FilesAssumption
<1>2. f.ends[a - 1] = f.ends[c - 1] /\ f.ends[LastIn(f, b)] = f.ends[LastIn(f, d)]
  BY DEF Span
<1>3. CASE f.n = 0
  BY <1>3 DEF LastLine
<1>4. CASE f.n # 0
  <2>1. /\ a \in 1..f.n /\ b \in 1..f.n /\ c \in 1..f.n /\ d \in 1..f.n
        /\ LastIn(f, b) = b /\ LastIn(f, d) = d
    BY <1>1, <1>4 DEF LastLine, LastIn
  <2>2. \A i, j \in 0..f.n : f.ends[i] = f.ends[j] => i = j
    <3>1. \A i, j \in 0..f.n : i < j \/ j < i \/ i = j
      BY <1>1
    <3>2. \A i \in 0..f.n : f.ends[i] \in Nat
      BY <1>1
    <3> QED BY <1>1, <3>1, <3>2
  <2>3. a - 1 \in 0..f.n /\ c - 1 \in 0..f.n /\ b \in 0..f.n /\ d \in 0..f.n
    BY <1>1, <2>1
  <2>4. a - 1 = c - 1 /\ b = d
    BY <1>2, <2>1, <2>2, <2>3
  <2> QED BY <2>1, <2>4
<1> QED BY <1>3, <1>4

\* Two symbols of a file whose units have one id are on the same lines.
LEMMA SameUnit ==
  ASSUME NEW f, NEW s, NEW t, s.kind \in UnitTypes, t.kind \in UnitTypes, s.path = t.path,
         UnitId(UnitFromSymbol(f, s)) = UnitId(UnitFromSymbol(f, t))
  PROVE /\ s.path = t.path /\ s.first = t.first /\ s.last = t.last
        /\ s.kind = t.kind \/ Oversized(f, s)
<1>1. /\ s.path = t.path /\ s.first = t.first /\ s.last = t.last
      /\ (IF Oversized(f, s) THEN "code_chunk" ELSE s.kind)
           = (IF Oversized(f, t) THEN "code_chunk" ELSE t.kind)
  BY DEF UnitId, UnitFromSymbol
<1>2. Oversized(f, s) <=> Oversized(f, t)
  BY <1>1 DEF Oversized
<1> QED BY <1>1, <1>2

LEMMA RowApart == \A p \in Nat : Apart(Row(p)) /\ Within(Row(p), p, p + 1)
BY DEF Apart, UnitsApart, SymbolsApart, ImportsApart, Within, Row, Nothing

LEMMA ErrorApart == \A p \in Nat : Apart(Error(p)) /\ Within(Error(p), p, p + 1)
BY DEF Apart, UnitsApart, SymbolsApart, ImportsApart, Within, Error, Nothing

LEMMA FallbackApart ==
  ASSUME NEW p \in Nat, NEW f
  PROVE Apart(Fallback(p, f)) /\ Within(Fallback(p, f), p, p + 1)
<1>. DEFINE unit == [path |-> p, type |-> "code_chunk", first |-> 1, last |-> LastLine(f), symbol |-> {}]
<1>1. /\ Fallback(p, f).units = {unit} /\ Fallback(p, f).symbols = {} /\ Fallback(p, f).imports = {}
  BY DEF Fallback, Error, Nothing
<1>2. unit.path = p
  OBVIOUS
<1>. HIDE DEF unit
<1> QED BY <1>1, <1>2 DEF Apart, UnitsApart, SymbolsApart, ImportsApart, Within

\* Symbols of which no two are twins give units of which no two are.
LEMMA SymbolsStayApart ==
  ASSUME NEW p \in Nat, tree[p] \in Files, NEW f, f = tree[p], NEW syms, NEW imps, NEW errs,
         stage = "syntax", \A s \in syms : IsSymbol(s, p) /\ OnLines(s, f), \A i \in imps : i.path = p,
         \A s, t \in syms :
           s.first = t.first /\ s.last = t.last /\ (s.kind = t.kind \/ Oversized(f, s)) =>
             s = t \/ Twins(p),
         \A i, j \in imps : ImportId(i) = ImportId(j) => i = j \/ Twins(p)
  PROVE /\ Apart(FromSymbols(p, f, syms, imps, errs))
        /\ Within(FromSymbols(p, f, syms, imps, errs), p, p + 1)
<1>. DEFINE r == FromSymbols(p, f, syms, imps, errs)
<1>1. /\ r.units = {UnitFromSymbol(f, s) : s \in syms} /\ r.symbols = syms /\ r.imports = imps
  BY DEF FromSymbols, Nothing
<1>2. \A s \in syms : UnitFromSymbol(f, s).path = p /\ s.path = p /\ s.kind \in UnitTypes
  BY DEF UnitFromSymbol, IsSymbol
<1>. HIDE DEF r
<1>3. ASSUME NEW u \in r.units, NEW v \in r.units, UnitId(u) = UnitId(v) PROVE u = v \/ Excused(u.path)
  <2>1. PICK s \in syms, t \in syms : u = UnitFromSymbol(f, s) /\ v = UnitFromSymbol(f, t)
    BY <1>1
  <2> QED BY <1>2, <1>3, <2>1, SameUnit DEF Excused
<1>4. ASSUME NEW s \in r.symbols, NEW t \in r.symbols, SymbolId(s) = SymbolId(t)
      PROVE s = t \/ Excused(s.path)
  <2>1. s \in syms /\ t \in syms /\ s.path = p /\ t.path = p
    BY <1>1, <1>2, <1>4
  <2>2. Span(f, s.first, s.last) = Span(f, t.first, t.last) /\ s.kind = t.kind
    BY <1>4, <2>1 DEF SymbolId
  <2>3. s.first = t.first /\ s.last = t.last
    BY <2>1, <2>2, SameSpan DEF OnLines
  <2> QED BY <1>2, <2>1, <2>2, <2>3 DEF Excused
<1>5. ImportsApart(r)
  BY <1>1 DEF ImportsApart, Excused
<1>6. Within(r, p, p + 1)
  BY <1>1, <1>2 DEF Within
<1> QED BY <1>3, <1>4, <1>5, <1>6 DEF r, Apart, UnitsApart, SymbolsApart

LEMMA AnalysisApart ==
  ASSUME NEW p \in Nat, tree[p] \in Files, stage = "syntax"
  PROVE Apart(Analysis(p, tree[p])) /\ Within(Analysis(p, tree[p]), p, p + 1)
<1>. DEFINE f == tree[p]
            config == {ModuleSymbol(p, f, "configuration-object")}
<1>1. Apart(FromSymbols(p, f, config, {}, {})) /\ Within(FromSymbols(p, f, config, {}, {}), p, p + 1)
  <2>1. \A s \in config : IsSymbol(s, p) /\ OnLines(s, f)
    BY ModuleIsSymbol DEF UnitTypes
  <2>2. \A s, t \in config : s = t
    OBVIOUS
  <2>3. f = tree[p]
    OBVIOUS
  <2>. HIDE DEF config, f
  <2> QED BY <2>1, <2>2, <2>3, SymbolsStayApart
<1>2. ASSUME f.language = "python", f.parses
      PROVE /\ Apart(FromSymbols(p, f, PythonSymbols(p, f), PythonImports(p, f), {}))
            /\ Within(FromSymbols(p, f, PythonSymbols(p, f), PythonImports(p, f), {}), p, p + 1)
  <2>1. /\ \A s \in PythonSymbols(p, f) : IsSymbol(s, p) /\ OnLines(s, f)
        /\ \A i \in PythonImports(p, f) : i.path = p
    BY PythonAreSymbols
  <2>2. ASSUME NEW s \in PythonSymbols(p, f), NEW t \in PythonSymbols(p, f),
               s.first = t.first, s.last = t.last, s.kind = t.kind \/ Oversized(f, s)
        PROVE s = t \/ Twins(p)
    BY <1>2, <2>2 DEF Twins, SameLines
  <2>3. \A i, j \in PythonImports(p, f) : ImportId(i) = ImportId(j) => i = j \/ Twins(p)
    BY <1>2 DEF Twins, SameLines
  <2>4. f = tree[p]
    OBVIOUS
  <2>. HIDE DEF f
  <2> QED BY <2>1, <2>2, <2>3, <2>4, SymbolsStayApart
<1>3. Apart(Fallback(p, f)) /\ Within(Fallback(p, f), p, p + 1)
  BY FallbackApart
<1> QED BY <1>1, <1>2, <1>3 DEF Analysis

LEMMA ScriptApart ==
  ASSUME DocInv, FirstsDiffer, scan = "scanned", at \in Nat
  PROVE Apart(ScriptAnalysis(at, script)) /\ Within(ScriptAnalysis(at, script), at, at + 1)
<1>1. /\ script \in Files /\ script = tree[at] /\ script.language = "script" /\ script.n \in Nat
      /\ SymbolsOK /\ KindsOK /\ stage = "syntax"
  BY BraceFacts DEF DocInv, ScanInv, Placed
<1>. DEFINE module == ModuleSymbol(at, script, "module")
            Made(s) == MakeSymbol(at, s.kind, s.owners, s.first, 1, s.first, s.last)
            syms == {module} \cup {Made(s) : s \in symbols}
            imps == {[path |-> at, name |-> l, place |-> 1, first |-> l, last |-> l] : l \in imported}
            errs == IF mismatch THEN {at} ELSE {}
<1>2. ScriptAnalysis(at, script) =
        IF symbols = {} THEN Fallback(at, script) ELSE FromSymbols(at, script, syms, imps, errs)
  BY DEF ScriptAnalysis
<1>3. \A s \in symbols :
        /\ IsSymbol(Made(s), at) /\ OnLines(Made(s), script)
        /\ Made(s).first = s.first /\ Made(s).last = s.last /\ Made(s).kind = s.kind
        /\ s.kind \in DeclKinds /\ s.first \in 1..script.n /\ s.last \in 1..script.n
        /\ script.decl[s.first] # "none" /\ IsBlockEnd(script, s.first, s.last)
  BY <1>1 DEF IsSymbol, OnLines, LastLine, MakeSymbol, UnitTypes, KindsOK, SymbolsOK
<1>4. /\ IsSymbol(module, at) /\ OnLines(module, script) /\ module.first = 1 /\ module.last = LastLine(script)
      /\ module.kind = "module"
  BY <1>1, ModuleIsSymbol DEF ModuleSymbol, MakeSymbol, UnitTypes
<1>5. \A i \in imps : i.path = at
  OBVIOUS
<1>6. \A i, j \in imps : ImportId(i) = ImportId(j) => i = j
  BY DEF ImportId
<1>7. \A s, t \in symbols : s.first = t.first => s = t
  BY DEF FirstsDiffer
<1>. HIDE DEF module, Made, imps, errs
<1>8. ASSUME NEW s \in symbols, s.first = 1, s.last = LastLine(script),
             NEW x, x.first = 1, x.last = LastLine(script), Oversized(script, x)
      PROVE Twins(at)
  <2>1. LastLine(script) = script.n /\ script.n > 0
    BY <1>1, <1>3, <1>8 DEF LastLine
  <2>2. OneBlock(script)
    BY <1>3, <1>8, <2>1 DEF OneBlock, Oversized
  <2> QED BY <1>1, <2>2 DEF Twins
<1>9. ASSUME NEW s \in syms, NEW t \in syms, s.first = t.first, s.last = t.last,
             s.kind = t.kind \/ Oversized(script, s)
      PROVE s = t \/ Twins(at)
  <2>1. CASE s = module /\ t = module
    BY <2>1
  <2>2. CASE s = module /\ \E x \in symbols : t = Made(x)
    BY <1>3, <1>4, <1>8, <1>9, <2>2 DEF DeclKinds
  <2>3. CASE t = module /\ \E x \in symbols : s = Made(x)
    BY <1>3, <1>4, <1>8, <1>9, <2>3 DEF DeclKinds
  <2>4. CASE (\E x \in symbols : s = Made(x)) /\ (\E x \in symbols : t = Made(x))
    BY <1>3, <1>7, <1>9, <2>4
  <2> QED BY <2>1, <2>2, <2>3, <2>4
<1>10. \A s \in syms : IsSymbol(s, at) /\ OnLines(s, script)
  BY <1>3, <1>4
<1>. HIDE DEF syms
<1>11. /\ Apart(FromSymbols(at, script, syms, imps, errs))
       /\ Within(FromSymbols(at, script, syms, imps, errs), at, at + 1)
  BY <1>1, <1>5, <1>6, <1>9, <1>10, SymbolsStayApart
<1> QED BY <1>2, <1>11, FallbackApart

ApartInv == DocInv /\ FirstsDiffer /\ FoundApart

LEMMA TwinsStay ==
  ASSUME tree' = tree, limits' = limits, stage' = stage
  PROVE /\ \A p : Twins(p)' <=> Twins(p)
        /\ \A f : Apart(f)' <=> Apart(f)
<1>1. \A f, s : Oversized(f, s)' <=> Oversized(f, s)
  BY DEF Oversized, Size
<1>5. \A i : ImportId(i)' = ImportId(i)
  BY IdsStay
<1>2. \A p, f : SameLines(p, f)' <=> SameLines(p, f)
  BY <1>1, <1>5 DEF SameLines
<1>3. \A f : OneBlock(f)' <=> OneBlock(f)
  BY DEF OneBlock, Size
<1>4. \A p : Twins(p)' <=> Twins(p)
  BY <1>2, <1>3 DEF Twins
<1>6. Namesakes' <=> Namesakes
  BY DEF Namesakes, Paths
<1> QED BY <1>4, <1>6, IdsStay DEF Apart, UnitsApart, SymbolsApart, ImportsApart, Excused

\* The loop goes on behind a file that has given new.
LEMMA TakeFileApart ==
  ASSUME ApartInv, NEW new, TakeFile(new), limits' = limits, task = "files", at <= Len(tree),
         Apart(new), Within(new, at, at + 1)
  PROVE FoundApart'
<1>1. /\ found' = Merge(found, new) /\ at' = at + 1 /\ tree' = tree /\ run' = run /\ stage' = stage
  BY DEF TakeFile
<1>2. run # NoRun /\ at \in Paths /\ Len(tree) \in Nat
  BY TreeFacts DEF ApartInv, DocInv, Placed, Paths
<1>3. Apart(Merge(found, new)) /\ Within(Merge(found, new), 1, at + 1)
  BY <1>2, MergedApart DEF ApartInv, FoundApart
<1>4. Apart(found') /\ Within(found', 1, at')
  BY <1>1, <1>3
<1>5. Apart(found)' /\ Within(found, 1, at)'
  BY <1>1, <1>4, TwinsStay, IdsStay DEF Within, Apart, UnitsApart, SymbolsApart, ImportsApart
<1> QED BY <1>1, <1>5 DEF FoundApart

LEMMA ApartStep == ApartInv /\ [DocNext]_vars => ApartInv'
<1>. SUFFICES ASSUME ApartInv, [DocNext]_vars PROVE ApartInv'
  OBVIOUS
<1>1. DocInv' /\ FirstsDiffer' /\ limits' = limits
  BY DocInvStep, ScanInside, FirstsDifferStep, TextInside, SettingsStay DEF ApartInv, DocInv
<1>2. SUFFICES FoundApart'
  BY <1>1 DEF ApartInv
<1>3. at \in Nat
  BY TreeFacts DEF ApartInv, DocInv, Placed
<1>4. ASSUME found' = Nothing PROVE FoundApart'
  BY <1>4 DEF FoundApart, Apart, UnitsApart, SymbolsApart, ImportsApart, Within, Nothing
<1>5. ASSUME UNCHANGED <<tree, run, stage, at, found>> PROVE FoundApart'
  <2>1. \A f : Apart(f)' <=> Apart(f)
    BY <1>1, <1>5, TwinsStay
  <2>2. Apart(found)' <=> Apart(found)
    BY <1>5, <2>1, IdsStay DEF Apart, UnitsApart, SymbolsApart, ImportsApart
  <2> QED BY <1>5, <2>2 DEF ApartInv, FoundApart, Within
<1>6. CASE (\E r \in Runs : Begin(r)) \/ RaiseConflict \/ Pass \/ Interrupt
  BY <1>4, <1>6 DEF Begin, RaiseConflict, Pass, Interrupt
<1>7. CASE ReadText \/ CutText \/ ReadScript \/ ScanScript \/ UNCHANGED vars
  BY <1>5, <1>7 DEF ReadText, CutText, ReadScript, ScanScript, vars, docVars, work
<1>8. CASE EndFiles \/ WriteReport \/ StoreFiles \/ StoreUnits
  BY <1>5, <1>8 DEF EndFiles, WriteReport, StoreFiles, StoreUnits, loopVars
<1>9. CASE FailToRead \/ SkipBinary \/ SkipUndecoded
  <2>1. task = "files" /\ at <= Len(tree) /\ (TakeFile(Row(at)) \/ TakeFile(Error(at)))
    BY <1>9 DEF FailToRead, SkipBinary, SkipUndecoded, AtFile
  <2>2. /\ Apart(Row(at)) /\ Within(Row(at), at, at + 1)
        /\ Apart(Error(at)) /\ Within(Error(at), at, at + 1)
    BY <1>3, RowApart, ErrorApart
  <2> QED BY <1>1, <2>1, <2>2, TakeFileApart
<1>10. CASE Analyze
  <2>1. /\ task = "files" /\ at <= Len(tree) /\ stage = "syntax" /\ TakeFile(Analysis(at, tree[at]))
    BY <1>10 DEF Analyze, AtFile, File
  <2>2. tree[at] \in Files
    BY <2>1, TreeFacts DEF ApartInv, DocInv, Placed
  <2> QED BY <1>1, <1>3, <2>1, <2>2, AnalysisApart, TakeFileApart
<1>11. CASE TakeText
  <2>1. task = "files" /\ at <= Len(tree) /\ mode \in {"cut", "raised"}
    BY <1>11 DEF TakeText, ApartInv, DocInv, Placed
  <2>. DEFINE Made(u) == [path |-> at, type |-> UnitType(text), first |-> u.first,
                          last |-> u.last, symbol |-> {}]
              us == {Made(u) : u \in units}
              new == [Row(at) EXCEPT !.units = us]
              raised == [Row(at) EXCEPT !.errors = {at}]
  <2>2. /\ new.units = us /\ new.symbols = {} /\ new.imports = {}
        /\ raised.units = {} /\ raised.symbols = {} /\ raised.imports = {}
    BY DEF Row, Nothing
  <2>3. \A u \in us : u.path = at /\ u.symbol = {}
    OBVIOUS
  <2>4. ASSUME NEW u \in us, NEW v \in us, UnitId(u) = UnitId(v) PROVE u = v
    <3>1. PICK x \in units, y \in units : u = Made(x) /\ v = Made(y)
      OBVIOUS
    <3> QED BY <2>4, <3>1 DEF UnitId
  <2>5. TakeFile(raised) \/ TakeFile(new)
    BY <1>11 DEF TakeText
  <2>. HIDE DEF us, new, raised
  <2>6. Apart(new) /\ Within(new, at, at + 1)
    BY <1>3, <2>2, <2>3, <2>4 DEF Apart, UnitsApart, SymbolsApart, ImportsApart, Within
  <2>7. /\ Apart(raised) /\ Within(raised, at, at + 1)
    BY <1>3, <2>2 DEF Apart, UnitsApart, SymbolsApart, ImportsApart, Within
  <2> QED BY <1>1, <2>1, <2>2, <2>3, <2>5, <2>6, <2>7, TakeFileApart
<1>12. CASE TakeScript
  <2>1. /\ task = "files" /\ at <= Len(tree) /\ stage = "syntax" /\ scan = "scanned"
        /\ TakeFile(ScriptAnalysis(at, script))
    BY <1>12 DEF TakeScript, ApartInv, DocInv, Placed
  <2> QED BY <1>1, <1>3, <2>1, ScriptApart, TakeFileApart DEF ApartInv
<1> QED BY <1>6, <1>7, <1>8, <1>9, <1>10, <1>11, <1>12
        DEF DocNext, Work, Normalize, Syntax, Store, Rest

LEMMA ApartIsStorable ==
  ASSUME ApartInv, task = "units", ~ Storable(found)
  PROVE Namesakes \/ (stage = "syntax" /\ \E p \in Paths : Twins(p))
<1>1. run # NoRun
  BY DEF ApartInv, DocInv, Placed
<1>2. Apart(found)
  BY <1>1 DEF ApartInv, FoundApart
<1>3. /\ \A u \in found.units : u.path \in Paths
      /\ \A s \in found.symbols : s.path \in Paths
      /\ \A i \in found.imports : i.path \in Paths
  BY DEF ApartInv, DocInv, IsResult, IsUnit
<1>4. \/ \E u, v \in found.units : UnitId(u) = UnitId(v) /\ u # v
      \/ \E s, t \in found.symbols : SymbolId(s) = SymbolId(t) /\ s # t
      \/ \E i, j \in found.imports : ImportId(i) = ImportId(j) /\ i # j
  BY DEF Storable, Distinct
<1>5. CASE \E u, v \in found.units : UnitId(u) = UnitId(v) /\ u # v
  BY <1>2, <1>3, <1>5 DEF Apart, UnitsApart, Excused
<1>6. CASE \E s, t \in found.symbols : SymbolId(s) = SymbolId(t) /\ s # t
  BY <1>2, <1>3, <1>6 DEF Apart, SymbolsApart, Excused
<1>7. CASE \E i, j \in found.imports : ImportId(i) = ImportId(j) /\ i # j
  BY <1>2, <1>3, <1>7 DEF Apart, ImportsApart, Excused
<1> QED BY <1>4, <1>5, <1>6, <1>7

\* A transaction meets a row twice only in a commit with two files of one name, a
\* backslash in the one path where the other has a slash; else that of normalize
\* never does, and that of syntax only in a commit that has a file with twins
\* (replace_units, normalize_path, unit_identity, symbol_identity, import_id).
THEOREM OnlyTwinsConflict ==
  DocSpec => [](task = "units" /\ ~ Storable(found) =>
                  Namesakes \/ (stage = "syntax" /\ \E p \in Paths : Twins(p)))
<1>1. DocInit => ApartInv
  <2>1. DocInit => DocInv
    BY DocInitInv
  <2>2. DocInit => FirstsDiffer /\ FoundApart
    BY DEF DocInit, ScanInit, FirstsDiffer, FoundApart
  <2> QED BY <2>1, <2>2 DEF ApartInv
<1>2. ApartInv => (task = "units" /\ ~ Storable(found) =>
                     Namesakes \/ (stage = "syntax" /\ \E p \in Paths : Twins(p)))
  BY ApartIsStorable
<1> QED BY <1>1, <1>2, ApartStep, PTL DEF DocSpec

(***************************************************************************)
(* A stage ends.  Its steps are ordered by the files that are left, then   *)
(* by what is to be done behind the loop, then by the turns that are left  *)
(* of the loop inside of a file.                                           *)
(***************************************************************************)

FilesLeft == Len(tree) + 1 - at

TasksLeft ==
  IF task = "files" THEN 4
  ELSE IF task = "done" THEN 0
  ELSE IF task = "units" THEN 2
  ELSE IF task = "report" /\ stage = "normalize" THEN 1
  ELSE 3

TurnsLeft ==
  IF task # "files" \/ at > Len(tree) THEN 0
  ELSE IF mode # "idle" THEN CutLeft
  ELSE IF scan # "idle" THEN ScanLeft
  ELSE 3 * tree[at].n + 3

Nearer ==
  \/ FilesLeft' < FilesLeft
  \/ FilesLeft' = FilesLeft /\ TasksLeft' < TasksLeft
  \/ FilesLeft' = FilesLeft /\ TasksLeft' = TasksLeft /\ TurnsLeft' < TurnsLeft

Measured == FilesLeft \in Nat /\ TasksLeft \in 0..4 /\ TurnsLeft \in Nat

LEMMA StageMeasured == DocInv => Measured
<1>. SUFFICES ASSUME DocInv PROVE Measured
  OBVIOUS
<1>1. Len(tree) \in Nat /\ at \in 1..(Len(tree) + 1)
  BY TreeFacts DEF DocInv, Placed
<1>2. TasksLeft \in 0..4
  BY DEF TasksLeft
<1>3. TurnsLeft \in Nat
  <2>1. CutLeft \in Nat /\ ScanLeft \in Nat
    BY CutLeftIsNumber, ScanLeftIsNumber DEF DocInv
  <2>2. at <= Len(tree) => tree[at].n \in Nat
    BY <1>1, TreeFacts, FileFacts DEF DocInv, Placed
  <2>3. at <= Len(tree) => 3 * tree[at].n + 3 \in Nat
    BY <2>2
  <2> QED BY <1>1, <2>1, <2>3 DEF TurnsLeft
<1> QED BY <1>1, <1>2, <1>3 DEF Measured, FilesLeft

LEMMA WorkIsNearer ==
  ASSUME DocInv, Work, run' # NoRun
  PROVE Nearer
<1>1. Len(tree) \in Nat /\ at \in 1..(Len(tree) + 1) /\ stage \in StageNames
  BY TreeFacts DEF DocInv, Placed
<1>2. ASSUME NEW new, TakeFile(new) PROVE Nearer
  BY <1>1, <1>2 DEF TakeFile, Nearer, FilesLeft
<1>3. CASE FailToRead \/ SkipBinary \/ TakeText \/ SkipUndecoded \/ Analyze \/ TakeScript
  BY <1>2, <1>3 DEF FailToRead, SkipBinary, TakeText, SkipUndecoded, Analyze, TakeScript
<1>4. ASSUME UNCHANGED <<tree, at, stage, task>>, TurnsLeft' < TurnsLeft PROVE Nearer
  BY <1>4 DEF Nearer, FilesLeft, TasksLeft
<1>5. ASSUME task = "files", at <= Len(tree) PROVE tree[at] \in Files /\ tree[at].n \in Nat
  BY <1>1, <1>5, TreeFacts, FileFacts DEF DocInv, Placed
<1>6. CASE ReadText
  <2>1. /\ task = "files" /\ at <= Len(tree) /\ mode = "idle" /\ scan = "idle"
        /\ UNCHANGED <<tree, at, stage, task>> /\ OpenText(tree[at])
    BY <1>6 DEF ReadText, AtFile, File, docVars, work
  <2>2. CutLeft' <= 3 * tree[at].n + 2 /\ mode' # "idle" /\ CutLeft' \in Int
    <3>1. CutLeft' <= 3 * tree[at].n + 2
      BY <1>5, <2>1, CutStart DEF DocInv
    <3>2. TextInv' /\ mode' # "idle"
      BY <1>5, <2>1, OpenTextStep DEF DocInv, OpenText
    <3>3. text' \in Files /\ text'.n \in Nat /\ line' \in Nat
      BY <3>2, FileFacts DEF TextInv, TextTypeOK
    <3> QED BY <3>1, <3>2, <3>3, OneAtMost DEF CutLeft, SectionTurns, WindowTurns
  <2>3. TurnsLeft = 3 * tree[at].n + 3 /\ TurnsLeft' = CutLeft'
    BY <1>1, <2>1, <2>2 DEF TurnsLeft
  <2> QED BY <1>4, <1>5, <2>1, <2>2, <2>3
<1>7. CASE CutText
  <2>1. /\ UNCHANGED <<tree, at, stage, task>> /\ Cut /\ mode # "idle" /\ mode' # "idle"
        /\ task = "files" /\ at <= Len(tree)
    BY <1>7, CutKeeps DEF CutText, docVars, work, DocInv, Placed
  <2>2. CutLeft' < CutLeft
    BY <2>1, CutTurns DEF DocInv
  <2>3. TurnsLeft = CutLeft /\ TurnsLeft' = CutLeft'
    BY <1>1, <2>1 DEF TurnsLeft
  <2> QED BY <1>4, <2>1, <2>2, <2>3
<1>8. CASE ReadScript
  <2>1. /\ task = "files" /\ at <= Len(tree) /\ mode = "idle" /\ scan = "idle" /\ mode' = mode
        /\ UNCHANGED <<tree, at, stage, task>> /\ OpenScript(tree[at])
    BY <1>8 DEF ReadScript, AtFile, File, docVars, work, textVars, cutVars
  <2>2. ScanLeft' = tree[at].n + 1 /\ scan' = "lines"
    BY <1>5, <2>1 DEF OpenScript, ScanLeft
  <2>3. TurnsLeft = 3 * tree[at].n + 3 /\ TurnsLeft' = ScanLeft'
    BY <1>1, <2>1, <2>2 DEF TurnsLeft
  <2> QED BY <1>4, <1>5, <2>1, <2>2, <2>3
<1>9. CASE ScanScript
  <2>1. /\ UNCHANGED <<tree, at, stage, task>> /\ Scan /\ scan # "idle" /\ scan' # "idle"
        /\ task = "files" /\ at <= Len(tree) /\ mode = "idle" /\ mode' = "idle"
    BY <1>9, ScanKeeps DEF ScanScript, docVars, work, textVars, cutVars, DocInv, Placed
  <2>2. ScanLeft' < ScanLeft
    BY <2>1, ScanTurns DEF DocInv
  <2>3. TurnsLeft = ScanLeft /\ TurnsLeft' = ScanLeft'
    BY <1>1, <2>1 DEF TurnsLeft
  <2> QED BY <1>4, <2>1, <2>2, <2>3
<1>10. CASE EndFiles \/ WriteReport \/ StoreFiles \/ StoreUnits
  <2>1. UNCHANGED <<tree, at, stage>>
    BY <1>10 DEF EndFiles, WriteReport, StoreFiles, StoreUnits, loopVars
  <2>2. TasksLeft' < TasksLeft
    BY <1>1, <1>10, <2>1 DEF EndFiles, WriteReport, StoreFiles, StoreUnits, AfterFiles, AfterReport,
       AfterUnits, TasksLeft, StageNames
  <2> QED BY <2>1, <2>2 DEF Nearer, FilesLeft
<1>11. CASE RaiseConflict \/ Pass
  BY <1>11 DEF RaiseConflict, Pass
<1> QED BY <1>3, <1>6, <1>7, <1>8, <1>9, <1>10, <1>11 DEF Work, Normalize, Syntax, Store

\* Every step of a stage ends it or brings it nearer to its end, for every commit
\* and all settings; beside this StagesEnd needs that some step is always possible,
\* and fairness (normalize.run, syntax.run).
THEOREM StagesAdvance ==
  DocSpec => [][Work => run' = NoRun \/ (Measured /\ Measured' /\ Nearer)]_vars
<1>1. DocSpec => []Measured
  BY DocInvariant, StageMeasured, PTL
<1>2. DocInv /\ Measured /\ Measured' => (Work => run' = NoRun \/ (Measured /\ Measured' /\ Nearer))
  BY WorkIsNearer
<1> QED BY <1>1, <1>2, DocInvariant, PTL

=============================================================================
