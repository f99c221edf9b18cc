----------------------------- MODULE Documents ------------------------------
(***************************************************************************)
(* The normalize and syntax stages over the files of one commit, and the   *)
(* tables they fill (pipeline/stages/normalize.py, stages/syntax.py,       *)
(* analyzers/tree_sitter.py and replace_files, replace_units in db.py).    *)
(*                                                                         *)
(* Both stages go through the files in the same order.  normalize cuts     *)
(* each text by TextUnits; syntax scans each script by ScriptSymbols,      *)
(* walks the statements of a Python file, and takes every other text as    *)
(* one unit.  What they found is stored in one transaction at the end; the *)
(* units of syntax replace those of normalize.  Two runs of the commit     *)
(* produce the same unit ids, in the same tables.  A stage may be          *)
(* interrupted at every step and is then done again from its start.        *)
(***************************************************************************)
EXTENDS TextUnits, ScriptSymbols

CONSTANTS
  Runs,     \* the runs of the commit
  NoRun,    \* the worker holds no run
  Trees,    \* the snapshots that may occur: sequences of files
  Unsafe    \* the files whose reading may fail

ASSUME RunsAssumption == NoRun \notin Runs
ASSUME TreesAssumption == Trees \subseteq Seq(Files)

VARIABLES
  tree,       \* the files of the commit; a path is a position in it
  run,        \* the run that the worker holds
  stage,      \* the stage it is in
  task,       \* how far: files, report, rows, units, done; idle without a run
  at,         \* the position of the next file
  found,      \* the rows, units, symbols, imports and errors of the files so far
  passed,     \* stage_results: the stages of a run that have passed
  fileRows,   \* the table files, by run: paths
  unitRows,   \* the table units, by run
  fts,        \* the table units_fts: pairs of a run and a unit id
  symbolRows, \* the table symbols, by run
  importRows, \* the table imports, by run
  reported,   \* the errors in the reports of the commit, by stage
  reporter    \* the run_id in the one of normalize: the run that wrote it last

tables == <<fileRows, unitRows, fts, symbolRows, importRows>>
work == <<run, stage, task, at, found>>
reports == <<reported, reporter>>
docVars == <<tree, work, passed, tables, reports>>
vars == <<docVars, textVars, scanVars>>

StageNames == {"normalize", "syntax"}
Paths == 1..Len(tree)

Nothing == [files |-> {}, units |-> {}, symbols |-> {}, imports |-> {}, errors |-> {}]

Merge(a, b) ==
  [files |-> a.files \cup b.files, units |-> a.units \cup b.units,
   symbols |-> a.symbols \cup b.symbols, imports |-> a.imports \cup b.imports,
   errors |-> a.errors \cup b.errors]

Error(p) == [Nothing EXCEPT !.errors = {p}]

-----------------------------------------------------------------------------
(* Identities: what the hashes are taken of, but for what all files of the *)
(* commit share.  The path is hashed as normalize_path writes it, the text *)
(* of a unit is that of its lines.                                         *)

\* The last line of a span that is in the file: an empty file has no line 1.
LastIn(f, l) == IF l <= f.n THEN l ELSE f.n

Said(f, a, b) == SubSeq(f.says, a, LastIn(f, b))

\* unit_identity
UnitId(u) ==
  LET f == tree[u.path] IN
  [name |-> f.name, type |-> u.type, first |-> u.first, last |-> u.last,
   text |-> Said(f, u.first, u.last)]

\* Where lines start and end in the file.
Span(f, a, b) == [from |-> f.ends[a - 1], to |-> f.ends[LastIn(f, b)], text |-> Said(f, a, b)]

\* symbol_identity
SymbolId(s) ==
  LET f == tree[s.path] IN
  [name |-> f.name, language |-> f.language, kind |-> s.kind,
   qualified |-> <<s.owners, s.name>>, span |-> Span(f, s.first, s.last)]

\* import_id
ImportId(i) ==
  LET f == tree[i.path] IN
  [name |-> f.name, language |-> f.language, imported |-> i.name,
   span |-> Span(f, i.first, i.last)]

Distinct(id) == \A a, b \in DOMAIN id : id[a] = id[b] => a = b

\* Whether the INSERTs of replace_units meet no row with the same key.
Storable(f) ==
  /\ Distinct([u \in f.units |-> UnitId(u)])
  /\ Distinct([s \in f.symbols |-> SymbolId(s)])
  /\ Distinct([i \in f.imports |-> ImportId(i)])

-----------------------------------------------------------------------------
(* The analyzers.                                                          *)

LastLine(f) == IF f.n = 0 THEN 1 ELSE f.n

\* _make_symbol, with the place of the name in its statement.
MakeSymbol(p, kind, owners, name, place, first_, last_) ==
  [path |-> p, kind |-> kind, owners |-> owners, name |-> name, place |-> place,
   first |-> first_, last |-> last_]

ModuleSymbol(p, f, kind) == MakeSymbol(p, kind, {}, 0, 0, 1, LastLine(f))

\* A symbol that is too long for a unit of its kind becomes a code_chunk.
Oversized(f, s) == f.n > 0 /\ Size(f, s.first, s.last) - 1 > limits.maxSymbol

\* _unit_from_symbol
UnitFromSymbol(f, s) ==
  [path |-> s.path, type |-> IF Oversized(f, s) THEN "code_chunk" ELSE s.kind,
   first |-> s.first, last |-> s.last, symbol |-> {s}]

\* syntax.run: each symbol becomes a unit; oversized ones are recorded.
FromSymbols(p, f, syms, imps, errs) ==
  [Nothing EXCEPT
     !.units = {UnitFromSymbol(f, s) : s \in syms}, !.symbols = syms, !.imports = imps,
     !.errors = errs \cup (IF \E s \in syms : Oversized(f, s) THEN {p} ELSE {})]

\* Mutant: a file without symbols is recorded, and left out.
ErrorOnly(p, f) == Error(p)

\* _fallback_unit, _fallback_analysis: the file is one unit, and an error.
Fallback(p, f) ==
  [Error(p) EXCEPT !.units =
    {[path |-> p, type |-> "code_chunk", first |-> 1, last |-> LastLine(f), symbol |-> {}]}]

\* walk: the statements of the module and, through classes only, of classes.
Walked(f) == {i \in DOMAIN f.nodes : \A j \in f.nodes[i].up : f.nodes[j].kind = "class"}

PythonSymbols(p, f) ==
  {ModuleSymbol(p, f, "module")} \cup
  UNION {{MakeSymbol(p, f.nodes[i].kind, f.nodes[i].up, f.nodes[i].names[k], k,
                     f.nodes[i].first, f.nodes[i].last) : k \in DOMAIN f.nodes[i].names} :
         i \in {j \in Walked(f) : f.nodes[j].kind \in {"class", "function", "constant"}}}

\* Imports are looked for on the top level only.
PythonImports(p, f) ==
  UNION {{[path |-> p, name |-> f.nodes[i].names[k], place |-> k,
           first |-> f.nodes[i].first, last |-> f.nodes[i].last] :
          k \in DOMAIN f.nodes[i].names} :
         i \in {j \in DOMAIN f.nodes : f.nodes[j].kind = "import" /\ f.nodes[j].up = {}}}

\* analyze_file, for all but scripts.
Analysis(p, f) ==
  IF f.language = "config" /\ f.parses
    THEN FromSymbols(p, f, {ModuleSymbol(p, f, "configuration-object")}, {}, {})
  ELSE IF f.language = "python" /\ f.parses
    THEN FromSymbols(p, f, PythonSymbols(p, f), PythonImports(p, f), {})
  ELSE Fallback(p, f)

\* _collect_javascript_like: the end, with what the scan has found.  A name
\* stands for the line it is on.
ScriptAnalysis(p, f) ==
  IF symbols = {} THEN Fallback(p, f)
  ELSE FromSymbols(p, f,
         {ModuleSymbol(p, f, "module")} \cup
           {MakeSymbol(p, s.kind, s.owners, s.first, 1, s.first, s.last) : s \in symbols},
         {[path |-> p, name |-> l, place |-> 1, first |-> l, last |-> l] : l \in imported},
         IF mismatch THEN {p} ELSE {})

-----------------------------------------------------------------------------

DocInit ==
  /\ TextInit /\ ScanInit
  /\ tree \in Trees
  /\ run = NoRun /\ stage = "normalize" /\ task = "idle" /\ at = 1 /\ found = Nothing
  /\ passed = [r \in Runs |-> {}]
  /\ fileRows = [r \in Runs |-> {}] /\ unitRows = [r \in Runs |-> {}] /\ fts = {}
  /\ symbolRows = [r \in Runs |-> {}] /\ importRows = [r \in Runs |-> {}]
  /\ reported = [s \in StageNames |-> {}] /\ reporter = NoRun

\* The worker enters the first of the two stages that a run has not passed: at
\* first, between two stages, or once the run has been put back on the queue.
\* (Between two stages of a run the worker takes no other one, unless a stage
\* that is not modelled here fails; so there are more behaviours here.)
Begin(r) ==
  /\ run = NoRun
  /\ passed[r] # StageNames
  /\ run' = r /\ task' = "files" /\ at' = 1 /\ found' = Nothing
  /\ stage' = IF "normalize" \in passed[r] THEN "syntax" ELSE "normalize"
  /\ UNCHANGED <<tree, passed, tables, reports, textVars, scanVars>>

File == tree[at]

AtFile(s) == task = "files" /\ stage = s /\ at <= Len(tree) /\ mode = "idle" /\ scan = "idle"

\* The loop goes on to the next file, with what this one has given.
TakeFile(new) ==
  /\ found' = Merge(found, new)
  /\ at' = at + 1
  /\ UNCHANGED <<tree, run, stage, task, passed, tables, reports>>

Row(p) == [Nothing EXCEPT !.files = {p}]

\* normalize.run: decode_file or _file_record raises.  The file gets no row, only
\* an error; at another time it may well be read.
FailToRead ==
  /\ AtFile("normalize")
  /\ File \in Unsafe
  /\ TakeFile(Error(at))
  /\ UNCHANGED <<textVars, scanVars>>

\* A binary file has its row, and no units.
SkipBinary ==
  /\ AtFile("normalize")
  /\ ~ NormalizeReads(File)
  /\ TakeFile(Row(at))
  /\ UNCHANGED <<textVars, scanVars>>

ReadText ==
  /\ AtFile("normalize")
  /\ NormalizeReads(File)
  /\ OpenText(File)
  /\ UNCHANGED <<docVars, scanVars>>

CutText ==
  /\ Cut
  /\ UNCHANGED <<docVars, scanVars>>

\* Mutant: the language of the file for the type of its units.
UnitLanguage(f) == f.language

UnitType(f) == IF f.language = "markdown" THEN "markdown_section" ELSE "text_chunk"

\* The units of a file are taken over as a whole, or an error in their place.
\* The file has its row by then.
TakeText ==
  /\ mode \in {"cut", "raised"}
  /\ TakeFile(IF mode = "raised" THEN [Row(at) EXCEPT !.errors = {at}]
              ELSE [Row(at) EXCEPT !.units =
                     {[path |-> at, type |-> UnitType(text), first |-> u.first,
                       last |-> u.last, symbol |-> {}] : u \in units}])
  /\ DropText
  /\ UNCHANGED scanVars

\* syntax.run: what cannot be decoded is an error.
SkipUndecoded ==
  /\ AtFile("syntax")
  /\ ~ SyntaxReads(File)
  /\ TakeFile(Error(at))
  /\ UNCHANGED <<textVars, scanVars>>

Analyze ==
  /\ AtFile("syntax")
  /\ SyntaxReads(File) /\ File.language # "script"
  /\ TakeFile(Analysis(at, File))
  /\ UNCHANGED <<textVars, scanVars>>

ReadScript ==
  /\ AtFile("syntax")
  /\ SyntaxReads(File) /\ File.language = "script"
  /\ OpenScript(File)
  /\ UNCHANGED <<docVars, textVars>>

ScanScript ==
  /\ Scan
  /\ UNCHANGED <<docVars, textVars>>

TakeScript ==
  /\ scan = "scanned"
  /\ TakeFile(ScriptAnalysis(at, script))
  /\ DropScript
  /\ UNCHANGED textVars

-----------------------------------------------------------------------------
(* The ends of the stages.                                                 *)

loopVars == <<tree, run, stage, at, found, passed, textVars, scanVars>>

\* normalize writes its report last, syntax before it stores anything.
AfterFiles(s) == IF s = "normalize" THEN "rows" ELSE "report"
AfterUnits(s) == IF s = "normalize" THEN "report" ELSE "done"
AfterReport(s) == IF s = "normalize" THEN "done" ELSE "units"

EndFiles ==
  /\ task = "files" /\ at > Len(tree)
  /\ task' = AfterFiles(stage)
  /\ UNCHANGED <<loopVars, tables, reports>>

WriteReport ==
  /\ task = "report"
  /\ reported' = [reported EXCEPT ![stage] = found.errors]
  /\ reporter' = IF stage = "normalize" THEN run ELSE reporter
  /\ task' = AfterReport(stage)
  /\ UNCHANGED <<loopVars, tables>>

\* replace_files
StoreFiles ==
  /\ task = "rows"
  /\ fileRows' = [fileRows EXCEPT ![run] = found.files]
  /\ task' = "units"
  /\ UNCHANGED <<loopVars, unitRows, fts, symbolRows, importRows, reports>>

OldIds(r) == {UnitId(u) : u \in unitRows[r]}

\* Mutant: full-text rows are deleted by unit id, whosever they are.
FtsOfOthersGone(r) == {row_ \in fts : row_[2] \notin OldIds(r)}

\* The rows of units_fts that are not deleted.
FtsKept(r) == {row_ \in fts : ~ (row_[1] = r /\ row_[2] \in OldIds(r))}

\* Mutant: the symbols follow in a transaction of their own.
StoreUnitsFirst ==
  /\ task = "units"
  /\ Storable(found)
  /\ unitRows' = [unitRows EXCEPT ![run] = found.units]
  /\ fts' = FtsKept(run) \cup {<<run, UnitId(u)>> : u \in found.units}
  /\ IF unitRows[run] = found.units
       THEN /\ symbolRows' = [symbolRows EXCEPT ![run] = found.symbols]
            /\ task' = AfterUnits(stage)
       ELSE UNCHANGED <<symbolRows, task>>
  /\ UNCHANGED <<loopVars, fileRows, importRows, reports>>

\* replace_units: one transaction.  Symbols are replaced when there are any,
\* imports when the caller has a list of them.
StoreUnits ==
  /\ task = "units"
  /\ Storable(found)
  /\ unitRows' = [unitRows EXCEPT ![run] = found.units]
  /\ fts' = FtsKept(run) \cup {<<run, UnitId(u)>> : u \in found.units}
  /\ symbolRows' = IF found.symbols = {} THEN symbolRows
                   ELSE [symbolRows EXCEPT ![run] = found.symbols]
  /\ importRows' = IF stage = "normalize" THEN importRows
                   ELSE [importRows EXCEPT ![run] = found.imports]
  /\ task' = AfterUnits(stage)
  /\ UNCHANGED <<loopVars, fileRows, reports>>

\* Two rows with one key: the transaction is rolled back and the stage raises.
RaiseConflict ==
  /\ task = "units"
  /\ ~ Storable(found)
  /\ run' = NoRun /\ task' = "idle" /\ at' = 1 /\ found' = Nothing
  /\ UNCHANGED <<tree, stage, passed, tables, reports, textVars, scanVars>>

\* record_stage_report and the runner's set_stage.
Pass ==
  /\ task = "done"
  /\ passed' = [passed EXCEPT ![run] = @ \cup {stage}]
  /\ run' = NoRun /\ task' = "idle" /\ at' = 1 /\ found' = Nothing
  /\ UNCHANGED <<tree, stage, tables, reports, textVars, scanVars>>

\* The process is killed, or the stage raises: what is in memory is lost.
Interrupt ==
  /\ run # NoRun
  /\ run' = NoRun /\ task' = "idle" /\ at' = 1 /\ found' = Nothing
  /\ DropText /\ DropScript
  /\ UNCHANGED <<tree, stage, passed, tables, reports>>

Normalize == FailToRead \/ SkipBinary \/ ReadText \/ CutText \/ TakeText
Syntax == SkipUndecoded \/ Analyze \/ ReadScript \/ ScanScript \/ TakeScript
Store == EndFiles \/ WriteReport \/ StoreFiles \/ StoreUnits \/ RaiseConflict \/ Pass

Work == Normalize \/ Syntax \/ Store

\* Every run has passed: worker_loop polls an empty queue.
Rest == (\A r \in Runs : passed[r] = StageNames) /\ UNCHANGED vars

DocNext == (\E r \in Runs : Begin(r)) \/ Work \/ Interrupt \/ Rest

DocSpec == DocInit /\ [][DocNext]_vars

\* A stage that has been entered is carried on.
FairDocSpec == DocSpec /\ WF_vars(Work)

-----------------------------------------------------------------------------
(* Properties.                                                             *)

IsUnit(u) ==
  /\ u.path \in Paths /\ u.first \in Nat /\ u.last \in Nat
  /\ u.type \in DeclKinds \cup {"markdown_section", "text_chunk", "code_chunk", "module",
                               "configuration-object", "constant"}

IsResult(f) ==
  /\ f.files \subseteq Paths
  /\ \A u \in f.units : IsUnit(u)
  /\ \A s \in f.symbols : s.path \in Paths
  /\ \A i \in f.imports : i.path \in Paths
  /\ f.errors \subseteq Paths

\* Every variable of the two stages keeps its type.
DocTypeOK ==
  /\ tree \in Trees /\ limits \in Settings
  /\ run \in Runs \cup {NoRun} /\ stage \in StageNames
  /\ task \in {"idle", "files", "report", "rows", "units", "done"}
  /\ at \in 1..(Len(tree) + 1) /\ IsResult(found)
  /\ passed \in [Runs -> SUBSET StageNames]
  /\ fileRows \in [Runs -> SUBSET Paths]
  /\ \A r \in Runs : IsResult([Nothing EXCEPT !.units = unitRows[r],
                              !.symbols = symbolRows[r], !.imports = importRows[r]])
  /\ reported \in [StageNames -> SUBSET Paths]
  /\ reporter \in Runs \cup {NoRun}

\* Full-text search sees the units of each run, all of them and no others,
\* although the runs of a commit share their unit ids, units_fts has no key,
\* and the units of one stage replace those of another (replace_units); the
\* retrieval stage counts on it.
FtsMatchesUnits == fts = UNION {{<<r, UnitId(u)>> : u \in unitRows[r]} : r \in Runs}

\* Whatever is interrupted, the symbols of a run are those that its units were
\* made from, and every unit that names a symbol finds it (replace_units).
SymbolsMatchUnits == \A r \in Runs : symbolRows[r] = UNION {u.symbol : u \in unitRows[r]}

\* The lines of a text that normalize promises to keep.
Searchable(f) ==
  {i \in 1..f.n : ~ f.blank[i] /\ (f.language = "markdown" => i >= FirstSection(f))}

Covered(r, p, lines) ==
  \A i \in lines : \E u \in unitRows[r] : u.path = p /\ i \in u.first..u.last

\* No line of a text is lost on its way into the tables, although every file goes
\* through another analyzer, some fail, and one stage deletes what the other has
\* stored (normalize.run, syntax.run).  Once a run has passed normalize, a file
\* without a row is in the report of the stage, until another run of the commit
\* has written that; and the lines of one with a row are in the units, or it is
\* in the report, whichever run wrote it.
NothingLost ==
  \A r \in Runs : \A p \in Paths :
    /\ "normalize" \in passed[r] /\ reporter = r =>
         p \in fileRows[r] \cup reported["normalize"]
    /\ "normalize" \in passed[r] /\ p \in fileRows[r] /\ NormalizeReads(tree[p]) =>
         \/ Covered(r, p, Searchable(tree[p]))
         \/ p \in reported["normalize"]
         \/ ~ SyntaxReads(tree[p]) /\ p \in reported["syntax"]
    /\ "syntax" \in passed[r] =>
         \/ SyntaxReads(tree[p]) /\ Covered(r, p, 1..tree[p].n)
         \/ ~ SyntaxReads(tree[p]) /\ p \in reported["syntax"]

\* A stage that a run is in ends: each loop over windows, sections, lines and
\* files gets to its end, whatever the settings.
StagesEnd == \A r \in Runs : run = r ~> run = NoRun

\* Every symbol that is extracted can be stored (docs/ARCHITECTURE.md: "Tree-sitter
\* syntax extraction is the canonical source for symbols and imports when
\* parsing succeeds").
SymbolsAreStored == task = "units" => Storable(found)

=============================================================================
