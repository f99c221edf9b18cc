# Verification of the agent brain pipeline

TLA+ models of the pipeline service (`src/pipeline/`), TLC configurations that
check them on small instances, and TLAPS proofs of the properties that matter
most. Paths below are relative to the repository; `db.py` means
`pipeline/db.py`.

To check a run: `tlc -config <run>.cfg <MC module>`. To check the proofs:
`tlapm <Module>_proofs.tla`.

## 1. The system

One container runs `uvicorn` with one process (`compose.yaml`, service
`knowledge-pipeline`). In it live

- the HTTP handlers of `api.py`, plain functions that FastAPI runs on a thread
  pool, several at a time;
- the worker task (`runner.worker_loop`), which runs `execute_run` on a thread,
  one run at a time;
- the scheduler task (`maintenance.scheduler_loop`), which polls for sources
  that are due, on a thread of its own.

They share a SQLite database in which every `connect()` block is one
transaction, the directory of snapshots, one LanceDB table and the Obsidian
vault. Nothing else synchronises them, and only what is in these four places
survives a restart.

| Component | State it keeps | Operations | Talks to |
|---|---|---|---|
| Run queue and worker (`runner.py`, `db.py`, `api.py`) | `runs`, `stage_results`; the worker's place in the plan | `create_run`, `retry_run`, `claim_next_run`, `update_run`, `set_stage`, `execute_run` | calls the stage functions; read by everybody |
| Refresh scheduler (`maintenance.py`) | `sources.next_refresh_at`; the batch of due rows | `check_due_sources`, `enqueue_refresh` | reads and inserts `runs`; dates set by acquire |
| Source acquisition (`stages/acquire.py`) | `raw/`, the manifest and `extracted/` of a commit | validate, quarantine, write, extract, record | the worker; read by every later stage |
| Vector index (`stages/vector.py`, `indexes/lancedb_index.py`) | one table for all runs | rebuild, smoke search, search | reads `runs.status` and `units` of every run |
| Search (`search.py`, `stages/retrieval.py`) | none of its own | five modes, latest published run of a source | `runs`, `units`, FTS, LanceDB, the two tools |
| Schema migrations (`db.py`) | `schema_migrations`, the tables themselves | `initialize` and five migrations | run before anything else, when the process starts |
| Unit store (`db.py`) | `files`, `units`, `symbols`, `snapshots` | `replace_files`, `replace_units`, `upsert_snapshot` | written by normalize, syntax, acquire |
| Normalization and identities (`stages/_normalize.py`, `schemas/ids.py`) | none | chunking, unit and symbol ids | unit store |
| Quality gate (`stages/audit.py`, `_audit.py`, `integrity.py`, `lint.py`) | reports in the snapshot directory, `stage_reports` | checks, `run`, `verify_run` | every other component's results |
| Wiki lifecycle (`api.py`) | `runs.wiki_state`, `wiki_job_id` | started, completed, failed, page-manifest | `_require_wiki_ready`; the vault |
| Obsidian export and Kanban (`stages/export.py`) | notes and the board | `run`, `refresh_kanban` | `runs`; called by the API and the worker |
| Structure and semantics tools (`stages/structure.py`, `semantics.py`, `util.py`) | analysis workspace, tool outputs | copy tree, run tool, normalize output | the snapshot |
| Syntax extraction (`stages/syntax.py`, `analyzers/tree_sitter.py`) and the older `curate.py` | a report | one analyzer per language, a fallback | unit store |
| Configuration, URLs, records, profiles, scripts | none | parsing, declarations, a client of the API | |

What makes each of them correct, and what makes it hard:

- **Queue and worker.** A published run has passed its whole plan; a failed one
  says where; nothing that passed is run again; no run is forgotten. Hard,
  because a retry is accepted at any time, also for the run the worker holds,
  because the two tables are updated in separate transactions any of which may
  raise, and because the process may be killed between any two.
- **Scheduler.** A due source is refreshed, and not twice at once. Hard, because
  look-up, insert and new date are three transactions, beside the worker and
  clients.
- **Acquisition.** What was preserved is never written over, what passes is
  intact, and what an interrupted attempt left behind does not block the next.
  Hard, because the directory belongs to the commit and is shared by runs, and
  because a shell pipe hides the failure of its left side.
- **Vector index.** A published run is found. Hard, because each rebuild decides
  for all runs from the statuses of that moment.
- **Migrations.** No row is lost, what is recorded is there, and an interrupted
  start does not block the next one. Hard, because which statements make one
  transaction is decided by SQLite's implicit begin and by `executescript`'s
  early commit.
- **Search** must choose one run of a source and filter by it in every mode.
  **The gate** must not pass what a check refused.
- **Normalization and syntax** must cut every text into whole, searchable units
  and lose none, whatever analyzer, fallback or error a file meets; every loop
  has to end. Hard, because two ways of counting lines are mixed, windows
  overlap by any amount a deployment configures, and scopes are guessed from
  braces.
- **The unit store** must keep the units, symbols and full-text rows of a run in
  step. Hard, because runs of one commit share all their ids, the full-text
  table has no key, and the units of one stage replace those of another.
- **The wiki lifecycle** must start from complete runs and offer for review only
  what is on disk, although its handlers check a state they read earlier and
  never compare job ids. **The board** must come to show how each run ended,
  although it is written from readings of several threads.

The list of hazards, each at its line, is in `PROJECT.json`.

## 2. The modules

| Module | Models |
|---|---|
| `RunLifecycle` | what the run API promises: phases of a run, stages done in plan order, one executor |
| `PipelineRuns` | the queue and the worker, transaction by transaction |
| `RefreshScheduler` | extends `PipelineRuns` by the scheduler and the `sources` table |
| `SnapshotStore` | the acquire stage over the directory of a commit |
| `SearchIndex` | extends `PipelineRuns` by unit rows and the vector table |
| `Publication` | extends `PipelineRuns` by the wiki handlers, the page manifests and the Kanban board |
| `SourceText` | a file as the stages see it, and the settings |
| `TextUnits` | how normalize cuts one text: Markdown sections, windows of lines |
| `ScriptSymbols` | how syntax scans one script: braces, the stack of classes, symbols |
| `Documents` | the two stages over the files of a commit, composing the two, and the tables they fill |
| `Migrations` | the start-up on new, older and interrupted databases, statement by statement |
| `MC...` | instances for TLC: plans and tables of constants |
| `..._proofs` | theorems |

### PipelineRuns

`status`, `stage` and `completed` are `runs.status`, `current_stage` and
`completed_at IS NOT NULL`; `rows[r][s]` is `stage_results.status`; `createdAt`
orders the queue. `pc`, `run` and `at` are the worker's place. An action is one
transaction with the local steps up to the next one:

| Action | Code |
|---|---|
| `Submit`, `Retry` | `POST /runs`, `POST /runs/{id}/retry` |
| `Claim` | `claim_next_run`: oldest queued row |
| `SkipStage` | the two `continue`s at the head of the loop |
| `BeginStage`, `MarkRunning` | `update_run(running)`, `set_stage(running)` |
| `RunStage` | the stage function: returns or raises |
| `PassStage`, `FailStage`, `CloseFailed` | `set_stage(passed)`; the two updates of the error path |
| `Finish`, `AbortRun` | the update after the loop; the outer handler |
| `DbError` | the transaction that comes next raises: where to, says `Handler` |
| `Start`, `Crash` | `lifespan`; a kill |

`refresh_kanban` is called in between, always inside a `try` that catches
everything, and writes nothing that is modelled here (`Publication` has it). The runner never looks at
the verdict in a report, so a stage function either returns or raises. `audit`
always raises (see Findings); the instances of the other runs therefore leave it
out of the plan, which `cfg["stages"]` permits.

### RefreshScheduler

A date is none, in the future or past, and `TimePasses` takes a date from future
to past at any moment. `Poll` reads the due rows, `LookUp`, `Create` and
`Reschedule` are the three transactions of each row. `Acquired` gives the acquire stage
its second effect, `_record_source_and_run`, which may have happened even when
acquire raises. `SchedDbError` follows the `try` of `check_due_sources`: an
exception while the rows are read ends the task, any other is logged.

### SnapshotStore

An artifact is absent, short (its command has not ended, or the left side of its
pipe died), cut (the same, but the archive ends between two members, which tar
accepts), whole or damaged; the manifest is kept as the contents its
checksums stand for. `Interrupt` is both an exception and a kill: on disk they
are the same. `Begin` picks any commit, since the ref of a source may move
between two attempts. The mirror clone, credentials, LFS objects and the `snapshots` row are left out, and
the size limit is one of the reasons for `Interrupt`; the quarantined directory is never
read again, so moving it away empties `raw/`.

### SearchIndex

Unit ids and the filter of a vector search name the source and the commit, not
the run, so the table is a set of commits. `ReadUnits`, `DropTable`,
`CreateTable` and `EndVector` are the steps of the vector stage between which
handlers run. As in the shipped configuration, `lancedb` is enabled and required.
Vector takes in the units of some types only; `Searchable` are the commits that
have any (a run of another one fails at vector, and is never published), and a
run on its way there may have none of them yet (`Unready`: normalize stores
text chunks, which are left out). `Normalize` may store the units of a run and
raise after it.

### Publication

A handler of the wiki agent is two transactions. `TakeStarted` and `TakeReport`
are the first: `get_run` and the check of what it returned; what the handler
then holds is in `call`. `Record` is the second one, `update_run`, which looks
at nothing. In between a page manifest is written (`WriteManifest`), and
retries, other reports and the worker go on. `Outcome` is the state each report
leads to; the report of pages outside of the candidate directory keeps the job.

`ReadRows` and `WriteBoard` are the two halves of `refresh_kanban`. The board
lists the `BoardSize` newest runs (`LIMIT 100`), so that a new run takes the
oldest one off it. A refresh runs on the threads of `submit_run` and, at the steps that
`ReportsToBoard` names, on that of the worker, which is held up until it is done.
Runs of the scheduler (`EnqueueRun`) come without one. The history variables
`crossed` and `doubt` say when two page manifests or two refreshes overlapped;
the properties are stated up to that, since the code has no lock for either:
the older reading then stays on the board until the next refresh. A retry, a
claim and the wiki reports refresh nothing, so the board is behind for
as long as a run waits, and its suffix with the wiki state (left out here) is
that of the last refresh. A kill in the middle of writing one of the two files is not told from one
before it.

### SourceText, TextUnits, ScriptSymbols, Documents

A file is a record of its lines: which are blank, headings, declarations, how
long they are, where its braces stand. `ranges` counts the lines by newlines
only, as `file_line_ranges` does, which may be fewer than `str.splitlines`
gives; normalize then raises on that file and records an error. `says` is the
text of each line, and `name` the path as `normalize_path` writes it before it is
hashed, with a slash for each backslash: two files of a commit may have one name.

`TextUnits` has one action per turn of the loops of `markdown_units` and
`text_units`; `ScriptSymbols` one per line of `_collect_javascript_like` with
its stack of classes, and operators for the braces that `_find_block_end`
counts. What the regular expressions match is part of the file. Names are
abstracted to the line and the place at which they stand.

`Documents` runs both over the files of a commit and stores the results:

| Action | Code |
|---|---|
| `Begin` | the worker enters normalize or syntax, also again after a failure |
| `FailToRead`, `SkipBinary`, `ReadText`, `CutText`, `TakeText` | the loop of `normalize.run`, with its `try` around one file: one that cannot be read (`Unsafe`) gets an error and no row, one that cannot be cut an error and its row |
| `SkipUndecoded`, `Analyze`, `ReadScript`, `ScanScript`, `TakeScript` | the loop of `syntax.run` and `analyze_file` |
| `EndFiles`, `StoreFiles`, `StoreUnits`, `WriteReport`, `Pass` | what follows the loop, in the order of each stage |
| `RaiseConflict` | two rows with one key: the transaction is rolled back |
| `Interrupt` | a kill or an exception between any two of these |

Units have the id that the hash is taken of (`UnitId`, `SymbolId`, `ImportId`),
without what all files of the commit share, so that two runs of the commit have
equal ids, as in the code. `reporter` is the `run_id` in the normalization report,
which belongs to the commit: whichever run wrote it last.

### Migrations

`disk` is what is committed, `work` what the connection sees; `open` says
whether a transaction is open. `Ddl`, `Dml` and `Commit` are what the `sqlite3`
module does with a statement: CREATE, DROP and ALTER take effect at once unless
a transaction is open, a change of rows opens one, and `executescript` commits
it. Every statement of `_migrate_3` and `_migrate_4` is an action
(`DropNew` to `FillFts`), the scripts create their missing tables one by one
(`Create`), and `Kill` is a kill or an exception between any two. The rows that
matter are those of the two tables that are rebuilt, `units` and `symbols`, and
of the full-text table; tables that are only created, and indexes, are left out,
and all rows belong to a run, so that foreign keys hold. The
database found may be new, older than the migrations (as in
`tests/test_canonical_schema.py`), or that of any release.

## 3. What is checked

| Run | Question | Result |
|---|---|---|
| `pipeline` | do the tables and the worker agree under retries, a kill and database errors, does the worker implement `RunLifecycle`, and does every run settle? | holds |
| `pipeline_audit` | with the shipped plan, does a run ever get to the export? | violated |
| `publication` | do wiki reports, page manifests, the board of the newest runs and the queue agree, under retries, stale readings, a kill and an error? | holds |
| `refresh` | are there ever two refreshes of a source under way, and is a due source dated anew, although runs fail? | holds |
| `refresh_crash` | and after a kill? | violated |
| `snapshot` | is what was preserved kept, what passes intact, and does a run that is retried get through in the end? | holds |
| `snapshot_tree` | do the stages after acquire read the tree as it was preserved? | violated |
| `documents` | is every text cut into whole units and none lost, do scans name the right owners, do the tables agree, and do the stages end? | holds |
| `documents_ids` | can every symbol that is extracted be stored? | violated |
| `migrations` | does any interrupted start lose a row, record what is not there, or block the next one? | holds |
| `index_safety` | does a published run that was not retried stay in the table, and is the table missing only while some run has a vector stage to finish? | holds |
| `index_retry` | does every published run? | violated |

Each passing run's property has a mutant in the module, marked `Mutant:`, a
plausible slip in the code that makes TLC find the property violated.

### Bounds, and why they are enough

- **Runs.** Two in most instances: one that the worker holds and another one
  that waits, is retried or was published. `refresh` has three runs of one
  source, since two refreshes and a run submitted by a client have to meet.
- **Plan.** `SmallPlan` has three stages and an entry the runner does not know:
  a first, a middle and a last stage and a gap to step over. The runner treats
  all stages alike except for what they do inside.
- **`MaxCrashes`, `MaxDbErrors`, `MaxSchedErrors`, `MaxDamages`.** One of each,
  two database errors in `pipeline`, so that one may hit the handler of the
  other; in `refresh`, one fault of any kind in a behaviour (`MaxFaults`, a
  bound of the instance). A kill at any point and the restart after it are in
  every passing run. Interruptions of `SnapshotStore` and `Documents` and kills
  of `Migrations` are not bounded.
- **`publication`.** Two runs and a board of one (`BoardSize`), so that one is
  pushed off it by the other; a plan of one stage, the one that refreshes the
  board; two request threads and two jobs, so that a report of the one comes in
  the middle of the other; one kill, one database error, and one refresh or
  recording that raises (`MaxFaults`). The constraint `ReportsOnOneRun` follows
  wiki reports with one run only: a report reads and writes the row of the run
  it names, and the group under which the board lists a run depends on none of
  the columns it writes.
- **`index_safety`.** Three runs of three commits, the last one without a unit
  that vector takes in: its own stage fails between the rebuilds of the other two.
  A kill or a database error, but not both (constraint `OneFailure`).
- **`documents`.** All Markdown texts of at most three lines (blank, short, long
  or heading), all texts of at most four lines for the windows, all scripts of
  at most three lines over five kinds of lines, and longer ones for nested
  classes; Python files that exercise each branch of the walk, with names that
  collide and names that do not; files that are binary, all white space, with a
  form feed or a late NUL. One file in a commit, two in some, among them two of one
  name. The files of `Unsafe` may fail to be read, each time anew. A second run
  takes part for the odd files, modules, longer scripts and pairs (constraint
  `SecondRunOfFew`): how a text is cut or scanned does not depend on the run, and
  what two runs do to each other is a matter of the tables. Two settings: an
  overlap shorter than a window with symbols of all sizes, and one as long as a
  window with small units. A property of cutting concerns three neighbouring
  lines at most, which is why such short texts are enough; the theorems are for all
  texts.
- **Rows.** Two of units and two of symbols, and every subset of them: none, one
  and several are what the statements tell apart (no row, no transaction).
- **Retries** are not bounded. **`clock`** grows with submissions only, and is
  bounded by the number of runs.
- In `DueSourceRefreshed` the instance may run out of run ids (`Exhausted`),
  which the code does not; the property is stated up to that point.
- `refresh` and `refresh_crash` hand out run ids in order (`InOrder`). All runs
  belong to one source and ids are never compared, so this drops only
  behaviours that are a renaming of others; unlike symmetry in TLC it is sound
  for liveness. `publication` uses symmetry of runs, threads and jobs, and checks no
  liveness. `documents` checks liveness under its constraint: what it cuts off is
  a second run's entry into a stage, and a run inside of a stage is never cut off.
- `snapshot` and `snapshot_tree` do not check for deadlock: when all runs are
  finished nothing is left to do.

### Fairness, and what in the code justifies it

- `Start` / `Boot`: `compose.yaml` restarts the container (`unless-stopped`).
- `Work` / `Worker`: `worker_loop` polls for ever, every subprocess a stage runs
  has a timeout, and the worker is one thread, so one step of it is enabled at a
  time. Nothing is assumed of a transaction that raises, of a dead task, or of
  clients.
- `Scheduler`: the loop polls every `scheduler_poll_minutes`, on a thread that
  nobody else holds up.
- `Initialize` of `Migrations`: the container is restarted, and a statement
  ends. `StartupCompletes` has the premise that kills stop.
- `Attempt` of `SnapshotStore`: commands end, by themselves or by their timeout.
  Nothing is assumed of `Begin` and `Resume`, since a run that failed or was
  killed is taken up again only when a client asks for it. `RetriedRunsAcquire`
  has as premises that a run is put back as long as it has not passed, and that
  interruptions stop: it says that nothing on disk blocks it then.
- `Work` of `Documents`: a stage that was entered is carried on by the worker's
  thread. Nothing is assumed of `Begin`.

`RefreshGoesOn` is `DueSourceRefreshed` for a process that lives and whose
transactions go through; `refresh_crash` shows that it is not so after a kill.

`EveryRunSettles` and `DueSourceRefreshed` have the premise that clients stop
retrying, for a client that retries without end can keep a run queued;
`EveryRunSettles` also that nothing was killed and no transaction raised, since
both leave a run behind (`RunningIsHeld` says exactly when).

### Findings

1. **Every run fails at audit** (`pipeline_audit`). `audit.run` reads
   `reproducibility`, a local variable of another function
   (`stages/audit.py:109`), after it has written its JSON reports. The shipped
   plan has audit before export, so no run is exported or published.
2. **A kill silences a source** (`refresh_crash`). Nothing resets a running row at
   startup; `enqueue_refresh` takes it for work in progress for ever.
3. **Runs of one commit share a tree that one of them may remove**
   (`snapshot_tree`). The reuse path drops and unpacks `extracted/`; interrupted in
   between, it leaves another run that is resumed behind acquire with a partial
   tree.
4. **A retry loses vectors** (`index_retry`). A run queued again while another
   run's vector stage reads the statuses is left out of the table; its own
   vector stage has passed and is skipped.
5. **Two symbols in one place fail a run for good** (`documents_ids`). The id of a
   unit leaves out the name, so `A = B = 1` makes two units with one id; the
   insert meets the key, and so it does on every retry. Two files whose paths
   differ in a backslash only, with equal text, do the same at normalize: the
   hash is taken of the normalized path.

One more disagreement has no run of its own. The scan of a script records an
"Unbalanced class block" (`analyzers/tree_sitter.py:659`) for every class that is
left on the stack behind the last line. A class that ends on the last line is
among them, however balanced: the stack is only popped at the start of a line.
`MismatchMeansOpenEnd`, proved for every script, says which classes are
recorded; `UnclosedIsReported` is what can be relied on, that an unclosed one is.

## 4. What is proved

The theorems hold for every set of runs, sources, commits, rows, files and settings,
every plan, and any number of crashes, errors and damages.

Assumptions: `PlanAssumption` (the plan is a sequence of distinct names, as the
keys of a mapping are), `RunsAssumption`, `SourcesAssumption`, `StoreAssumption`,
`CommitsAssumption`, `CallersAssumption`, `BoardAssumption` (the values that stand for NULL are none
of the others, each run has one source and commit, the worker is no request
thread, and the board lists at least one of finitely many runs), `BoundsAssumption`, `SchedBoundAssumption`, `FaultsAssumption` (bounds are
natural numbers) and, for the vector index, `IndexPlanAssumption`
(the plan has normalize before vector) and `VectorAssumption` (vector may raise);
for texts, `FilesAssumption`, `SettingsAssumption`, `BracesAssumption`,
`NodesAssumption` and `TreesAssumption`, which say what a file is (every line has
a text and a size, each brace changes the depth by one) and that a window has at least one
line. TLC evaluates all of them.

- **`PipelineRuns_proofs`.** `IInv` adds to the properties what the worker's
  place says about the tables: it holds a run exactly inside `execute_run`
  (`HoldsRun`), one that is not settled (`HeldIsLive`), everything before its
  place has passed (`PrefixPassed`), and the stage it is at has not (`AtWork`).
  Without `PrefixPassed`, `ReadyMeansPlanPassed` would not survive `Finish`;
  without `HeldIsLive`, neither `SettledIsReleased` would survive a retry.
  Proved from it: `TypeOK`, all the invariants of the run `pipeline`,
  `PassedIsFinal`, and the refinement of `RunLifecycle` step by step.
  `NothingPassesAudit` is finding 1 for every plan with audit in it: no run is
  published or enters a later stage, whatever is retried (with `AuditRaises`,
  `StagesInOrder` and `ReadyMeansPlanPassed`). `AttemptsAdvance`: no path of
  `execute_run`, those of failed transactions included, leads back to a place
  where the attempt has been.
- **`RefreshScheduler_proofs`.** `QueueUnchanged`: hiding the scheduler, the
  composition is the queue, so that every theorem about it carries over.
  `OneRefreshPerSource` needs that the look-up stays good until the insert
  (`LookUpHolds`): only a client can make a settled run active, and those runs are in
  `requeued`. `DueRowsAreDealtWith`: a due row leaves the batch only with a new date
  for its source or a run under way, or through a failed transaction or a kill;
  `ChecksAdvance`: no step of a check adds a row. Both need that the row at hand
  stays in the batch and that no row is left between two checks (`RowsOfACheck`).
- **`Publication_proofs`.** `QueueIsQueue`: the handlers and the board disturb
  nothing of the queue. `WikiInv` adds that a report in hand was checked
  against a run whose stages have all passed (`CallsPassed`, which survives a
  retry because nothing takes a passed stage back), that only one page manifest
  of a run is in hand unless two have crossed (`OnePages`), and then the run is
  not offered for review yet (`NotYetReviewed`). `BoardInv`: unless a refresh was lost
  or crossed, one thread at most is about to write (`OneWriter`), and what it
  has read, or else the board, is true of the settled runs among the newest or is
  about to be read again (`ReadingIsTrue`, `BoardIsTrue`). A run that is among
  the newest now was so when the rows were read, since runs are only added
  at the new end.
- **`SnapshotStore_proofs`.** A manifest stands for artifacts that are all there
  and, on an undamaged disk, for a set that would be verified (`ManifestVouches`);
  hence acquire moves away only what it did not finish. A set is built from
  nothing, in order (`Fresh`), which is why nothing is written over.
  `OnlyReextractionSpoils` gives finding 3 its only cause: on an undamaged disk,
  with no interruption of a re-extraction, every later stage reads the tree as
  preserved (`TreesKept`). `OnlyOwnShortArchiveRefused`: acquire raises over what it
  finds on disk only when its own attempt wrote the source archive short
  (`ReadableSet`), damages included.
- **`SearchIndex_proofs`.** An unretried run stays eligible from its own vector
  stage on, so each rebuild reads it (`InRecords`) and leaves it in the table
  (`InTable`). `IndexedQueueIsQueue` carries the theorems about the queue over.
  `MissingTableIsRepairable` proves `MissingIsUnfinished`: once a run has passed
  vector, there is no table only while some run stands in the middle of the stage,
  so that its retry builds one (`RebuildInRow`).
- **`Migrations_proofs`.** The copy is complete before its original is dropped,
  and without a transaction only an empty original is (`CopyIsGood`); the
  connection sees all rows but for a table dropped in the open transaction
  (`RowsSeen`), so every commit is safe. What a migration is for is there by the
  time it is recorded (`DoneSoFar`), and nothing that is recorded is
  touched again, since versions are recorded in order (`InOrder`).
  `NothingBlocksAStart`: no statement that demands an absent table or copy finds one,
  wherever earlier starts were killed. `StartsAdvance`: each statement leaves fewer
  before it (`Ahead`).
- **`Texts_proofs`.** The loop over a Markdown text keeps that what lies
  before the line at hand is partitioned into the units and the pending lines
  (`SectionsInv`: `SectionAhead`, `PendingLines`, `NothingPending`); the loop
  over windows, that every window so far is whole and starts before the next one
  (`WindowsInv`). `MarkdownPartition`, `ChunksAreFull`, `WindowsCutNothing` and
  `NoNestedWindows` follow by adding one turn, for every text, limit, window and
  overlap, an overlap longer than a window included.
  In the scan of a script, the stack holds just the classes whose end has not
  been passed, nested in each other (`StackOK`, `StackNested`). That a block ends
  within the one around it is a fact about depths of braces alone, and is proved
  first. `OwnersEnclose` has the premise that a declaration opens its own block
  before it closes any other, on its own line; a class with its brace on a later
  line, behind a closing one, gets the end of another block. `UnclosedIsReported` and
  `MismatchMeansOpenEnd` have no premise: what is popped ends before the line at
  hand, and an unclosed class, which ends with the file, never does.
  `OutcomeIsDecided`: whether a text is cut or raises is decided by the text and the
  settings (`Fails`), not by where the loop stands; `CuttingAdvances`: each turn
  leaves fewer (`CutLeft`), with an overlap longer than a window too.
- **`Documents_proofs`.** `TextsAreCut` and `ScriptsAreScanned`: hiding the rest,
  the two stages cut and scan as the two modules say, so that their theorems
  carry over (`CutIsSound`, `ScanIsSound`); this needs that a file is only open
  in its own stage (`Placed`). `FtsAgrees` needs only the transaction of
  `replace_units`. `SymbolsAgree` needs `AgreeInv`: normalize never has symbols,
  a run that has none comes from normalize, and every unit of syntax carries
  its symbol, so that the symbols that `replace_units` leaves alone are none.
  `NothingIsLost` proves `NothingLost` from `LossInv`. The property is about a
  stage that has passed, and the loss would happen long before: `FoundAll` says
  that the files before the one at hand are covered or recorded, `StoringAll`
  carries that through the writes of the stage in their order, and `StoredAll`
  keeps it for the runs that are not at hand, whose reports other runs of the
  commit write over. A file that could not be read is in the report of the run
  that failed on it, and in no other: hence the premise `reporter = r` for the
  files without a row. That reports name the same files otherwise is `OutcomeInv`, the
  reason for `OutcomeIsDecided`; that a text that was cut is covered comes from
  `MarkdownPartition` and `WindowsCutNothing`. `OnlyTwinsConflict` bounds
  finding 5: in a commit without two files of one name (`Namesakes`) rows meet a
  key twice only in syntax, and only with a script that is one oversized block, or a
  Python file with two declarations, or twice one import, on the same lines
  (`Twins`). With namesakes normalize may fail in this way as well (`SlashPairs` of the
  instance). `StagesAdvance`: every step lets go of the
  run or comes nearer to its end, in files, then tasks, then turns (`Nearer`).

What `AcquiredIsIntact` does not say: that the source archive is complete. When
`git archive` dies between two files, `zstd` and `tar` both end well, and the
manifest vouches for the cut archive.

Every invariant and action property of the passing runs is a theorem. Only
model-checked: the liveness properties `EveryRunSettles`, `RefreshGoesOn`,
`RetriedRunsAcquire`, `StartupCompletes` and `StagesEnd`, which need fairness and that
some step is always possible (`ENABLED`), out of the prover's reach; and the
violations, which are single behaviours. The theorems `AttemptsAdvance`,
`ChecksAdvance`, `StartsAdvance` and `StagesAdvance` prove for every instance the part of
liveness that is a matter of steps: what is run cannot go round in circles.

The theorems that state no property of a run (`NothingPassesAudit`,
`OnlyReextractionSpoils`, `OnlyTwinsConflict` and those like them) sharpen one: they say how far
a finding reaches, or what else a liveness property rests on.

## 5. Not modelled, and the plan

Left out for good:

- configuration, URLs, declarations of records, deployment scripts and agent
  profiles: they have no state or only pass on what the API does;
- what regular expressions, parsers, embeddings and external tools compute: they
  are abstracted to what they find;
- the curate stage: the shipped plan has normalize and lint in its place. A
  deployment that lists it after normalize would store its units by the same
  `replace_units`;
- `upsert_snapshot` and `tool_executions`, which nothing in the repository reads;
- the text of the notes that export writes, and the handlers that only read.

Planned, in this order:

1. `Search`: the latest published run of a source, by `completed_at`, and the
   filter of each mode, over `SearchIndex`; a run that is retried between the
   choice and its use; an older run that is retried and published again, which
   then counts as the latest; a table that is missing between drop and create.
2. `AnalysisWorkspace`: the copied tree with its marker, over `SnapshotStore`,
   and the reports that runs of one commit share.
3. `QualityGate`: the verdict of the audit over checks and stage reports. As long
   as `audit.run` raises before it records it, no run depends on the verdict.
   Some of its checks look for what only later stages write (the notes of export,
   a published run of the commit for each mode of search), which belongs to the
   same question: what has to be there when.

To be proved next: of `Publication`, that every refresh of the board and every
report ends; of `SnapshotStore`, that an attempt at acquire gets nearer to its end; and,
with a model of `Search`, what a search finds while runs are retried.
