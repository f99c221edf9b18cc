----------------------------- MODULE Publication -----------------------------
(***************************************************************************)
(* What becomes of a published run (pipeline/api.py): the reports of the   *)
(* wiki agent about its jobs and pages, and the Kanban board in the vault  *)
(* (pipeline/stages/export.py), beside the queue and the worker.           *)
(*                                                                         *)
(* A handler reads the row of its run in one transaction, decides by what  *)
(* it read, and updates the row in another one; the handlers run on        *)
(* threads of their own.  The board is a file: a thread reads the rows and *)
(* later writes what it has read.                                          *)
(***************************************************************************)
EXTENDS PipelineRuns, FiniteSets

CONSTANTS
  Callers,   \* the threads that serve requests
  Worker,    \* the thread of execute_run
  Jobs,      \* the ids that wiki agents give to their jobs
  NoJob,     \* no job was reported, or no file was written
  BoardSize, \* how many runs the board lists, LIMIT 100 in the code
  MaxFaults  \* bound: how often a refresh or the recording of a report raises

ASSUME CallersAssumption == Worker \notin Callers /\ NoJob \notin Jobs
ASSUME FaultsAssumption == MaxFaults \in Nat
ASSUME BoardAssumption == BoardSize \in Nat \ {0} /\ IsFiniteSet(Runs)

Threads == Callers \cup {Worker}

VARIABLES
  wiki,      \* runs.wiki_state, "none" for NULL
  job,       \* runs.wiki_job_id
  manifest,  \* the page manifest file of each run: the job it names
  call,      \* the report each caller is about to record: kind, run and job
  turn,      \* where a thread stands in refresh_kanban
  reading,   \* the rows it has read there
  board,     \* the board file: the group under which it lists each run
  crossed,   \* history: runs with two page manifests taken in at the same time
  doubt,     \* history: a refresh was lost, or crossed by another one
  faults     \* refreshes and recordings that raised so far

wikiVars == <<wiki, job, manifest, call, crossed>>
boardVars == <<turn, reading, board, doubt>>
pubVars == <<wikiVars, boardVars, faults>>
pVars == <<vars, pubVars>>

NoCall == [kind |-> "none", run |-> NoRun, job |-> NoJob]
Blank == [r \in Runs |-> "none"]

PInit ==
  /\ Init
  /\ wiki = [r \in Runs |-> "none"]
  /\ job = [r \in Runs |-> NoJob]
  /\ manifest = [r \in Runs |-> NoJob]
  /\ call = [c \in Callers |-> NoCall]
  /\ turn = [t \in Threads |-> "none"]
  /\ reading = [t \in Threads |-> Blank]
  /\ board = Blank
  /\ crossed = {} /\ doubt = FALSE /\ faults = 0

-----------------------------------------------------------------------------
(* refresh_kanban.                                                         *)

\* The groups of the board; a run that is not there yet is in none.
GroupOf ==
  [absent |-> "none", queued |-> "Queued", running |-> "Running",
   failed |-> "Failed", ready_for_wiki |-> "Complete"]

Refresh(t) == turn' = [turn EXCEPT ![t] = "read"]
Refreshing(t) == turn[t] # "none"

\* ORDER BY created_at DESC LIMIT 100: fewer than that many are younger.
Newer(r) == {q \in Runs : createdAt[q] > createdAt[r]}
Shown(r) == Cardinality(Newer(r)) < BoardSize

\* Mutant: the rows come oldest first, and the limit cuts off the newest.
ReadRowsOldestFirst(t) ==
  /\ turn[t] = "read"
  /\ turn' = [turn EXCEPT ![t] = "write"]
  /\ reading' = [reading EXCEPT ![t] = [r \in Runs |->
       IF Cardinality({q \in Runs : createdAt[q] \in 1..(createdAt[r] - 1)}) < BoardSize
       THEN GroupOf[status[r]] ELSE "none"]]
  /\ doubt' = (\E u \in Threads : turn[u] = "write")
  /\ UNCHANGED <<vars, wikiVars, board, faults>>

\* SELECT * FROM runs ORDER BY created_at DESC LIMIT 100
ReadRows(t) ==
  /\ turn[t] = "read"
  /\ turn' = [turn EXCEPT ![t] = "write"]
  /\ reading' = [reading EXCEPT ![t] =
                   [r \in Runs |-> IF Shown(r) THEN GroupOf[status[r]] ELSE "none"]]
  /\ doubt' = (\E u \in Threads : turn[u] = "write")
  /\ UNCHANGED <<vars, wikiVars, board, faults>>

\* board.write_text
WriteBoard(t) ==
  /\ turn[t] = "write"
  /\ board' = reading[t]
  /\ turn' = [turn EXCEPT ![t] = "none"]
  /\ reading' = [reading EXCEPT ![t] = Blank]
  /\ UNCHANGED <<vars, wikiVars, doubt, faults>>

\* The refresh raises: its callers log it and go on.  Raised inside of the export
\* stage it fails the stage, which is an outcome of RunStage.
RefreshFails(t) ==
  /\ Refreshing(t)
  /\ ~ (t = Worker /\ pc = "save")
  /\ faults < MaxFaults
  /\ faults' = faults + 1
  /\ turn' = [turn EXCEPT ![t] = "none"]
  /\ reading' = [reading EXCEPT ![t] = Blank]
  /\ doubt' = TRUE
  /\ UNCHANGED <<vars, wikiVars, board>>

-----------------------------------------------------------------------------
(* The queue and the worker.                                               *)

Boot == Start /\ UNCHANGED pubVars

Kill ==
  /\ Crash
  /\ call' = [c \in Callers |-> NoCall]
  /\ turn' = [t \in Threads |-> "none"]
  /\ reading' = [t \in Threads |-> Blank]
  /\ doubt' = (doubt \/ \E t \in Threads : Refreshing(t))
  /\ UNCHANGED <<wiki, job, manifest, board, crossed, faults>>

Free(c) == call[c] = NoCall /\ ~ Refreshing(c)

\* submit_run: the new run shows on the board at once.
SubmitRun(c, r) ==
  /\ Free(c)
  /\ Submit(r)
  /\ Refresh(c)
  /\ UNCHANGED <<wikiVars, reading, board, doubt, faults>>

\* enqueue_refresh of the scheduler creates runs too, and shows them nowhere.
EnqueueRun(r) == Submit(r) /\ UNCHANGED pubVars

\* retry_run writes neither the wiki columns nor the board.
RetryRun(c, r) ==
  /\ Free(c)
  /\ Retry(r)
  /\ UNCHANGED pubVars

\* The steps that are followed by refresh_kanban: the end of an attempt, good or
\* bad, and the export stage, whose last call it is; when that raises, the stage
\* has failed.
ReportsToBoard ==
  \/ pc \in Holding /\ pc' = "idle"
  \/ pc = "exec" /\ Plan[at] = "export" /\ pc' = "save"

WorkerStep ==
  /\ ~ Refreshing(Worker)
  /\ Work \/ DbError
  /\ IF ReportsToBoard THEN Refresh(Worker) ELSE UNCHANGED turn
  /\ UNCHANGED <<wikiVars, reading, board, doubt, faults>>

-----------------------------------------------------------------------------
(* The reports of the wiki agent: first what get_run returned is checked.  *)

Take(c, kind, r, j) ==
  /\ pc # "down"
  /\ Free(c)
  /\ call' = [call EXCEPT ![c] = [kind |-> kind, run |-> r, job |-> j]]
  /\ UNCHANGED <<vars, wiki, job, manifest, boardVars, faults>>

\* The callers that are taking in a page manifest of the run.
PagesOf(r) == {c \in Callers : call[c].run = r /\ call[c].kind \in {"pages", "written"}}

\* Mutant: a job may be started on any run.
TakeAnyStarted(c, r, j) ==
  /\ status[r] # "absent"
  /\ Take(c, "started", r, j)
  /\ UNCHANGED crossed

\* report_wiki_job_started: _require_wiki_ready
TakeStarted(c, r, j) ==
  /\ status[r] = "ready_for_wiki"
  /\ Take(c, "started", r, j)
  /\ UNCHANGED crossed

\* The other three ask for a job that is running or done, of whatever id; the
\* pages of the last one may lie outside of the candidate directory.
TakeReport(c, r, j) ==
  /\ wiki[r] \in {"wiki_running", "wiki_generated"}
  /\ \E kind \in {"completed", "failed", "pages", "outside"} :
       /\ Take(c, kind, r, j)
       /\ crossed' = IF kind = "pages" /\ PagesOf(r) # {} THEN crossed \cup {r} ELSE crossed

-----------------------------------------------------------------------------
(* ... and then, in a transaction of its own, the row is updated.          *)

\* The state a report leads to.
Outcome ==
  [started |-> "wiki_running", completed |-> "wiki_generated",
   failed |-> "wiki_validation_failed", outside |-> "wiki_validation_failed",
   written |-> "ready_for_review"]

\* write_json(manifest_path, manifest)
WriteManifest(c) ==
  /\ call[c].kind = "pages"
  /\ manifest' = [manifest EXCEPT ![call[c].run] = call[c].job]
  /\ call' = [call EXCEPT ![c].kind = "written"]
  /\ UNCHANGED <<vars, wiki, job, crossed, boardVars, faults>>

\* Mutant: the row is updated first, and the file is left to a later step.
RecordBeforeFile(c) ==
  /\ call[c].kind \in {"started", "completed", "failed", "outside", "pages", "written"}
  /\ wiki' = [wiki EXCEPT ![call[c].run] =
                IF call[c].kind = "pages" THEN "ready_for_review" ELSE Outcome[call[c].kind]]
  /\ job' = [job EXCEPT ![call[c].run] = IF call[c].kind = "outside" THEN @ ELSE call[c].job]
  /\ call' = [call EXCEPT ![c] = NoCall]
  /\ UNCHANGED <<vars, manifest, crossed, boardVars, faults>>

\* update_run; the one for pages outside of the directory keeps the job.
Record(c) ==
  /\ call[c].kind \in DOMAIN Outcome
  /\ wiki' = [wiki EXCEPT ![call[c].run] = Outcome[call[c].kind]]
  /\ job' = [job EXCEPT ![call[c].run] = IF call[c].kind = "outside" THEN @ ELSE call[c].job]
  /\ call' = [call EXCEPT ![c] = NoCall]
  /\ UNCHANGED <<vars, manifest, crossed, boardVars, faults>>

\* The transaction or the write raises: the request ends with an error.
RecordFails(c) ==
  /\ call[c] # NoCall
  /\ faults < MaxFaults
  /\ faults' = faults + 1
  /\ call' = [call EXCEPT ![c] = NoCall]
  /\ UNCHANGED <<vars, wiki, job, manifest, crossed, boardVars>>

-----------------------------------------------------------------------------

PNext ==
  \/ Boot \/ Kill \/ WorkerStep
  \/ \E r \in Runs : EnqueueRun(r)
  \/ \E t \in Threads : ReadRows(t) \/ WriteBoard(t) \/ RefreshFails(t)
  \/ \E c \in Callers, r \in Runs :
       \/ SubmitRun(c, r) \/ RetryRun(c, r)
       \/ \E j \in Jobs : TakeStarted(c, r, j) \/ TakeReport(c, r, j)
  \/ \E c \in Callers : WriteManifest(c) \/ Record(c) \/ RecordFails(c)

PSpec == PInit /\ [][PNext]_pVars

-----------------------------------------------------------------------------
(* Properties.                                                             *)

\* No wiki job is recorded of a run before all of its stages have passed, even
\* when a retry or a failing attempt comes between the check of the status and
\* the update (api.py: _require_wiki_ready and the four handlers).
WikiOnPassedRuns ==
  \A r \in Runs : wiki[r] # "none" => \A s \in Stages : rows[r][s] = "passed"

\* A run offered for review has its page manifest on disk, and unless two page
\* manifests of the run were taken in at the same time, the file names the job
\* that the row names, whatever late reports of other jobs do
\* (submit_generated_page_manifest: the file, then the row).
ReviewHasManifest ==
  \A r \in Runs : wiki[r] = "ready_for_review" =>
    manifest[r] # NoJob /\ (r \in crossed \/ manifest[r] = job[r])

\* When no refresh is under way, the board tells of every settled run among the
\* newest BoardSize how it ended, unless the last refresh was lost or two of them
\* crossed.  The refreshes of submit_run, export.run and execute_run are all that
\* is needed, although the scheduler's new runs move older ones off the list.
BoardTellsOutcome ==
  doubt \/ (\E t \in Threads : Refreshing(t))
    \/ \A r \in Runs : status[r] \in Settled /\ Shown(r) => board[r] = GroupOf[status[r]]

=============================================================================
