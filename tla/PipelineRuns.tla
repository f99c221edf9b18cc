---------------------------- MODULE PipelineRuns ----------------------------
(***************************************************************************)
(* The run queue of the knowledge pipeline and the single worker that      *)
(* executes it (pipeline/runner.py), over the two tables that hold its     *)
(* state, runs and stage_results (pipeline/db.py), with the HTTP handlers  *)
(* that create and retry runs (pipeline/api.py).                           *)
(*                                                                         *)
(* Every connect() block of db.py is one transaction, so one action here   *)
(* is one transaction of the code together with the worker's local step up *)
(* to the next one.  Handlers run on other threads and interleave between  *)
(* any two of them.  The process may be killed between any two actions,    *)
(* and any transaction of the worker may raise.                            *)
(***************************************************************************)
EXTENDS Naturals, Sequences

CONSTANTS
  Runs,          \* the run ids that create_run may hand out
  NoRun,         \* the worker holds no run
  Plan,          \* the keys of cfg["stages"], in file order
  FlakyStages,   \* stages that may raise an exception
  MaxCrashes,    \* bound: how often the process is killed
  MaxDbErrors    \* bound: how often a transaction of the worker raises

\* The stages the runner knows; cfg["stages"] may name others, which it skips.
StageFunctions ==
  {"acquire", "integrity", "normalize", "lint", "curate", "syntax", "structure",
   "semantics", "retrieval", "vector", "audit", "export"}

Stages == {s \in StageFunctions : \E i \in 1..Len(Plan) : Plan[i] = s}

ASSUME PlanAssumption ==
  /\ Plan \in Seq(STRING)
  /\ \A i, j \in 1..Len(Plan) : Plan[i] = Plan[j] => i = j
ASSUME RunsAssumption == NoRun \notin Runs
ASSUME BoundsAssumption == MaxCrashes \in Nat /\ MaxDbErrors \in Nat

VARIABLES
  status,      \* runs.status, "absent" while there is no row
  createdAt,   \* runs.created_at, 0 while there is no row
  stage,       \* runs.current_stage
  completed,   \* runs.completed_at IS NOT NULL
  rows,        \* stage_results.status of each run and stage
  pc,          \* where the worker task stands
  run,         \* the run that execute_run is working on
  at,          \* its position in the plan
  clock,       \* the wall clock, as far as created_at tells
  crashes,     \* kills so far
  dbErrors     \* transactions of the worker that raised so far

runVars == <<status, createdAt, stage, completed, rows>>
workerVars == <<pc, run, at>>
vars == <<runVars, workerVars, clock, crashes, dbErrors>>

Statuses == {"absent", "queued", "running", "failed", "ready_for_wiki"}
Settled == {"failed", "ready_for_wiki"}
RowStates == {"absent", "running", "passed", "failed"}

(***************************************************************************)
(* Where the worker stands.  down: no process; idle: worker_loop, between  *)
(* two runs; next: head of the stage loop; mark: before set_stage running; *)
(* exec: in the stage function; save: before set_stage passed; fail:       *)
(* before set_stage failed; close: before update_run failed; outer: in the *)
(* outer exception handler; dead: the task ended with an exception, which  *)
(* nothing observes while the process goes on.                             *)
(***************************************************************************)
Holding == {"next", "mark", "exec", "save", "fail", "close", "outer"}
PCs == Holding \cup {"down", "idle", "dead"}

TypeOK ==
  /\ status \in [Runs -> Statuses]
  /\ createdAt \in [Runs -> Nat]
  /\ stage \in [Runs -> Stages \cup {"none", "complete"}]
  /\ completed \in [Runs -> BOOLEAN]
  /\ rows \in [Runs -> [Stages -> RowStates]]
  /\ pc \in PCs
  /\ run \in Runs \cup {NoRun}
  /\ at \in 1..(Len(Plan) + 1)
  /\ clock \in Nat
  /\ crashes \in 0..MaxCrashes
  /\ dbErrors \in 0..MaxDbErrors

Init ==
  /\ status = [r \in Runs |-> "absent"]
  /\ createdAt = [r \in Runs |-> 0]
  /\ stage = [r \in Runs |-> "none"]
  /\ completed = [r \in Runs |-> FALSE]
  /\ rows = [r \in Runs |-> [s \in Stages |-> "absent"]]
  /\ pc = "down" /\ run = NoRun /\ at = 1
  /\ clock = 0 /\ crashes = 0 /\ dbErrors = 0

-----------------------------------------------------------------------------
(* The process and its HTTP handlers.                                      *)

\* lifespan starts the worker task; nothing repairs rows of an earlier life.
Start ==
  /\ pc = "down"
  /\ pc' = "idle"
  /\ UNCHANGED <<runVars, run, at, clock, crashes, dbErrors>>

\* The process is killed; the committed rows survive, the worker's place is lost.
Crash ==
  /\ pc # "down"
  /\ crashes < MaxCrashes
  /\ crashes' = crashes + 1
  /\ pc' = "down" /\ run' = NoRun /\ at' = 1
  /\ UNCHANGED <<runVars, clock, dbErrors>>

\* POST /runs: create_run inserts a queued row.
Submit(r) ==
  /\ pc # "down"
  /\ status[r] = "absent"
  /\ status' = [status EXCEPT ![r] = "queued"]
  /\ clock' = clock + 1
  /\ createdAt' = [createdAt EXCEPT ![r] = clock']
  /\ UNCHANGED <<stage, completed, rows, workerVars, crashes, dbErrors>>

\* Mutant: the retry leaves completed_at of the earlier attempt.
RetryKeepsCompletion(r) ==
  /\ pc # "down"
  /\ status[r] # "absent"
  /\ status' = [status EXCEPT ![r] = "queued"]
  /\ stage' = [stage EXCEPT ![r] = "none"]
  /\ UNCHANGED <<createdAt, completed, rows, workerVars, clock, crashes, dbErrors>>

\* Mutant: the retry writes a status into the stage column.
RetryNamesNoStage(r) ==
  /\ pc # "down"
  /\ status[r] # "absent"
  /\ status' = [status EXCEPT ![r] = "queued"]
  /\ stage' = [stage EXCEPT ![r] = "queued"]
  /\ completed' = [completed EXCEPT ![r] = FALSE]
  /\ UNCHANGED <<createdAt, rows, workerVars, clock, crashes, dbErrors>>

\* POST /runs/{run_id}/retry: any existing run, whatever its status.
Retry(r) ==
  /\ pc # "down"
  /\ status[r] # "absent"
  /\ status' = [status EXCEPT ![r] = "queued"]
  /\ stage' = [stage EXCEPT ![r] = "none"]
  /\ completed' = [completed EXCEPT ![r] = FALSE]
  /\ UNCHANGED <<createdAt, rows, workerVars, clock, crashes, dbErrors>>

-----------------------------------------------------------------------------
(* The worker: worker_loop and execute_run.                                *)

Release == run' = NoRun /\ at' = 1

Oldest(r) ==
  /\ status[r] = "queued"
  /\ \A q \in Runs : status[q] = "queued" => createdAt[r] <= createdAt[q]

\* Mutant: a second worker claims while the first is still busy.
ClaimWhileBusy(r) ==
  /\ pc # "down"
  /\ Oldest(r)
  /\ status' = [status EXCEPT ![r] = "running"]
  /\ pc' = "next" /\ run' = r /\ at' = 1
  /\ UNCHANGED <<createdAt, stage, completed, rows, clock, crashes, dbErrors>>

\* claim_next_run: select the oldest queued row and set it running.
Claim(r) ==
  /\ pc = "idle"
  /\ Oldest(r)
  /\ status' = [status EXCEPT ![r] = "running"]
  /\ pc' = "next" /\ run' = r /\ at' = 1
  /\ UNCHANGED <<createdAt, stage, completed, rows, clock, crashes, dbErrors>>

\* Mutant: any earlier attempt at the stage counts as done.
SkipAttempted(i) == Plan[i] \in Stages => rows[run][Plan[i]] # "absent"

\* Mutant: a retry runs the plan from the beginning.
SkipNothing(i) == Plan[i] \notin Stages

\* A plan entry that needs no work: no such function, or passed already.
Skippable(i) == Plan[i] \in Stages => rows[run][Plan[i]] = "passed"

SkipStage ==
  /\ pc = "next"
  /\ at <= Len(Plan)
  /\ Skippable(at)
  /\ at' = at + 1
  /\ UNCHANGED <<runVars, pc, run, clock, crashes, dbErrors>>

\* get_run, then update_run(running): overwrites whatever status the row has.
BeginStage ==
  /\ pc = "next"
  /\ at <= Len(Plan)
  /\ ~ Skippable(at)
  /\ status' = [status EXCEPT ![run] = "running"]
  /\ stage' = [stage EXCEPT ![run] = Plan[at]]
  /\ completed' = [completed EXCEPT ![run] = FALSE]
  /\ pc' = "mark"
  /\ UNCHANGED <<createdAt, rows, run, at, clock, crashes, dbErrors>>

SetStage(value) == rows' = [rows EXCEPT ![run][Plan[at]] = value]

\* set_stage(running)
MarkRunning ==
  /\ pc = "mark"
  /\ SetStage("running")
  /\ pc' = "exec"
  /\ UNCHANGED <<status, createdAt, stage, completed, run, at, clock, crashes, dbErrors>>

\* STAGE_FUNCTIONS[stage](run): only an exception matters to the runner, which
\* never looks at the verdict of the report it gets.  audit.run names a variable
\* it never assigned before it records its verdict, so it raises whatever its
\* checks found.
RunStage ==
  /\ pc = "exec"
  /\ \/ Plan[at] \in FlakyStages \cup {"audit"} /\ pc' = "fail"
     \/ Plan[at] # "audit" /\ pc' = "save"
  /\ UNCHANGED <<runVars, run, at, clock, crashes, dbErrors>>

\* set_stage(passed), then on to the next plan entry
PassStage ==
  /\ pc = "save"
  /\ SetStage("passed")
  /\ pc' = "next" /\ at' = at + 1
  /\ UNCHANGED <<status, createdAt, stage, completed, run, clock, crashes, dbErrors>>

\* Mutant: the error path returns between its two updates.
FailStageReturns ==
  /\ pc = "fail"
  /\ SetStage("failed")
  /\ pc' = "idle" /\ Release
  /\ UNCHANGED <<status, createdAt, stage, completed, clock, crashes, dbErrors>>

\* set_stage(failed)
FailStage ==
  /\ pc = "fail"
  /\ SetStage("failed")
  /\ pc' = "close"
  /\ UNCHANGED <<status, createdAt, stage, completed, run, at, clock, crashes, dbErrors>>

\* Mutant: the loop goes on after a failed stage.
CloseFailedGoesOn ==
  /\ pc = "close"
  /\ status' = [status EXCEPT ![run] = "failed"]
  /\ stage' = [stage EXCEPT ![run] = Plan[at]]
  /\ pc' = "next" /\ at' = at + 1
  /\ UNCHANGED <<createdAt, completed, rows, run, clock, crashes, dbErrors>>

\* Mutant: the stage named by update_run(running) is taken to be still there.
CloseFailedKeepsStage ==
  /\ pc = "close"
  /\ status' = [status EXCEPT ![run] = "failed"]
  /\ pc' = "idle" /\ Release
  /\ UNCHANGED <<createdAt, stage, completed, rows, clock, crashes, dbErrors>>

\* update_run(failed, current_stage) and return
CloseFailed ==
  /\ pc = "close"
  /\ status' = [status EXCEPT ![run] = "failed"]
  /\ stage' = [stage EXCEPT ![run] = Plan[at]]
  /\ pc' = "idle" /\ Release
  /\ UNCHANGED <<createdAt, completed, rows, clock, crashes, dbErrors>>

\* Mutant: the loop stops one entry short.
FinishEarly ==
  /\ pc = "next"
  /\ at = Len(Plan)
  /\ status' = [status EXCEPT ![run] = "ready_for_wiki"]
  /\ stage' = [stage EXCEPT ![run] = "complete"]
  /\ completed' = [completed EXCEPT ![run] = TRUE]
  /\ pc' = "idle" /\ Release
  /\ UNCHANGED <<createdAt, rows, clock, crashes, dbErrors>>

\* The loop is over: update_run(ready_for_wiki, complete, completed_at)
Finish ==
  /\ pc = "next"
  /\ at = Len(Plan) + 1
  /\ status' = [status EXCEPT ![run] = "ready_for_wiki"]
  /\ stage' = [stage EXCEPT ![run] = "complete"]
  /\ completed' = [completed EXCEPT ![run] = TRUE]
  /\ pc' = "idle" /\ Release
  /\ UNCHANGED <<createdAt, rows, clock, crashes, dbErrors>>

\* Mutant: the outer handler only logs the exception.
AbortRunSilently ==
  /\ pc = "outer"
  /\ pc' = "idle" /\ Release
  /\ UNCHANGED <<runVars, clock, crashes, dbErrors>>

\* The outer handler: update_run(failed) and return
AbortRun ==
  /\ pc = "outer"
  /\ status' = [status EXCEPT ![run] = "failed"]
  /\ pc' = "idle" /\ Release
  /\ UNCHANGED <<createdAt, stage, completed, rows, clock, crashes, dbErrors>>

\* Where an exception of the transaction the worker is about to make leads.
\* In worker_loop and in the outer handler nothing catches it: the task ends.
Handler(p) ==
  IF p \in {"idle", "outer"} THEN "dead" ELSE IF p = "save" THEN "fail" ELSE "outer"

DbError ==
  /\ pc \in (Holding \ {"exec"}) \cup {"idle"}
  /\ dbErrors < MaxDbErrors
  /\ dbErrors' = dbErrors + 1
  /\ pc' = Handler(pc)
  /\ IF pc' = "dead" THEN Release ELSE UNCHANGED <<run, at>>
  /\ UNCHANGED <<runVars, clock, crashes>>

-----------------------------------------------------------------------------

Work ==
  \/ \E r \in Runs : Claim(r)
  \/ SkipStage \/ BeginStage \/ MarkRunning \/ RunStage
  \/ PassStage \/ FailStage \/ CloseFailed \/ Finish \/ AbortRun

Next ==
  \/ Start \/ Crash \/ DbError
  \/ \E r \in Runs : Submit(r) \/ Retry(r)
  \/ Work

Spec == Init /\ [][Next]_vars

\* The container is restarted when it ends, the event loop keeps polling the
\* queue, and every command a stage runs has a timeout.
Fairness == WF_vars(Start) /\ WF_vars(Work)
FairSpec == Spec /\ Fairness

-----------------------------------------------------------------------------
(* Properties.                                                             *)

\* A run is published only when every stage of the plan has passed, however
\* its retries, crashes and database errors fell (runner.py: the loop of
\* execute_run and the update after it).
ReadyMeansPlanPassed ==
  \A r \in Runs : status[r] = "ready_for_wiki" => \A s \in Stages : rows[r][s] = "passed"

\* A stage is entered only when every stage before it has passed, in this
\* attempt or in an earlier one (runner.py: stages are resumed, not restarted).
StagesInOrder ==
  \A r \in Runs : \A j \in 1..Len(Plan) : \A i \in 1..(j - 1) :
    Plan[i] \in Stages /\ Plan[j] \in Stages /\ rows[r][Plan[j]] # "absent"
      => rows[r][Plan[i]] = "passed"

\* The worker never holds a run that is settled: a retry of a failed or ready
\* run is therefore never swallowed by the attempt that is ending.
SettledIsReleased == \A r \in Runs : status[r] \in Settled => run # r

\* A row says running without the worker holding its run only after a kill of
\* the process or the death of the worker task.
RunningIsHeld ==
  \A r \in Runs : status[r] = "running" /\ run # r => crashes > 0 \/ pc = "dead"

\* While no transaction has failed, a failed run names the stage that failed
\* and that stage's row says so: the two updates of the error path agree.
FailureNamesStage ==
  dbErrors = 0 => \A r \in Runs : status[r] = "failed" =>
    stage[r] \in Stages /\ rows[r][stage[r]] = "failed"

\* completed_at, by which search.py ranks the runs of a source, is set exactly
\* on the published runs.
CompletedIffReady == \A r \in Runs : completed[r] <=> status[r] = "ready_for_wiki"

\* No step takes a passed stage back or runs it again, retries included.
PassedIsFinal ==
  [][\A r \in Runs : \A s \in Stages : rows[r][s] = "passed" => rows'[r][s] = "passed"]_vars

\* The detailed worker implements the lifecycle the API promises.
Lifecycle == INSTANCE RunLifecycle WITH
  phase <- status,
  done <- [r \in Runs |-> {s \in Stages : rows[r][s] = "passed"}],
  active <- run
ImplementsLifecycle == Lifecycle!Spec

\* While the process lives and its transactions go through, every queued run
\* ends failed or published once clients stop retrying.
EveryRunSettles ==
  [](crashes = 0 /\ dbErrors = 0) /\ <>[][~ \E r \in Runs : Retry(r)]_vars
    => \A r \in Runs : status[r] = "queued" ~> status[r] \in Settled

\* Once clients stop retrying, every queued run gets to the vault export.
EveryRunExported ==
  <>[][~ \E r \in Runs : Retry(r)]_vars
    => \A r \in Runs : status[r] = "queued" ~> rows[r]["export"] = "passed"

=============================================================================
