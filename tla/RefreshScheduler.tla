-------------------------- MODULE RefreshScheduler --------------------------
(***************************************************************************)
(* The refresh scheduler (pipeline/maintenance.py) beside the run queue    *)
(* and its worker: a second task of the same process, which polls the      *)
(* sources table and queues a run for every source that is due.  The       *)
(* acquire stage registers a source and dates its next refresh.            *)
(*                                                                         *)
(* check_due_sources is not one transaction: the due rows are read in one, *)
(* and each of them is looked up, queued and dated anew in three more.     *)
(***************************************************************************)
EXTENDS PipelineRuns

CONSTANTS
  Sources,    \* the repositories
  NoSource,   \* the scheduler works on no source
  Repo,       \* the source of each run, as parsed from its URL
  MaxSchedErrors  \* bound: how often a transaction of the scheduler raises

ASSUME SourcesAssumption == NoSource \notin Sources /\ Repo \in [Runs -> Sources]
ASSUME SchedBoundAssumption == MaxSchedErrors \in Nat

VARIABLES
  refresh,    \* sources.next_refresh_at: none, in the future, or past
  sched,      \* where the scheduler task stands
  batch,      \* the due rows it has read and not yet dealt with
  target,     \* the source between its look-up and its new date
  maintained, \* the runs the scheduler created (runs.trigger)
  requeued,   \* history: the runs that a client has retried
  schedErrors \* transactions of the scheduler that raised so far

schedVars == <<refresh, sched, batch, target, maintained, requeued, schedErrors>>
allVars == <<vars, schedVars>>

SchedPlaces == {"down", "sleep", "check", "create", "date", "dead"}
InBatch == {"check", "create", "date"}

SchedTypeOK ==
  /\ refresh \in [Sources -> {"none", "future", "past"}]
  /\ sched \in SchedPlaces
  /\ batch \in SUBSET Sources
  /\ target \in Sources \cup {NoSource}
  /\ maintained \in SUBSET Runs
  /\ requeued \in SUBSET Runs
  /\ schedErrors \in 0..MaxSchedErrors

Active == {"queued", "running"}
RunsOf(s) == {r \in Runs : Repo[r] = s}

MInit ==
  /\ Init
  /\ refresh = [s \in Sources |-> "none"]
  /\ sched = "down" /\ batch = {} /\ target = NoSource
  /\ maintained = {} /\ requeued = {} /\ schedErrors = 0

-----------------------------------------------------------------------------
(* The queue and the worker, with what they do to the sources table and to *)
(* the process that they share with the scheduler.                         *)

Boot ==
  /\ Start
  /\ sched' = "sleep"
  /\ UNCHANGED <<refresh, batch, target, maintained, requeued, schedErrors>>

Kill ==
  /\ Crash
  /\ sched' = "down" /\ batch' = {} /\ target' = NoSource
  /\ UNCHANGED <<refresh, maintained, requeued, schedErrors>>

Client ==
  \E r \in Runs :
    \/ Submit(r) /\ UNCHANGED schedVars
    \/ /\ Retry(r)
       /\ requeued' = requeued \cup {r}
       /\ UNCHANGED <<refresh, sched, batch, target, maintained, schedErrors>>

\* _record_source_and_run: the source is registered and its next refresh dated
\* before update_run, so that an acquire that raises may have done it too.
Acquired ==
  /\ RunStage
  /\ Plan[at] = "acquire"
  /\ \/ refresh' = [refresh EXCEPT ![Repo[run]] = "future"]
     \/ pc' = "fail" /\ UNCHANGED refresh
  /\ UNCHANGED <<sched, batch, target, maintained, requeued, schedErrors>>

Worker ==
  \/ /\ \/ \E r \in Runs : Claim(r)
        \/ SkipStage \/ BeginStage \/ MarkRunning \/ PassStage
        \/ FailStage \/ CloseFailed \/ Finish \/ AbortRun
        \/ RunStage /\ Plan[at] # "acquire"
     /\ UNCHANGED schedVars
  \/ Acquired

WorkerDbError == DbError /\ UNCHANGED schedVars

-----------------------------------------------------------------------------
(* The scheduler.                                                          *)

\* The date of a source's next refresh goes by.
TimePasses(s) ==
  /\ refresh[s] = "future"
  /\ refresh' = [refresh EXCEPT ![s] = "past"]
  /\ UNCHANGED <<vars, sched, batch, target, maintained, requeued, schedErrors>>

\* check_due_sources: one read of the table; the rest works on these rows.
Poll ==
  /\ sched = "sleep"
  /\ sched' = "check"
  /\ batch' = {s \in Sources : refresh[s] = "past"}
  /\ UNCHANGED <<vars, refresh, target, maintained, requeued, schedErrors>>

\* Mutant: a run that failed counts as one that is still to come.
BusyForever(s) == \E r \in RunsOf(s) : status[r] \in Active \cup {"failed"}

\* Mutant: only the waiting runs are looked up.
BusyQueued(s) == \E r \in RunsOf(s) : status[r] = "queued"

\* enqueue_refresh: SELECT 1 FROM runs WHERE ... status IN ('queued','running')
Busy(s) == \E r \in RunsOf(s) : status[r] \in Active

\* enqueue_refresh: a source with a run under way is left for the next poll.
LookUp(s) ==
  /\ sched = "check"
  /\ s \in batch
  /\ IF Busy(s)
       THEN batch' = batch \ {s} /\ UNCHANGED <<sched, target>>
       ELSE sched' = "create" /\ target' = s /\ UNCHANGED batch
  /\ UNCHANGED <<vars, refresh, maintained, requeued, schedErrors>>

\* create_run(..., "maintainer")
Create(r) ==
  /\ sched = "create"
  /\ Repo[r] = target
  /\ Submit(r)
  /\ maintained' = maintained \cup {r}
  /\ sched' = "date"
  /\ UNCHANGED <<refresh, batch, target, requeued, schedErrors>>

\* Mutant: the place of the scheduler is written into the date column.
DateNoDate ==
  /\ sched = "date"
  /\ refresh' = [refresh EXCEPT ![target] = sched]
  /\ sched' = "check" /\ batch' = batch \ {target} /\ target' = NoSource
  /\ UNCHANGED <<vars, maintained, requeued, schedErrors>>

\* UPDATE sources SET next_refresh_at=?
Reschedule ==
  /\ sched = "date"
  /\ refresh' = [refresh EXCEPT ![target] = "future"]
  /\ sched' = "check" /\ batch' = batch \ {target} /\ target' = NoSource
  /\ UNCHANGED <<vars, maintained, requeued, schedErrors>>

\* No row is left: scheduler_loop waits for the next poll.
EndPoll ==
  /\ sched = "check"
  /\ batch = {}
  /\ sched' = "sleep"
  /\ UNCHANGED <<vars, refresh, batch, target, maintained, requeued, schedErrors>>

\* A transaction of the scheduler raises.  Reading the rows is outside of the
\* try block, and the exception ends the task; the others are logged, and the
\* loop goes on with the next row.
SchedDbError ==
  /\ sched \in {"sleep"} \cup InBatch
  /\ schedErrors < MaxSchedErrors
  /\ schedErrors' = schedErrors + 1
  /\ \/ sched = "sleep" /\ sched' = "dead" /\ UNCHANGED <<batch, target>>
     \/ /\ sched = "check" /\ \E s \in batch : batch' = batch \ {s}
        /\ UNCHANGED <<sched, target>>
     \/ /\ sched \in {"create", "date"}
        /\ sched' = "check" /\ batch' = batch \ {target} /\ target' = NoSource
  /\ UNCHANGED <<vars, refresh, maintained, requeued>>

Scheduler ==
  \/ Poll \/ Reschedule \/ EndPoll
  \/ \E s \in Sources : LookUp(s)
  \/ \E r \in Runs : Create(r)

MNext ==
  \/ Boot \/ Kill \/ Client \/ Worker \/ WorkerDbError
  \/ \E s \in Sources : TimePasses(s)
  \/ Scheduler \/ SchedDbError

MSpec == MInit /\ [][MNext]_allVars

\* The poll is repeated every scheduler_poll_minutes, in a thread of its own.
MFairness == WF_allVars(Boot) /\ WF_allVars(Worker) /\ WF_allVars(Scheduler)
FairMSpec == MSpec /\ MFairness

-----------------------------------------------------------------------------
(* Properties.                                                             *)

\* The scheduler never has two refreshes of a source under way at once, unless
\* a client has put one of them back on the queue: the look-up and the insert
\* are two transactions, and so are the insert and the new date.
OneRefreshPerSource ==
  \A r, q \in maintained \ requeued :
    r # q /\ Repo[r] = Repo[q] => status[r] \notin Active \/ status[q] \notin Active

\* The run ids of the instance are used up for some source.
Exhausted == \E s \in Sources : \A r \in RunsOf(s) : status[r] # "absent"

\* Once clients stop retrying, a source that is due gets a new date, by its
\* scheduled run or by the acquire stage of another one.
DueSourceRefreshed ==
  <>[][~ \E r \in Runs : Retry(r)]_vars
    => \A s \in Sources : refresh[s] = "past" ~> refresh[s] = "future" \/ Exhausted

\* The same, while the process lives and its transactions go through: neither a
\* run that fails nor one that is under way when the source is due keeps it from
\* being dated again (enqueue_refresh).
RefreshGoesOn ==
  [](crashes = 0 /\ dbErrors = 0 /\ schedErrors = 0) => DueSourceRefreshed

=============================================================================
