----------------------- MODULE RefreshScheduler_proofs -----------------------
(***************************************************************************)
(* The scheduler beside the worker: what was proved of the queue still     *)
(* holds, and the scheduler's own promise, for every number of sources,    *)
(* runs, crashes and database errors.                                      *)
(***************************************************************************)
EXTENDS RefreshScheduler, PipelineRuns_proofs

\* Every step of the composed system is a step of the queue or leaves it alone.
LEMMA StepOfQueue == [MNext]_allVars => [Next]_vars
<1> USE DEF Next, Work
<1>1. CASE Boot
  BY <1>1 DEF Boot
<1>2. CASE Kill
  BY <1>2 DEF Kill
<1>3. CASE Client
  BY <1>3 DEF Client
<1>4. CASE Worker
  BY <1>4 DEF Worker, Acquired
<1>5. CASE WorkerDbError
  BY <1>5 DEF WorkerDbError
<1>6. CASE \E s \in Sources : TimePasses(s)
  BY <1>6 DEF TimePasses
<1>7. CASE Scheduler
  BY <1>7 DEF Scheduler, Poll, Reschedule, EndPoll, LookUp, Create
<1>8. CASE SchedDbError
  BY <1>8 DEF SchedDbError
<1>9. CASE UNCHANGED allVars
  BY <1>9 DEF allVars
<1>10. QED
  BY <1>1, <1>2, <1>3, <1>4, <1>5, <1>6, <1>7, <1>8, <1>9 DEF MNext

\* The queue inside the composed system is the queue of PipelineRuns, so that
\* every theorem about Spec is one about MSpec.
THEOREM QueueUnchanged == MSpec => Spec
<1>1. MInit => Init
  BY DEF MInit
<1>2. QED
  BY <1>1, StepOfQueue, PTL DEF MSpec, Spec

-----------------------------------------------------------------------------
(* OneRefreshPerSource is not inductive: two facts about the scheduler's   *)
(* place are missing, and one about the runs it has created.               *)

\* The look-up stays good until the insert: nothing but a client can make an
\* existing run of the source active again.
LookUpHolds ==
  sched = "create" =>
    \A r \in maintained \ requeued : Repo[r] = target => status[r] \notin Active

\* A run that was created or retried has a row.
HistoryHasRows == \A r \in maintained \cup requeued : status[r] # "absent"

SchedInv ==
  /\ SchedTypeOK
  /\ LookUpHolds
  /\ HistoryHasRows
  /\ OneRefreshPerSource

LEMMA SchedInit == MInit => SchedInv
BY SourcesAssumption, SchedBoundAssumption
DEF MInit, Init, SchedInv, SchedTypeOK, SchedPlaces, InBatch, LookUpHolds, HistoryHasRows,
    OneRefreshPerSource

\* How the worker moves a status: no row appears or goes, and a run that is
\* active afterwards was active before.
LEMMA WorkerMoves ==
  ASSUME IInv, Worker \/ WorkerDbError, NEW r \in Runs
  PROVE  /\ status[r] # "absent" => status'[r] # "absent"
         /\ status'[r] \in Active => status[r] \in Active
<1> USE DEF Active
<1>1. TypeOK /\ HoldsRun /\ HeldIsLive
  BY DEF IInv
<1>2. CASE WorkerDbError
  BY <1>2 DEF WorkerDbError, DbError, runVars
<1>3. CASE \E q \in Runs : Claim(q)
  BY <1>1, <1>3 DEF Claim, Oldest, TypeOK
<1>4. CASE BeginStage
  BY <1>1, <1>4 DEF BeginStage, HoldsRun, HeldIsLive, Holding, TypeOK
<1>5. CASE CloseFailed \/ Finish \/ AbortRun
  BY <1>1, <1>5 DEF CloseFailed, Finish, AbortRun, HoldsRun, Holding, TypeOK
<1>6. CASE SkipStage \/ MarkRunning \/ PassStage \/ FailStage \/ RunStage
  BY <1>6 DEF SkipStage, MarkRunning, PassStage, FailStage, RunStage, runVars
<1>7. QED
  BY <1>2, <1>3, <1>4, <1>5, <1>6 DEF Worker, Acquired

\* A step that leaves the scheduler's place and its runs alone, and makes no
\* run active that was not, keeps the promise.
LEMMA QuietStep ==
  ASSUME SchedInv, SchedTypeOK',
         UNCHANGED <<maintained, requeued>>,
         \A r \in Runs : /\ status[r] # "absent" => status'[r] # "absent"
                         /\ status'[r] \in Active => status[r] \in Active \/ r \notin maintained,
         sched' # "create" \/ UNCHANGED <<sched, target>>
  PROVE  SchedInv'
BY DEF SchedInv, SchedTypeOK, LookUpHolds, HistoryHasRows, OneRefreshPerSource

LEMMA SchedStep == IInv /\ SchedInv /\ [MNext]_allVars => SchedInv'
<1> SUFFICES ASSUME IInv, SchedInv, [MNext]_allVars PROVE SchedInv'
  OBVIOUS
<1>a. SchedTypeOK /\ TypeOK
  BY DEF SchedInv, IInv
<1> USE SchedBoundAssumption DEF SchedTypeOK, SchedPlaces, InBatch
<1>1. CASE Boot
  BY <1>1, <1>a, QuietStep DEF Boot, Start, runVars
<1>2. CASE Kill
  BY <1>2, <1>a, QuietStep DEF Kill, Crash, runVars
<1>3. ASSUME NEW r \in Runs, Submit(r), UNCHANGED schedVars PROVE SchedInv'
  <2>1. r \notin maintained
    BY <1>3 DEF Submit, SchedInv, HistoryHasRows
  <2>2. QED
    BY <1>3, <2>1, <1>a, QuietStep DEF Submit, schedVars, TypeOK, Statuses
<1>4. ASSUME NEW r \in Runs, Retry(r), requeued' = requeued \cup {r},
             UNCHANGED <<refresh, sched, batch, target, maintained, schedErrors>>
      PROVE  SchedInv'
  BY <1>4, <1>a
  DEF Retry, TypeOK, SchedInv, LookUpHolds, HistoryHasRows, OneRefreshPerSource
<1>5. CASE Worker \/ WorkerDbError
  <2>1. SchedTypeOK' /\ UNCHANGED <<sched, target, maintained, requeued>>
    BY <1>5, <1>a DEF Worker, Acquired, WorkerDbError, schedVars
  <2>2. QED
    BY <1>5, <2>1, WorkerMoves, QuietStep
<1>6. ASSUME NEW s \in Sources, TimePasses(s) PROVE SchedInv'
  BY <1>6, <1>a, QuietStep DEF TimePasses, vars, runVars
<1>7. CASE Poll \/ EndPoll \/ Reschedule
  BY <1>7, <1>a, QuietStep DEF Poll, EndPoll, Reschedule, vars, runVars
<1>8. ASSUME NEW s \in Sources, LookUp(s) PROVE SchedInv'
  BY <1>8, <1>a
  DEF LookUp, Busy, RunsOf, vars, runVars, SchedInv, LookUpHolds, HistoryHasRows,
      OneRefreshPerSource
<1>9. ASSUME NEW r \in Runs, Create(r) PROVE SchedInv'
  <2>1. r \notin maintained /\ r \notin requeued
    BY <1>9 DEF Create, Submit, SchedInv, HistoryHasRows
  <2>2. \A q \in Runs : q # r => status'[q] = status[q]
    BY <1>9, <1>a DEF Create, Submit, TypeOK
  <2>3. status'[r] = "queued"
    BY <1>9, <1>a DEF Create, Submit, TypeOK
  <2>4. \A q \in maintained \ requeued : Repo[q] = Repo[r] => status[q] \notin Active
    BY <1>9 DEF Create, SchedInv, LookUpHolds
  <2>5. OneRefreshPerSource'
    BY <1>9, <2>1, <2>2, <2>4, <1>a DEF Create, SchedInv, OneRefreshPerSource
  <2>6. QED
    BY <1>9, <2>2, <2>3, <2>5, <1>a DEF Create, SchedInv, LookUpHolds, HistoryHasRows
<1>10. CASE SchedDbError
  BY <1>10, <1>a, QuietStep DEF SchedDbError, vars, runVars
<1>11. CASE UNCHANGED allVars
  BY <1>11, <1>a, QuietStep DEF allVars, vars, runVars, schedVars
<1>12. QED
  BY <1>1, <1>2, <1>3, <1>4, <1>5, <1>6, <1>7, <1>8, <1>9, <1>10, <1>11
  DEF MNext, Client, Scheduler

\* What is proved of the scheduler rests on what is proved of the queue.
THEOREM SchedInvariant == MSpec => [](IInv /\ SchedInv)
<1>1. MInit => Init
  BY DEF MInit
<1>2. IInv /\ SchedInv /\ [MNext]_allVars => (IInv /\ SchedInv)'
  BY StepOfQueue, StepInvariant, SchedStep
<1>3. QED
  BY <1>1, <1>2, InitInvariant, SchedInit, PTL DEF MSpec

\* Every variable of the scheduler keeps its type: a new date is one of the three
\* kinds, and every row it holds is a source.
THEOREM SchedTypeCorrect == MSpec => []SchedTypeOK
<1>1. SchedInv => SchedTypeOK
  BY DEF SchedInv
<1>2. QED
  BY SchedInvariant, <1>1, PTL

\* The scheduler never has two refreshes of a source under way that no client
\* has put back on the queue.
THEOREM OneRefresh == MSpec => []OneRefreshPerSource
<1>1. SchedInv => OneRefreshPerSource
  BY DEF SchedInv
<1>2. QED
  BY SchedInvariant, <1>1, PTL

-----------------------------------------------------------------------------
(* A check of the due sources, row by row.                                 *)

\* The row at hand stays in the batch until it is done with.
TargetIsInBatch == sched \in {"create", "date"} => target \in batch

\* Between two checks, and in a process that is down, no row is left over.
RowsOfACheck ==
  /\ TargetIsInBatch
  /\ pc = "down" => sched = "down"
  /\ sched \notin InBatch => batch = {}

LEMMA RowsOfACheckInit == MInit => RowsOfACheck
BY DEF MInit, Init, RowsOfACheck, TargetIsInBatch, InBatch

LEMMA RowsOfACheckStep == RowsOfACheck /\ [MNext]_allVars => RowsOfACheck'
<1> SUFFICES ASSUME RowsOfACheck, [MNext]_allVars PROVE RowsOfACheck'
  OBVIOUS
<1> USE DEF RowsOfACheck, TargetIsInBatch, InBatch
<1>1. CASE Boot
  BY <1>1 DEF Boot, Start
<1>2. CASE Kill
  BY <1>2 DEF Kill
<1>3. CASE Client \/ Worker \/ WorkerDbError
  <2>1. sched' = sched /\ batch' = batch /\ target' = target
    BY <1>3 DEF Client, Worker, Acquired, WorkerDbError, schedVars
  <2>2. pc' = "down" => pc = "down"
    BY <1>3 DEF Client, Worker, Acquired, WorkerDbError, DbError, Handler, Submit, Retry, Claim,
       SkipStage, BeginStage, MarkRunning, RunStage, PassStage, FailStage, CloseFailed, Finish,
       AbortRun, workerVars
  <2>3. QED
    BY <2>1, <2>2
<1>4. CASE \E s \in Sources : TimePasses(s)
  BY <1>4 DEF TimePasses, vars, workerVars
<1>5. CASE Poll
  BY <1>5 DEF Poll, vars, workerVars
<1>6. CASE Reschedule \/ EndPoll
  BY <1>6 DEF Reschedule, EndPoll, vars, workerVars
<1>7. ASSUME NEW s \in Sources, LookUp(s) PROVE RowsOfACheck'
  BY <1>7 DEF LookUp, vars, workerVars
<1>8. ASSUME NEW r \in Runs, Create(r) PROVE RowsOfACheck'
  BY <1>8 DEF Create, Submit, workerVars
<1>9. CASE SchedDbError
  BY <1>9 DEF SchedDbError, vars, workerVars
<1>10. CASE UNCHANGED allVars
  BY <1>10 DEF allVars, vars, workerVars, schedVars
<1>11. QED
  BY <1>1, <1>2, <1>3, <1>4, <1>5, <1>6, <1>7, <1>8, <1>9, <1>10 DEF MNext, Scheduler

LEMMA RowsOfACheckHold == MSpec => []RowsOfACheck
BY RowsOfACheckInit, RowsOfACheckStep, PTL DEF MSpec

\* A row that a check has read is done with only when its source is dated anew
\* or has a run under way; else a transaction has failed or the process has died
\* (maintenance.py: check_due_sources, enqueue_refresh).
THEOREM DueRowsAreDealtWith ==
  MSpec => [][\A s \in batch \ batch' :
                \/ Busy(s)
                \/ refresh'[s] = "future"
                \/ schedErrors' = schedErrors + 1
                \/ crashes' = crashes + 1]_allVars
<1> DEFINE Dealt(s) ==
      \/ Busy(s)
      \/ refresh'[s] = "future"
      \/ schedErrors' = schedErrors + 1
      \/ crashes' = crashes + 1
<1>1. ASSUME SchedTypeOK, RowsOfACheck, [MNext]_allVars, NEW s \in batch \ batch'
      PROVE  Dealt(s)
  <2>1. CASE Boot \/ Client \/ Worker \/ WorkerDbError \/ \E q \in Sources : TimePasses(q)
    BY <1>1, <2>1 DEF Boot, Client, Worker, Acquired, WorkerDbError, TimePasses, schedVars
  <2>2. CASE Kill
    BY <2>2 DEF Kill, Crash
  <2>3. CASE Poll \/ EndPoll
    BY <1>1, <2>3 DEF Poll, EndPoll, RowsOfACheck, InBatch
  <2>4. ASSUME NEW q \in Sources, LookUp(q) PROVE Dealt(s)
    BY <1>1, <2>4 DEF LookUp
  <2>5. ASSUME NEW r \in Runs, Create(r) PROVE Dealt(s)
    BY <1>1, <2>5 DEF Create
  <2>6. CASE Reschedule
    BY <1>1, <2>6 DEF Reschedule, SchedTypeOK
  <2>7. CASE SchedDbError
    BY <2>7 DEF SchedDbError
  <2>8. CASE UNCHANGED allVars
    BY <1>1, <2>8 DEF allVars, schedVars
  <2>9. QED
    BY <1>1, <2>1, <2>2, <2>3, <2>4, <2>5, <2>6, <2>7, <2>8 DEF MNext, Scheduler
<1>2. SchedInv => SchedTypeOK
  BY DEF SchedInv
<1>3. SchedTypeOK /\ RowsOfACheck /\ [MNext]_allVars => [\A s \in batch \ batch' : Dealt(s)]_allVars
  BY <1>1
<1>4. QED
  BY <1>2, <1>3, SchedInvariant, RowsOfACheckHold, PTL DEF MSpec

\* A check ends: each of its steps goes on with the row at hand or takes the row
\* from the batch, and none adds a row, failed transactions included.  With the
\* scheduler being run this is why one poll cannot keep the next one away
\* (maintenance.py: the loop of check_due_sources).
THEOREM ChecksAdvance ==
  MSpec => [][(Scheduler \/ SchedDbError) /\ sched \in InBatch
               => \/ sched' = "sleep"
                  \/ batch' \subseteq batch /\ batch' # batch
                  \/ /\ batch' = batch
                     /\ <<sched, sched'>> \in {<<"check", "create">>, <<"create", "date">>}]_allVars
<1> DEFINE Advances ==
      \/ sched' = "sleep"
      \/ batch' \subseteq batch /\ batch' # batch
      \/ batch' = batch /\ <<sched, sched'>> \in {<<"check", "create">>, <<"create", "date">>}
<1>1. ASSUME TargetIsInBatch, Scheduler \/ SchedDbError, sched \in InBatch PROVE Advances
  <2>1. CASE Poll \/ EndPoll
    BY <1>1, <2>1 DEF Poll, EndPoll, InBatch
  <2>2. ASSUME NEW s \in Sources, LookUp(s) PROVE Advances
    BY <2>2 DEF LookUp
  <2>3. ASSUME NEW r \in Runs, Create(r) PROVE Advances
    BY <2>3 DEF Create
  <2>4. CASE Reschedule
    BY <1>1, <2>4 DEF Reschedule, TargetIsInBatch
  <2>5. CASE SchedDbError
    BY <1>1, <2>5 DEF SchedDbError, TargetIsInBatch, InBatch
  <2>6. QED
    BY <1>1, <2>1, <2>2, <2>3, <2>4, <2>5 DEF Scheduler
<1>2. RowsOfACheck => TargetIsInBatch
  BY DEF RowsOfACheck
<1>3. TargetIsInBatch => [(Scheduler \/ SchedDbError) /\ sched \in InBatch => Advances]_allVars
  BY <1>1
<1>4. QED
  BY <1>2, <1>3, RowsOfACheckHold, PTL DEF MSpec

=============================================================================
