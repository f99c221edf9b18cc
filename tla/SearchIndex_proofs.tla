------------------------- MODULE SearchIndex_proofs --------------------------
(***************************************************************************)
(* What the vector table holds, for every plan in which normalize comes    *)
(* before vector and every number of runs, commits and faults.             *)
(***************************************************************************)
EXTENDS SearchIndex, PipelineRuns_proofs

\* Every step of the composed system is a step of the queue or leaves it alone.
LEMMA StepOfQueue == [INext]_allVars => [Next]_vars
<1> USE DEF Next, Work
<1>1. CASE Boot \/ Kill \/ Client \/ WorkerDbError
  BY <1>1 DEF Boot, Kill, Client, WorkerDbError
<1>2. CASE Worker
  BY <1>2 DEF Worker, Normalize
<1>3. CASE Vector
  BY <1>3 DEF Vector, ReadUnits, DropTable, CreateTable, EndVector
<1>4. CASE UNCHANGED allVars
  BY <1>4 DEF allVars
<1>5. QED
  BY <1>1, <1>2, <1>3, <1>4 DEF INext

\* The queue beside the index is the queue of PipelineRuns, so that every theorem
\* about Spec is one about ISpec (stages/vector.py writes nothing of the queue).
THEOREM IndexedQueueIsQueue == ISpec => Spec
<1>1. IInit => Init
  BY DEF IInit
<1>2. QED
  BY <1>1, StepOfQueue, PTL DEF ISpec, Spec

LEMMA IndexStages ==
  /\ "normalize" \in Stages /\ "vector" \in Stages
  /\ \E j \in 1..Len(Plan) : \E i \in 1..(j - 1) : Plan[j] = "vector" /\ Plan[i] = "normalize"
BY IndexPlanAssumption, PlanFacts DEF Stages, StageFunctions

-----------------------------------------------------------------------------
(* A published run stays in the table because it is eligible at every      *)
(* rebuild after its own.  The invariant follows such a run: it has unit   *)
(* rows before its vector stage, and from then on it is in the records     *)
(* that a rebuild has read and in the table that it leaves.                *)

Kept(r) ==
  /\ r \notin requeued
  /\ status[r] \in {"running", "ready_for_wiki"}
  /\ rows[r]["vector"] = "passed"

\* The units of a run are written before its normalize stage has passed.
UnitsWritten ==
  /\ \A r \in Runs : rows[r]["normalize"] = "passed" => r \in hasUnits
  /\ pc = "save" /\ Plan[at] = "normalize" => run \in hasUnits

\* A run that no client has retried is fresh until it is claimed, and running
\* while the worker holds it.
FirstAttempt ==
  \A r \in Runs \ requeued :
    /\ status[r] \in {"absent", "queued"} => rows[r]["vector"] = "absent" /\ run # r
    /\ run = r => status[r] = "running"

\* A vector stage that is about to be saved as passed has found the run's commit.
SavedInTable == pc = "save" /\ Plan[at] = "vector" => CommitOf[run] \in table

\* Commits without units of a supported type never pass it.
OnlySearchable ==
  /\ table \subseteq Searchable
  /\ records \subseteq Searchable
  /\ \A r \in Runs : rows[r]["vector"] = "passed" => CommitOf[r] \in Searchable

InTable == exists => \A r \in Runs : Kept(r) => CommitOf[r] \in table

InRecords ==
  rebuild \in {"read", "dropped"} =>
    InVector /\ \A r \in Runs : Kept(r) => CommitOf[r] \in records

IndexInv ==
  /\ IndexTypeOK
  /\ UnitsWritten
  /\ FirstAttempt
  /\ InTable
  /\ InRecords
  /\ SavedInTable
  /\ OnlySearchable

LEMMA IndexInit == IInit => IndexInv
<1> SUFFICES ASSUME IInit PROVE IndexInv
  OBVIOUS
<1>1. \A r \in Runs : rows[r]["vector"] = "absent" /\ rows[r]["normalize"] = "absent"
  BY IndexStages DEF IInit, Init
<1>2. QED
  BY <1>1, RunsAssumption
  DEF IInit, Init, IndexInv, IndexTypeOK, UnitsWritten, FirstAttempt, InTable, InRecords,
      SavedInTable, OnlySearchable, Kept

LEMMA IndexStep == IInv /\ IndexInv /\ [INext]_allVars => IndexInv'
<1> SUFFICES ASSUME IInv, IndexInv, [INext]_allVars PROVE IndexInv'
  OBVIOUS
<1>a. /\ TypeOK /\ HoldsRun /\ AtWork /\ HeldIsLive /\ StagesInOrder
      /\ ReadyMeansPlanPassed
  BY DEF IInv
<1>b. \A r \in Runs : Kept(r) => WithSupported(r)
  <2> SUFFICES ASSUME NEW r \in Runs, Kept(r) PROVE rows[r]["normalize"] = "passed"
    BY DEF IndexInv, UnitsWritten, OnlySearchable, Kept, WithSupported
  <2>1. PICK j \in 1..Len(Plan) : \E i \in 1..(j - 1) : Plan[j] = "vector" /\ Plan[i] = "normalize"
    BY IndexStages
  <2>2. QED
    BY <2>1, <1>a, IndexStages DEF Kept, StagesInOrder
<1> USE IndexStages, RunsAssumption, CommitsAssumption
    DEF IndexInv, IndexTypeOK, UnitsWritten, FirstAttempt, InTable, InRecords,
        SavedInTable, OnlySearchable, InVector, Kept, TypeOK, Statuses, RowStates, HoldsRun, Holding
<1>1. CASE Boot
  BY <1>1, <1>a DEF Boot, Start, runVars, indexVars
<1>2. CASE Kill
  BY <1>2, <1>a DEF Kill, Crash, runVars
<1>3. ASSUME NEW r \in Runs, Submit(r), UNCHANGED indexVars PROVE IndexInv'
  BY <1>3, <1>a DEF Submit, workerVars, indexVars
<1>4. ASSUME NEW r \in Runs, Retry(r), requeued' = requeued \cup {r},
             UNCHANGED <<hasUnits, table, exists, rebuild, records>>
      PROVE  IndexInv'
  BY <1>4, <1>a DEF Retry, workerVars
<1>5. ASSUME NEW r \in Runs, Claim(r), UNCHANGED indexVars PROVE IndexInv'
  BY <1>5, <1>a DEF Claim, Oldest, indexVars
<1>6. CASE SkipStage /\ UNCHANGED indexVars
  BY <1>6, <1>a DEF SkipStage, runVars, indexVars
<1>7. CASE BeginStage /\ UNCHANGED indexVars
  BY <1>7, <1>a DEF BeginStage, indexVars, HeldIsLive
<1>8. CASE MarkRunning /\ UNCHANGED indexVars
  BY <1>8, <1>a DEF MarkRunning, SetStage, indexVars, AtWork
<1>9. CASE PassStage /\ UNCHANGED indexVars
  BY <1>9, <1>a DEF PassStage, SetStage, indexVars, AtWork
<1>10. CASE FailStage /\ UNCHANGED indexVars
  BY <1>10, <1>a DEF FailStage, SetStage, indexVars, AtWork
<1>11. CASE CloseFailed /\ UNCHANGED indexVars
  BY <1>11, <1>a DEF CloseFailed, Release, indexVars
<1>12. CASE Finish /\ UNCHANGED indexVars
  BY <1>12, <1>a DEF Finish, Release, indexVars
<1>13. CASE AbortRun /\ UNCHANGED indexVars
  BY <1>13, <1>a DEF AbortRun, Release, indexVars
<1>14. CASE RunStage /\ Plan[at] \notin {"normalize", "vector"} /\ UNCHANGED indexVars
  BY <1>14, <1>a DEF RunStage, runVars, indexVars
<1>15. CASE Normalize
  BY <1>15, <1>a DEF Normalize, RunStage, runVars
<1>16. CASE WorkerDbError
  BY <1>16, <1>a DEF WorkerDbError, DbError, Handler, Release, runVars, indexVars
<1>17. CASE ReadUnits
  <2>1. UNCHANGED <<vars, hasUnits, table, exists, requeued>> /\ InVector /\ rebuild' = "read"
    BY <1>17 DEF ReadUnits
  <2>2. PICK late \in SUBSET {r \in Runs : Unready(r)} :
          records' = {CommitOf[r] : r \in {q \in Runs \ late : Eligible(q) /\ WithSupported(q)}}
    BY <1>17 DEF ReadUnits
  <2>3. records' \subseteq Commits /\ records' \subseteq Searchable
    BY <2>2 DEF WithSupported
  <2>4. \A r \in Runs : Kept(r) => CommitOf[r] \in records'
    BY <2>2, <1>b DEF Unready, Eligible
  <2> QED BY <2>1, <2>3, <2>4, <1>a DEF vars, runVars, workerVars
<1>18. CASE DropTable
  BY <1>18, <1>a DEF DropTable, vars, runVars, workerVars
<1>19. CASE CreateTable
  BY <1>19, <1>a DEF CreateTable, vars, runVars, workerVars
<1>20. CASE EndVector
  BY <1>20, <1>a DEF EndVector, RunStage, runVars, SmokeSearchOk
<1>21. CASE UNCHANGED allVars
  BY <1>21, <1>a DEF allVars, vars, runVars, workerVars, indexVars
<1>22. QED
  BY <1>1, <1>2, <1>3, <1>4, <1>5, <1>6, <1>7, <1>8, <1>9, <1>10, <1>11, <1>12, <1>13, <1>14,
     <1>15, <1>16, <1>17, <1>18, <1>19, <1>20, <1>21 DEF INext, Client, Worker, Vector

\* What is proved of the index rests on what is proved of the queue.
THEOREM IndexInvariant == ISpec => [](IInv /\ IndexInv)
<1>1. IInit => Init
  BY DEF IInit
<1>2. IInv /\ IndexInv /\ [INext]_allVars => (IInv /\ IndexInv)'
  BY StepOfQueue, StepInvariant, IndexStep
<1>3. QED
  BY <1>1, <1>2, InitInvariant, IndexInit, PTL DEF ISpec

\* Every variable of the index keeps its type.
THEOREM IndexTypeCorrect == ISpec => []IndexTypeOK
<1>1. IndexInv => IndexTypeOK
  BY DEF IndexInv
<1>2. QED
  BY IndexInvariant, <1>1, PTL

\* While there is a table, a published run that no client has retried is found
\* in it.
THEOREM PublishedStaysIndexed == ISpec => []UnretriedIsIndexed
<1>1. IInv /\ IndexInv => UnretriedIsIndexed
  BY IndexStages DEF IInv, IndexInv, InTable, Kept, ReadyMeansPlanPassed, UnretriedIsIndexed
<1>2. QED
  BY IndexInvariant, <1>1, PTL

-----------------------------------------------------------------------------
(* drop_table and create_table are two steps, and a kill or an exception   *)
(* between them leaves no table at all.                                    *)

\* A run in a stage has the row of that stage at running, and a stage that is
\* about to be saved as passed has left a table.
RebuildInRow ==
  /\ pc = "exec" => rows[run][Plan[at]] = "running"
  /\ rebuild = "created" => exists
  /\ pc = "save" /\ Plan[at] = "vector" => exists

\* Once a run has passed vector, the table is missing only as long as some run
\* stands in the middle of the stage, by its row: that run, retried, goes back
\* to this stage and builds the table again, and no state in which every run is
\* through leaves searches without one (lancedb_index.py: rebuild; vector.py).
THEOREM MissingTableIsRepairable == ISpec => []MissingIsUnfinished
<1> DEFINE Inv == RebuildInRow /\ MissingIsUnfinished
<1> USE IndexStages DEF RebuildInRow, MissingIsUnfinished
<1>1. IInit => Inv
  BY DEF IInit, Init
<1>2. ASSUME IInv, IndexTypeOK, Inv, [INext]_allVars PROVE Inv'
  <2>a. TypeOK /\ HoldsRun /\ AtWork
    BY <1>2 DEF IInv
  <2>b. pc \in Holding => run \in Runs
    BY <2>a DEF HoldsRun
  <2> USE <1>2, <2>a, <2>b DEF TypeOK, Holding
  <2>1. CASE Boot
    BY <2>1 DEF Boot, Start, runVars, indexVars
  <2>2. CASE Kill
    BY <2>2 DEF Kill, Crash, runVars
  <2>3. CASE Client
    BY <2>3 DEF Client, Submit, Retry, workerVars, indexVars
  <2>4. CASE (\E r \in Runs : Claim(r)) /\ UNCHANGED indexVars
    BY <2>4 DEF Claim, indexVars
  <2>5. CASE (SkipStage \/ BeginStage \/ CloseFailed \/ Finish \/ AbortRun) /\ UNCHANGED indexVars
    BY <2>5 DEF SkipStage, BeginStage, CloseFailed, Finish, AbortRun, runVars, indexVars
  <2>6. CASE MarkRunning /\ UNCHANGED indexVars
    BY <2>6 DEF MarkRunning, SetStage, indexVars, AtWork
  <2>7. CASE PassStage /\ UNCHANGED indexVars
    BY <2>7 DEF PassStage, SetStage, indexVars, AtWork
  <2>8. CASE FailStage /\ UNCHANGED indexVars
    BY <2>8 DEF FailStage, SetStage, indexVars, AtWork
  <2>9. CASE RunStage /\ Plan[at] \notin {"normalize", "vector"} /\ UNCHANGED indexVars
    BY <2>9 DEF RunStage, runVars, indexVars
  <2>10. CASE Normalize
    BY <2>10 DEF Normalize, RunStage, runVars
  <2>11. CASE WorkerDbError
    BY <2>11 DEF WorkerDbError, DbError, Handler, Release, runVars, indexVars
  <2>12. CASE ReadUnits
    BY <2>12 DEF ReadUnits, vars, runVars, workerVars
  <2>13. CASE DropTable
    <3>1. /\ pc = "exec" /\ run \in Runs /\ rows[run]["vector"] = "running"
          /\ rebuild' = "dropped" /\ UNCHANGED <<pc, run, at, rows>>
      BY <2>13 DEF DropTable, InVector, vars, runVars, workerVars
    <3>2. QED
      BY <3>1
  <2>14. CASE CreateTable
    BY <2>14 DEF CreateTable, vars, runVars, workerVars
  <2>15. CASE EndVector
    BY <2>15 DEF EndVector, RunStage, runVars
  <2>16. CASE UNCHANGED allVars
    BY <2>16 DEF allVars, vars, runVars, workerVars, indexVars
  <2>17. QED
    BY <2>1, <2>2, <2>3, <2>4, <2>5, <2>6, <2>7, <2>8, <2>9, <2>10, <2>11, <2>12, <2>13,
       <2>14, <2>15, <2>16 DEF INext, Worker, Vector
<1>3. IndexInv => IndexTypeOK
  BY DEF IndexInv
<1>4. QED
  BY <1>1, <1>2, <1>3, IndexInvariant, PTL DEF ISpec

=============================================================================
