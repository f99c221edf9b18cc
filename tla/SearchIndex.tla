---------------------------- MODULE SearchIndex -----------------------------
(***************************************************************************)
(* The one vector table of the service (pipeline/indexes/lancedb_index.py) *)
(* and the vector stage that rebuilds it (pipeline/stages/vector.py),      *)
(* beside the run queue.  Every rebuild replaces the whole table by the    *)
(* units of the runs whose status is eligible at that moment, so that one  *)
(* run's stage decides what searches find of every other run.              *)
(*                                                                         *)
(* Unit ids and the filter of a search name the commit and not the run;    *)
(* the table is therefore the set of commits whose units are in it.        *)
(***************************************************************************)
EXTENDS PipelineRuns

CONSTANTS
  Commits,
  CommitOf,   \* the source and commit of each run
  Searchable  \* the commits with units of a type that vector takes in

ASSUME CommitsAssumption == CommitOf \in [Runs -> Commits] /\ Searchable \subseteq Commits
ASSUME IndexPlanAssumption ==
  \E j \in 1..Len(Plan) : Plan[j] = "vector" /\ \E i \in 1..(j - 1) : Plan[i] = "normalize"
\* A smoke search that finds nothing makes the stage raise (lancedb.required).
ASSUME VectorAssumption == "vector" \in FlakyStages

VARIABLES
  hasUnits,   \* the runs with rows in the units table
  table,      \* the commits whose units are in the vector table
  exists,     \* the vector table exists
  rebuild,    \* how far the rebuild of a running vector stage has come
  records,    \* the commits whose units it has read
  requeued    \* history: the runs that a client has retried

indexVars == <<hasUnits, table, exists, rebuild, records, requeued>>
allVars == <<vars, indexVars>>

IndexTypeOK ==
  /\ hasUnits \in SUBSET Runs
  /\ table \in SUBSET Commits
  /\ exists \in BOOLEAN
  /\ rebuild \in {"none", "read", "dropped", "created"}
  /\ records \in SUBSET Commits
  /\ requeued \in SUBSET Runs

IInit ==
  /\ Init
  /\ hasUnits = {} /\ table = {} /\ exists = FALSE
  /\ rebuild = "none" /\ records = {} /\ requeued = {}

-----------------------------------------------------------------------------
(* The queue, the worker and the stages other than vector.                 *)

Boot == Start /\ UNCHANGED indexVars

\* The table stays as the kill found it.
Kill ==
  /\ Crash
  /\ rebuild' = "none" /\ records' = {}
  /\ UNCHANGED <<hasUnits, table, exists, requeued>>

Client ==
  \E r \in Runs :
    \/ Submit(r) /\ UNCHANGED indexVars
    \/ /\ Retry(r)
       /\ requeued' = requeued \cup {r}
       /\ UNCHANGED <<hasUnits, table, exists, rebuild, records>>

\* normalize may raise before replace_units and after it.
Normalize ==
  /\ RunStage
  /\ Plan[at] = "normalize"
  /\ \/ hasUnits' = hasUnits \cup {run}
     \/ pc' # "save" /\ UNCHANGED hasUnits
  /\ UNCHANGED <<table, exists, rebuild, records, requeued>>

Worker ==
  \/ /\ \/ \E r \in Runs : Claim(r)
        \/ SkipStage \/ BeginStage \/ MarkRunning \/ PassStage
        \/ FailStage \/ CloseFailed \/ Finish \/ AbortRun
        \/ RunStage /\ Plan[at] \notin {"normalize", "vector"}
     /\ UNCHANGED indexVars
  \/ Normalize

WorkerDbError == DbError /\ UNCHANGED indexVars

-----------------------------------------------------------------------------
(* The vector stage.                                                       *)

InVector == pc = "exec" /\ Plan[at] = "vector"

\* Mutant: the status of the published runs is not in the list.
EligibleRunning(r) == status[r] = "running"

\* _eligible_units: JOIN runs ... WHERE r.status IN ('running', ..., 'ready_for_wiki')
Eligible(r) == status[r] \in {"running", "ready_for_wiki"}

\* The filter by SUPPORTED_UNIT_TYPES, by commit.  A run on its way to vector has
\* been through some of the stages that write units, and may have none of these yet.
Unready(r) == r # run /\ rows[r]["vector"] # "passed"
WithSupported(r) == r \in hasUnits /\ CommitOf[r] \in Searchable

\* Mutant: the runs are taken for the commits they belong to.
ReadUnitRows ==
  /\ InVector
  /\ rebuild = "none"
  /\ records' = {r \in Runs : Eligible(r) /\ WithSupported(r)}
  /\ rebuild' = "read"
  /\ UNCHANGED <<vars, hasUnits, table, exists, requeued>>

ReadUnits ==
  /\ InVector
  /\ rebuild = "none"
  /\ \E late \in SUBSET {r \in Runs : Unready(r)} :
       records' = {CommitOf[r] : r \in {q \in Runs \ late : Eligible(q) /\ WithSupported(q)}}
  /\ rebuild' = "read"
  /\ UNCHANGED <<vars, hasUnits, table, exists, requeued>>

\* LanceDBIndex.rebuild: drop_table, then create_table
DropTable ==
  /\ InVector
  /\ rebuild = "read"
  /\ table' = {} /\ exists' = FALSE
  /\ rebuild' = "dropped"
  /\ UNCHANGED <<vars, hasUnits, records, requeued>>

\* A table without records has no schema: create_table raises.
CreateTable ==
  /\ InVector
  /\ rebuild = "dropped"
  /\ records # {}
  /\ table' = records /\ exists' = TRUE
  /\ rebuild' = "created"
  /\ UNCHANGED <<vars, hasUnits, records, requeued>>

\* The smoke search filters by the run's own commit and must find something.
SmokeSearchOk == CommitOf[run] \in table

\* Mutant: a rebuild that raised is logged, and the stage goes on.
EndVectorAnyway ==
  /\ InVector
  /\ RunStage
  /\ rebuild' = "none" /\ records' = {}
  /\ UNCHANGED <<hasUnits, table, exists, requeued>>

\* The stage ends: with a verdict on the new table, or with an exception.
EndVector ==
  /\ InVector
  /\ RunStage
  /\ pc' = "save" => rebuild = "created" /\ SmokeSearchOk
  /\ rebuild' = "none" /\ records' = {}
  /\ UNCHANGED <<hasUnits, table, exists, requeued>>

Vector == ReadUnits \/ DropTable \/ CreateTable \/ EndVector

INext == Boot \/ Kill \/ Client \/ Worker \/ WorkerDbError \/ Vector

ISpec == IInit /\ [][INext]_allVars

-----------------------------------------------------------------------------
(* Properties.                                                             *)

\* As long as there is a table, a published run that no client has retried is
\* found in it, whatever other runs have rebuilt since.
UnretriedIsIndexed ==
  exists => \A r \in Runs \ requeued :
    status[r] = "ready_for_wiki" => CommitOf[r] \in table

\* Once a run has passed vector, the table is missing only while some run stands in
\* the middle of the stage, by its row: a kill or an exception between drop_table
\* and create_table leaves that row behind, and whatever is retried since, no state
\* in which every run is through leaves searches without a table.
MissingIsUnfinished ==
  exists
    \/ (\A r \in Runs : rows[r]["vector"] # "passed")
    \/ \E r \in Runs : rows[r]["vector"] \in {"running", "failed"}

\* As long as there is a table, every published run is found in it.
PublishedIsIndexed ==
  exists => \A r \in Runs : status[r] = "ready_for_wiki" => CommitOf[r] \in table

=============================================================================
