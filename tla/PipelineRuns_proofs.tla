------------------------ MODULE PipelineRuns_proofs -------------------------
(***************************************************************************)
(* Theorems about PipelineRuns for every set of runs, every plan and every *)
(* number of crashes and database errors.                                  *)
(***************************************************************************)
EXTENDS PipelineRuns, TLAPS

(***************************************************************************)
(* The inductive invariant.  The properties to be proved say nothing about *)
(* the worker's place in the plan; what makes them survive every step is   *)
(* what the worker's place says about the rows.                            *)
(***************************************************************************)

\* The worker holds a run exactly while it is inside execute_run.
HoldsRun ==
  /\ pc \in Holding => run \in Runs
  /\ pc \notin Holding => run = NoRun

\* A run in the worker's hands has not been settled.
HeldIsLive == run \in Runs => status[run] \in {"queued", "running"}

\* Everything before the worker's place in the plan has passed.
PrefixPassed ==
  pc \in Holding =>
    \A i \in 1..(at - 1) : Plan[i] \in Stages => rows[run][Plan[i]] = "passed"

\* From update_run(running) on, the worker is at a stage that has not passed.
AtWork ==
  pc \in {"mark", "exec", "save", "fail", "close"} =>
    /\ at <= Len(Plan)
    /\ Plan[at] \in Stages
    /\ rows[run][Plan[at]] # "passed"

\* The two updates of the error path, seen between them.
Closing ==
  /\ pc = "close" => rows[run][Plan[at]] = "failed"
  /\ pc = "outer" => dbErrors > 0

IInv ==
  /\ TypeOK
  /\ HoldsRun
  /\ HeldIsLive
  /\ PrefixPassed
  /\ AtWork
  /\ Closing
  /\ ReadyMeansPlanPassed
  /\ StagesInOrder
  /\ SettledIsReleased
  /\ RunningIsHeld
  /\ FailureNamesStage
  /\ CompletedIffReady

-----------------------------------------------------------------------------

\* A plan position is a string, and the stages are entries of the plan.
LEMMA PlanFacts ==
  /\ Len(Plan) \in Nat
  /\ \A i \in 1..Len(Plan) : Plan[i] \in STRING
  /\ \A s \in Stages : \E i \in 1..Len(Plan) : Plan[i] = s
BY PlanAssumption DEF Stages

LEMMA InitInvariant == Init => IInv
<1> SUFFICES ASSUME Init PROVE IInv
  OBVIOUS
<1>1. TypeOK
  BY PlanFacts, BoundsAssumption, RunsAssumption
  DEF Init, TypeOK, Statuses, RowStates, PCs, Holding
<1>2. QED
  BY <1>1, PlanFacts, RunsAssumption
  DEF Init, IInv, HoldsRun, HeldIsLive, PrefixPassed, AtWork, Closing, Holding,
      Settled, ReadyMeansPlanPassed, StagesInOrder, SettledIsReleased,
      RunningIsHeld, FailureNamesStage, CompletedIffReady

LEMMA StepInvariant == IInv /\ [Next]_vars => IInv'
<1> SUFFICES ASSUME IInv, [Next]_vars PROVE IInv'
  OBVIOUS
<1> USE PlanFacts, PlanAssumption, BoundsAssumption, RunsAssumption
    DEF IInv, TypeOK, Statuses, RowStates, PCs, Holding, Settled,
      HoldsRun, HeldIsLive, PrefixPassed, AtWork, Closing,
      ReadyMeansPlanPassed, StagesInOrder, SettledIsReleased,
      RunningIsHeld, FailureNamesStage, CompletedIffReady
<1>1. CASE Start
  BY <1>1 DEF Start, runVars
<1>2. CASE Crash
  BY <1>2 DEF Crash, runVars
<1>3. CASE DbError
  BY <1>3 DEF DbError, Handler, Release, runVars
<1>4. ASSUME NEW r \in Runs, Submit(r) PROVE IInv'
  BY <1>4 DEF Submit, workerVars
<1>5. ASSUME NEW r \in Runs, Retry(r) PROVE IInv'
  BY <1>5 DEF Retry, workerVars
<1>6. ASSUME NEW r \in Runs, Claim(r) PROVE IInv'
  BY <1>6 DEF Claim, Oldest
<1>7. CASE SkipStage
  BY <1>7 DEF SkipStage, Skippable, runVars
<1>8. CASE BeginStage
  BY <1>8 DEF BeginStage, Skippable
<1>9. CASE MarkRunning
  BY <1>9 DEF MarkRunning, SetStage
<1>10. CASE RunStage
  BY <1>10 DEF RunStage, runVars
<1>11. CASE PassStage
  BY <1>11 DEF PassStage, SetStage
<1>12. CASE FailStage
  BY <1>12 DEF FailStage, SetStage
<1>13. CASE CloseFailed
  BY <1>13 DEF CloseFailed, Release
<1>14. CASE Finish
  BY <1>14 DEF Finish, Release
<1>15. CASE AbortRun
  BY <1>15 DEF AbortRun, Release
<1>16. CASE UNCHANGED vars
  BY <1>16 DEF vars, runVars, workerVars
<1>17. QED
  BY <1>1, <1>2, <1>3, <1>4, <1>5, <1>6, <1>7, <1>8, <1>9, <1>10, <1>11,
     <1>12, <1>13, <1>14, <1>15, <1>16 DEF Next, Work

THEOREM InvariantHolds == Spec => []IInv
BY InitInvariant, StepInvariant, PTL DEF Spec

\* Every variable keeps its type.
THEOREM TypeCorrect == Spec => []TypeOK
<1>1. IInv => TypeOK
  BY DEF IInv
<1>2. QED
  BY InvariantHolds, <1>1, PTL

\* A published run has passed every stage of its plan, for every plan and
\* however many retries, crashes and database errors happened on the way.
THEOREM ReadyIsComplete == Spec => []ReadyMeansPlanPassed
<1>1. IInv => ReadyMeansPlanPassed
  BY DEF IInv
<1>2. QED
  BY InvariantHolds, <1>1, PTL

\* Stages are entered in plan order.
THEOREM OrderHolds == Spec => []StagesInOrder
<1>1. IInv => StagesInOrder
  BY DEF IInv
<1>2. QED
  BY InvariantHolds, <1>1, PTL

\* The worker never holds a settled run, so that no retry of one is lost.
THEOREM SettledRunsAreReleased == Spec => []SettledIsReleased
<1>1. IInv => SettledIsReleased
  BY DEF IInv
<1>2. QED
  BY InvariantHolds, <1>1, PTL

\* A run is left running by nobody only after a kill or the end of the task.
THEOREM RunningRunsAreHeld == Spec => []RunningIsHeld
<1>1. IInv => RunningIsHeld
  BY DEF IInv
<1>2. QED
  BY InvariantHolds, <1>1, PTL

\* Without failing transactions, a failed run names a stage whose row agrees.
THEOREM FailuresAreNamed == Spec => []FailureNamesStage
<1>1. IInv => FailureNamesStage
  BY DEF IInv
<1>2. QED
  BY InvariantHolds, <1>1, PTL

\* The date by which search ranks runs is on the published ones and no others.
THEOREM DatesAreOfPublished == Spec => []CompletedIffReady
<1>1. IInv => CompletedIffReady
  BY DEF IInv
<1>2. QED
  BY InvariantHolds, <1>1, PTL

-----------------------------------------------------------------------------
(* The only steps that write a stage row write the row at the worker's     *)
(* place, and there the invariant says that it has not passed.             *)

LEMMA RowsStep ==
  ASSUME IInv, [Next]_vars
  PROVE  \/ rows' = rows
         \/ \E value \in {"running", "passed", "failed"} :
              /\ pc \in {"mark", "save", "fail"}
              /\ rows' = [rows EXCEPT ![run][Plan[at]] = value]
BY DEF Next, Work, vars, runVars, Start, Crash, DbError, Submit, Retry, Claim, SkipStage,
   BeginStage, MarkRunning, RunStage, PassStage, FailStage, CloseFailed, Finish,
   AbortRun, SetStage

\* A passed stage stays passed.
LEMMA PassedKept ==
  ASSUME IInv, [Next]_vars, NEW r \in Runs, NEW s \in Stages, rows[r][s] = "passed"
  PROVE  rows'[r][s] = "passed"
<1>1. CASE rows' = rows
  BY <1>1
<1>2. ASSUME NEW value \in {"running", "passed", "failed"}, pc \in {"mark", "save", "fail"},
             rows' = [rows EXCEPT ![run][Plan[at]] = value]
      PROVE  rows'[r][s] = "passed"
  <2>1. /\ run \in Runs /\ Plan[at] \in Stages /\ rows[run][Plan[at]] # "passed"
        /\ rows \in [Runs -> [Stages -> RowStates]]
    BY <1>2 DEF IInv, AtWork, HoldsRun, Holding, TypeOK
  <2>2. ~ (r = run /\ s = Plan[at])
    BY <2>1
  <2>3. QED
    BY <1>2, <2>1, <2>2
<1>3. QED
  BY <1>1, <1>2, RowsStep

\* No step takes a passed stage back.
THEOREM PassedStays == Spec => PassedIsFinal
<1>1. IInv /\ [Next]_vars
        => [\A r \in Runs : \A s \in Stages : rows[r][s] = "passed" => rows'[r][s] = "passed"]_vars
  BY PassedKept
<1>2. QED
  BY InvariantHolds, <1>1, PTL DEF Spec, PassedIsFinal

-----------------------------------------------------------------------------
(* audit.run raises whatever its checks found (RunStage).  What follows    *)
(* from that for a plan with the stage in it needs more of the invariant:  *)
(* the worker is never about to save a passed audit.                       *)

\* The stage never returns, so that set_stage(passed) is never due for it.
AuditRaises ==
  /\ pc = "save" => Plan[at] # "audit"
  /\ \A r \in Runs : rows[r]["audit"] # "passed"

\* No run passes audit, is published, or enters a stage behind it in the plan.
StoppedAtAudit ==
  \A r \in Runs :
    /\ rows[r]["audit"] # "passed"
    /\ status[r] # "ready_for_wiki"
    /\ \A i, j \in 1..Len(Plan) :
         Plan[i] = "audit" /\ i < j /\ Plan[j] \in Stages => rows[r][Plan[j]] = "absent"

\* A plan that names audit publishes no run and never reaches the stages behind
\* it, the vault export among them, whatever the stages before it find and
\* however often the run is retried (stages/audit.py: run; runner.py:
\* execute_run).
THEOREM NothingPassesAudit ==
  ASSUME "audit" \in Stages
  PROVE  Spec => []StoppedAtAudit
<1>1. Init => AuditRaises
  BY DEF Init, AuditRaises
<1>2. ASSUME IInv, AuditRaises, [Next]_vars PROVE AuditRaises'
  <2> USE <1>2 DEF AuditRaises
  <2>1. run \in Runs \/ pc \notin {"mark", "save", "fail"}
    BY DEF IInv, HoldsRun, Holding
  <2>2. rows \in [Runs -> [Stages -> RowStates]]
    BY DEF IInv, TypeOK
  <2>3. \A r \in Runs : rows'[r]["audit"] # "passed"
    <3>1. CASE rows' = rows
      BY <3>1
    <3>2. CASE PassStage
      BY <3>2, <2>1, <2>2 DEF PassStage, SetStage
    <3>3. CASE MarkRunning \/ FailStage
      BY <3>3, <2>1, <2>2 DEF MarkRunning, FailStage, SetStage
    <3>4. QED
      BY <3>1, <3>2, <3>3 DEF Next, Work, vars, runVars, Start, Crash, DbError, Submit,
         Retry, Claim, SkipStage, BeginStage, RunStage, CloseFailed, Finish, AbortRun
  <2>4. pc' = "save" => Plan[at'] # "audit"
    BY DEF Next, Work, vars, workerVars, Start, Crash, DbError, Handler, Submit, Retry,
       Claim, SkipStage, BeginStage, MarkRunning, RunStage, PassStage, FailStage,
       CloseFailed, Finish, AbortRun
  <2>5. QED
    BY <2>3, <2>4
<1>3. IInv /\ AuditRaises => StoppedAtAudit
  <2> SUFFICES ASSUME IInv, AuditRaises, NEW r \in Runs
               PROVE  /\ status[r] # "ready_for_wiki"
                      /\ \A i, j \in 1..Len(Plan) :
                           Plan[i] = "audit" /\ i < j /\ Plan[j] \in Stages
                             => rows[r][Plan[j]] = "absent"
    BY DEF StoppedAtAudit, AuditRaises
  <2>1. status[r] # "ready_for_wiki"
    BY DEF IInv, ReadyMeansPlanPassed, AuditRaises
  <2>2. ASSUME NEW i \in 1..Len(Plan), NEW j \in 1..Len(Plan),
               Plan[i] = "audit", i < j, Plan[j] \in Stages
        PROVE  rows[r][Plan[j]] = "absent"
    <3>1. i \in 1..(j - 1)
      BY <2>2, PlanFacts
    <3>2. QED
      BY <2>2, <3>1 DEF IInv, StagesInOrder, AuditRaises
  <2>3. QED
    BY <2>1, <2>2
<1>4. QED
  BY <1>1, <1>2, <1>3, InvariantHolds, PTL DEF Spec

-----------------------------------------------------------------------------
(* An attempt at a run is bounded: what is left of it, counted in places   *)
(* of the plan and in worker steps at the present one.                     *)

StepsAtPlace ==
  [next |-> 6, mark |-> 5, exec |-> 4, save |-> 3, fail |-> 2, close |-> 1, outer |-> 0][pc]

Left == 7 * (Len(Plan) + 1 - at) + StepsAtPlace

\* Every step of the worker that holds a run lets go of the run or has less of
\* the attempt left, database errors on any path included: no error path of
\* execute_run leads back into the loop at the same stage (runner.py).  This is
\* what EveryRunSettles rests on besides the worker being scheduled.
THEOREM AttemptsAdvance ==
  Spec => [][(Work \/ DbError) /\ pc \in Holding
               => pc' \notin Holding \/ (Left \in Nat /\ Left' \in Nat /\ Left' < Left)]_vars
<1> DEFINE Advances ==
      pc' \notin Holding \/ (Left \in Nat /\ Left' \in Nat /\ Left' < Left)
<1>1. ASSUME IInv, IInv', Work \/ DbError, pc \in Holding PROVE Advances
  <2>1. /\ at \in 1..(Len(Plan) + 1) /\ at' \in 1..(Len(Plan) + 1)
        /\ Len(Plan) \in Nat
    BY <1>1, PlanFacts DEF IInv, TypeOK
  <2> USE <1>1, <2>1 DEF Holding, Left, StepsAtPlace
  <2>2. ASSUME NEW r \in Runs, Claim(r) PROVE Advances
    BY <2>2 DEF Claim
  <2>3. CASE SkipStage
    BY <2>3 DEF SkipStage
  <2>4. CASE BeginStage
    BY <2>4 DEF BeginStage
  <2>5. CASE MarkRunning
    BY <2>5 DEF MarkRunning
  <2>6. CASE RunStage
    BY <2>6 DEF RunStage
  <2>7. CASE PassStage
    BY <2>7 DEF PassStage
  <2>8. CASE FailStage
    BY <2>8 DEF FailStage
  <2>9. CASE CloseFailed \/ Finish \/ AbortRun
    BY <2>9 DEF CloseFailed, Finish, AbortRun
  <2>10. CASE DbError
    <3>1. /\ pc \in Holding \ {"exec"} /\ pc' = Handler(pc)
          /\ pc' = "dead" \/ at' = at
      BY <2>10 DEF DbError
    <3>2. CASE pc = "outer"
      BY <3>1, <3>2 DEF Handler
    <3>3. CASE pc = "save"
      BY <3>1, <3>3 DEF Handler
    <3>4. CASE pc \in {"next", "mark", "fail", "close"}
      <4>1. pc' = "outer" /\ at' = at
        BY <3>1, <3>4 DEF Handler
      <4>2. StepsAtPlace \in 1..6 /\ StepsAtPlace' = 0
        BY <3>4, <4>1
      <4> HIDE DEF StepsAtPlace
      <4>3. QED
        BY <4>1, <4>2
    <3>5. QED
      BY <3>1, <3>2, <3>3, <3>4
  <2>11. QED
    BY <2>2, <2>3, <2>4, <2>5, <2>6, <2>7, <2>8, <2>9, <2>10 DEF Work
<1>2. IInv /\ IInv' /\ [Next]_vars => [(Work \/ DbError) /\ pc \in Holding => Advances]_vars
  BY <1>1
<1>3. QED
  BY <1>2, InvariantHolds, PTL DEF Spec

-----------------------------------------------------------------------------
(* Refinement: every step of the worker and of the handlers is a step of   *)
(* the lifecycle, or leaves it as it is.                                   *)

Done == [r \in Runs |-> {s \in Stages : rows[r][s] = "passed"}]

LEMMA InitRefines == Init => Lifecycle!Init
BY DEF Init, Lifecycle!Init

LEMMA StepRefines == IInv /\ [Next]_vars => [Lifecycle!Next]_(Lifecycle!vars)
<1> SUFFICES ASSUME IInv, [Next]_vars PROVE [Lifecycle!Next]_(Lifecycle!vars)
  OBVIOUS
<1> USE DEF Lifecycle!vars
<1>a. TypeOK /\ HoldsRun /\ AtWork
  BY DEF IInv
<1>1. CASE Start \/ SkipStage \/ RunStage \/ UNCHANGED vars
  BY <1>1 DEF Start, SkipStage, RunStage, vars, runVars, workerVars
<1>2. CASE Crash
  BY <1>2 DEF Crash, runVars, Lifecycle!Next, Lifecycle!Lose
<1>3. CASE DbError
  BY <1>3 DEF DbError, Release, runVars, Lifecycle!Next, Lifecycle!Lose
<1>4. ASSUME NEW r \in Runs, Submit(r) PROVE Lifecycle!Next
  BY <1>4 DEF Submit, workerVars, Lifecycle!Next, Lifecycle!Submit
<1>5. ASSUME NEW r \in Runs, Retry(r) PROVE Lifecycle!Next
  BY <1>5 DEF Retry, workerVars, Lifecycle!Next, Lifecycle!Requeue
<1>6. ASSUME NEW r \in Runs, Claim(r) PROVE Lifecycle!Next
  <2>1. run = NoRun
    BY <1>6, <1>a DEF Claim, HoldsRun, Holding
  <2>2. QED
    BY <1>6, <2>1 DEF Claim, Oldest, Lifecycle!Next, Lifecycle!Take
<1>7. ASSUME pc \in {"next", "mark", "save", "fail", "close", "outer"} PROVE run \in Runs
  BY <1>7, <1>a DEF HoldsRun, Holding
<1>8. CASE BeginStage
  BY <1>8, <1>7 DEF BeginStage, Lifecycle!Next, Lifecycle!Reassert
<1>9. CASE MarkRunning \/ FailStage
  <2>1. PICK value \in {"running", "failed"} :
          rows' = [rows EXCEPT ![run][Plan[at]] = value] /\ UNCHANGED <<status, run>>
    BY <1>9 DEF MarkRunning, FailStage, SetStage
  <2>2. run \in Runs /\ Plan[at] \in Stages /\ rows[run][Plan[at]] # "passed"
    BY <1>9, <1>7, <1>a DEF MarkRunning, FailStage, AtWork
  <2>3. rows \in [Runs -> [Stages -> RowStates]]
    BY <1>a DEF TypeOK
  <2>4. \A r \in Runs, s \in Stages : rows'[r][s] = "passed" <=> rows[r][s] = "passed"
    BY <2>1, <2>2, <2>3
  <2>5. QED
    BY <2>1, <2>4
<1>10. CASE PassStage
  <2>1. rows' = [rows EXCEPT ![run][Plan[at]] = "passed"] /\ UNCHANGED <<status, run>>
    BY <1>10 DEF PassStage, SetStage
  <2>2. /\ run \in Runs /\ at \in 1..Len(Plan)
        /\ Plan[at] \in Stages /\ rows[run][Plan[at]] # "passed"
    BY <1>10, <1>7, <1>a, PlanFacts DEF PassStage, AtWork, TypeOK
  <2>3. \A j \in 1..(at - 1) : Plan[j] \in Stages => rows[run][Plan[j]] = "passed"
    BY <1>10 DEF PassStage, IInv, PrefixPassed, Holding
  <2>4. rows \in [Runs -> [Stages -> RowStates]]
    BY <1>a DEF TypeOK
  <2>5. Done' = [Done EXCEPT ![run] = @ \cup {Plan[at]}]
    BY <2>1, <2>2, <2>4 DEF Done
  <2>6. ASSUME NEW r \in Runs, r = run PROVE Lifecycle!Complete(r)
    BY <2>1, <2>2, <2>3, <2>5, <2>6 DEF Done, Lifecycle!Complete
  <2>7. Lifecycle!Next
    BY <2>2, <2>6 DEF Lifecycle!Next
  <2>8. QED
    BY <2>7
<1>11. CASE CloseFailed
  BY <1>11, <1>7 DEF CloseFailed, Release, Lifecycle!Next, Lifecycle!Fail
<1>12. CASE Finish
  <2>1. run \in Runs /\ \A s \in Stages : rows[run][s] = "passed"
    BY <1>12, <1>7, PlanFacts DEF Finish, IInv, PrefixPassed, Holding
  <2>2. QED
    BY <1>12, <2>1 DEF Finish, Release, Lifecycle!Next, Lifecycle!Publish
<1>13. CASE AbortRun
  BY <1>13, <1>7 DEF AbortRun, Release, Lifecycle!Next, Lifecycle!Fail
<1>14. QED
  BY <1>1, <1>2, <1>3, <1>4, <1>5, <1>6, <1>8, <1>9, <1>10, <1>11, <1>12, <1>13
  DEF Next, Work

\* The worker, the handlers, crashes and database errors implement the lifecycle.
THEOREM Refinement == Spec => ImplementsLifecycle
BY InvariantHolds, InitRefines, StepRefines, PTL DEF Spec, ImplementsLifecycle, Lifecycle!Spec

=============================================================================
