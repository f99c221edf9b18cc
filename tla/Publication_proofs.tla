------------------------- MODULE Publication_proofs --------------------------
(***************************************************************************)
(* The reports of wiki agents and the board beside the queue, for every    *)
(* number of runs, requests at a time, jobs, retries, kills and errors.    *)
(***************************************************************************)
EXTENDS Publication, PipelineRuns_proofs, FiniteSetTheorems

\* Every step of the composed system is a step of the queue or leaves it alone.
LEMMA StepOfQueue == [PNext]_pVars => [Next]_vars
<1> USE DEF Next
<1>1. CASE Boot \/ Kill \/ WorkerStep
  BY <1>1 DEF Boot, Kill, WorkerStep
<1>2. CASE \E t \in Threads : ReadRows(t) \/ WriteBoard(t) \/ RefreshFails(t)
  BY <1>2 DEF ReadRows, WriteBoard, RefreshFails
<1>3. CASE \E r \in Runs : EnqueueRun(r) \/ \E c \in Callers : SubmitRun(c, r) \/ RetryRun(c, r)
  BY <1>3 DEF EnqueueRun, SubmitRun, RetryRun
<1>4. CASE \E c \in Callers, r \in Runs, j \in Jobs : TakeStarted(c, r, j) \/ TakeReport(c, r, j)
  BY <1>4 DEF TakeStarted, TakeReport, Take
<1>5. CASE \E c \in Callers : WriteManifest(c) \/ Record(c) \/ RecordFails(c)
  BY <1>5 DEF WriteManifest, Record, RecordFails
<1>6. CASE UNCHANGED pVars
  BY <1>6 DEF pVars
<1> QED BY <1>1, <1>2, <1>3, <1>4, <1>5, <1>6 DEF PNext

-----------------------------------------------------------------------------
(* The reports.                                                            *)

Kinds == {"none", "started", "completed", "failed", "outside", "pages", "written"}

WikiTypeOK ==
  /\ wiki \in [Runs -> {"none", "wiki_running", "wiki_generated", "wiki_validation_failed",
                        "ready_for_review"}]
  /\ job \in [Runs -> Jobs \cup {NoJob}]
  /\ manifest \in [Runs -> Jobs \cup {NoJob}]
  /\ call \in [Callers -> [kind : Kinds, run : Runs \cup {NoRun}, job : Jobs \cup {NoJob}]]
  /\ crossed \subseteq Runs

\* A report in hand is one of a run and a job.
CallsNamed ==
  \A c \in Callers : call[c].kind # "none" => call[c].run \in Runs /\ call[c].job \in Jobs

\* It was checked against a run all of whose stages had passed, and what has
\* passed stays so until the report is recorded.
CallsPassed ==
  \A c \in Callers : call[c].kind # "none" =>
    \A s \in Stages : rows[call[c].run][s] = "passed"

\* Where no two page manifests have crossed, only one is in hand, ...
OnePages ==
  \A r \in Runs \ crossed : \A c, d \in Callers :
    c \in PagesOf(r) /\ d \in PagesOf(r) => c = d

\* ... and the run is not offered for review before that is recorded.
NotYetReviewed ==
  \A r \in Runs \ crossed : PagesOf(r) # {} => wiki[r] # "ready_for_review"

\* A file that was written is there, and names the job unless another crossed it.
FileWritten ==
  \A c \in Callers : call[c].kind = "written" =>
    /\ manifest[call[c].run] # NoJob
    /\ call[c].run \in crossed \/ manifest[call[c].run] = call[c].job

WikiInv ==
  /\ WikiTypeOK /\ CallsNamed /\ CallsPassed /\ WikiOnPassedRuns
  /\ OnePages /\ NotYetReviewed /\ FileWritten /\ ReviewHasManifest

LEMMA WikiInit == PInit => WikiInv
BY CallersAssumption
DEF PInit, NoCall, Kinds, WikiInv, WikiTypeOK, CallsNamed, CallsPassed, WikiOnPassedRuns,
    OnePages, NotYetReviewed, FileWritten, ReviewHasManifest, PagesOf

\* A step that leaves the reports alone, whatever it does to the queue.
LEMMA ReportsUnchanged ==
  ASSUME IInv, WikiInv, [Next]_vars, UNCHANGED wikiVars
  PROVE  WikiInv'
<1>1. \A r \in Runs : \A s \in Stages : rows[r][s] = "passed" => rows'[r][s] = "passed"
  BY PassedKept
<1>2. CallsPassed' /\ WikiOnPassedRuns'
  BY <1>1 DEF wikiVars, WikiInv, CallsNamed, CallsPassed, WikiOnPassedRuns
<1> QED BY <1>2 DEF wikiVars, WikiInv, WikiTypeOK, CallsNamed, OnePages, NotYetReviewed,
                    FileWritten, ReviewHasManifest, PagesOf

\* Reports are lost, by a kill or an error.
LEMMA ReportsLost ==
  ASSUME IInv, WikiInv, [Next]_vars, NEW lost \in SUBSET Callers,
         call' = [c \in Callers |-> IF c \in lost THEN NoCall ELSE call[c]],
         UNCHANGED <<wiki, job, manifest, crossed>>
  PROVE  WikiInv'
<1>1. \A r \in Runs : \A s \in Stages : rows[r][s] = "passed" => rows'[r][s] = "passed"
  BY PassedKept
<1>2. /\ NoCall.kind = "none" /\ NoCall.run = NoRun /\ NoCall.job = NoJob
      /\ NoCall \in [kind : Kinds, run : Runs \cup {NoRun}, job : Jobs \cup {NoJob}]
  BY DEF NoCall, Kinds
<1>3. \A c \in Callers : call'[c].kind # "none" => call'[c] = call[c]
  BY <1>2
<1>4. WikiTypeOK' /\ CallsNamed'
  BY <1>2, <1>3 DEF WikiInv, WikiTypeOK, CallsNamed
<1>5. CallsPassed' /\ WikiOnPassedRuns'
  BY <1>1, <1>3 DEF WikiInv, CallsNamed, CallsPassed, WikiOnPassedRuns
<1>6. \A r \in Runs : PagesOf(r)' \subseteq PagesOf(r)
  BY <1>2, <1>3 DEF PagesOf
<1>7. OnePages' /\ NotYetReviewed'
  BY <1>6 DEF WikiInv, OnePages, NotYetReviewed
<1>8. FileWritten' /\ ReviewHasManifest'
  BY <1>3 DEF WikiInv, FileWritten, ReviewHasManifest
<1> QED BY <1>4, <1>5, <1>7, <1>8 DEF WikiInv

\* A report is taken in, of a run whose stages have passed.
LEMMA ReportTaken ==
  ASSUME WikiInv, NEW c \in Callers, NEW r \in Runs, NEW j \in Jobs,
         NEW kind \in {"started", "completed", "failed", "pages", "outside"},
         Take(c, kind, r, j),
         \A s \in Stages : rows[r][s] = "passed",
         kind = "pages" => wiki[r] # "ready_for_review",
         crossed' = IF kind = "pages" /\ PagesOf(r) # {} THEN crossed \cup {r} ELSE crossed
  PROVE  WikiInv'
<1>1. /\ call' = [call EXCEPT ![c] = [kind |-> kind, run |-> r, job |-> j]]
      /\ wiki' = wiki /\ job' = job /\ manifest' = manifest /\ rows' = rows
  BY DEF Take, vars, runVars
<1>2. WikiTypeOK
  BY DEF WikiInv
<1>3. /\ call'[c].kind = kind /\ call'[c].run = r /\ call'[c].job = j
      /\ \A d \in Callers : d # c => call'[d] = call[d]
  BY <1>1, <1>2 DEF WikiTypeOK
<1>4. WikiTypeOK'
  BY <1>1, <1>2 DEF WikiTypeOK, Kinds
<1>5. CallsNamed' /\ CallsPassed' /\ WikiOnPassedRuns'
  BY <1>1, <1>3 DEF WikiInv, CallsNamed, CallsPassed, WikiOnPassedRuns
<1>6. \A q \in Runs : PagesOf(q)' \subseteq PagesOf(q) \cup (IF kind = "pages" /\ q = r THEN {c} ELSE {})
  BY <1>3 DEF PagesOf
<1>7. \A q \in Runs \ crossed' : q \in Runs \ crossed /\ (kind = "pages" /\ q = r => PagesOf(q) = {})
  OBVIOUS
<1>8. OnePages'
  BY <1>6, <1>7 DEF WikiInv, OnePages
<1>9. NotYetReviewed'
  BY <1>1, <1>6, <1>7 DEF WikiInv, NotYetReviewed
<1>10. FileWritten' /\ ReviewHasManifest'
  BY <1>1, <1>3 DEF WikiInv, FileWritten, ReviewHasManifest
<1> QED BY <1>4, <1>5, <1>8, <1>9, <1>10 DEF WikiInv

\* The page manifest is written.
LEMMA ManifestWritten ==
  ASSUME WikiInv, NEW c \in Callers, WriteManifest(c)
  PROVE  WikiInv'
<1>. DEFINE r == call[c].run
<1>1. /\ WikiTypeOK /\ r \in Runs /\ call[c].job \in Jobs /\ call[c].kind = "pages"
      /\ NoJob \notin Jobs
  BY CallersAssumption DEF WriteManifest, WikiInv, CallsNamed
<1>2. /\ manifest' = [manifest EXCEPT ![r] = call[c].job]
      /\ call' = [call EXCEPT ![c].kind = "written"]
      /\ wiki' = wiki /\ job' = job /\ crossed' = crossed /\ rows' = rows
  BY DEF WriteManifest, vars, runVars
<1>3. /\ call'[c].kind = "written" /\ call'[c].run = r /\ call'[c].job = call[c].job
      /\ \A d \in Callers : d # c => call'[d] = call[d]
      /\ \A d \in Callers : call'[d].run = call[d].run /\ call'[d].job = call[d].job
      /\ manifest'[r] = call[c].job /\ \A q \in Runs : q # r => manifest'[q] = manifest[q]
  BY <1>1, <1>2 DEF WikiTypeOK
<1>4. WikiTypeOK'
  BY <1>1, <1>2 DEF WikiTypeOK, Kinds
<1>5. CallsNamed' /\ CallsPassed' /\ WikiOnPassedRuns'
  BY <1>1, <1>2, <1>3 DEF WikiInv, CallsNamed, CallsPassed, WikiOnPassedRuns
<1>6. \A q \in Runs : PagesOf(q)' = PagesOf(q)
  BY <1>1, <1>3 DEF PagesOf
<1>7. OnePages' /\ NotYetReviewed'
  BY <1>2, <1>6 DEF WikiInv, OnePages, NotYetReviewed
<1>8. c \in PagesOf(r)
  BY <1>1 DEF PagesOf
<1>9. FileWritten'
  <2>1. SUFFICES ASSUME NEW d \in Callers, call'[d].kind = "written"
                 PROVE /\ manifest'[call'[d].run] # NoJob
                       /\ call'[d].run \in crossed \/ manifest'[call'[d].run] = call'[d].job
    BY <1>2 DEF FileWritten
  <2>2. CASE d = c
    BY <1>1, <1>3, <2>2
  <2>3. CASE d # c /\ call[d].run # r
    BY <1>1, <1>3, <2>1, <2>3 DEF WikiInv, FileWritten, CallsNamed
  <2>4. CASE d # c /\ call[d].run = r
    <3>1. d \in PagesOf(r)
      BY <1>3, <2>1, <2>4 DEF PagesOf
    <3>2. r \in crossed
      BY <1>1, <1>8, <2>4, <3>1 DEF WikiInv, OnePages
    <3> QED BY <1>1, <1>3, <2>4, <3>2
  <2> QED BY <2>2, <2>3, <2>4
<1>10. ReviewHasManifest'
  <2>1. wiki[r] = "ready_for_review" => r \in crossed
    BY <1>1, <1>8 DEF WikiInv, NotYetReviewed
  <2> QED BY <1>1, <1>2, <1>3, <2>1 DEF WikiInv, ReviewHasManifest
<1> QED BY <1>4, <1>5, <1>7, <1>9, <1>10 DEF WikiInv

\* A report is recorded.
LEMMA ReportRecorded ==
  ASSUME WikiInv, NEW c \in Callers, Record(c)
  PROVE  WikiInv'
<1>. DEFINE r == call[c].run
            new == Outcome[call[c].kind]
<1>1. /\ call[c].kind \in {"started", "completed", "failed", "outside", "written"}
      /\ new \in {"wiki_running", "wiki_generated", "wiki_validation_failed", "ready_for_review"}
      /\ new = "ready_for_review" <=> call[c].kind = "written"
  BY DEF Record, Outcome
<1>2. WikiTypeOK /\ r \in Runs /\ call[c].job \in Jobs
  BY <1>1 DEF WikiInv, CallsNamed
<1>3. /\ wiki' = [wiki EXCEPT ![r] = new]
      /\ job' = [job EXCEPT ![r] = IF call[c].kind = "outside" THEN @ ELSE call[c].job]
      /\ call' = [call EXCEPT ![c] = NoCall]
      /\ manifest' = manifest /\ crossed' = crossed /\ rows' = rows
  BY DEF Record, vars, runVars
<1>4. /\ NoCall.kind = "none"
      /\ NoCall \in [kind : Kinds, run : Runs \cup {NoRun}, job : Jobs \cup {NoJob}]
  BY DEF NoCall, Kinds
<1>5. /\ \A d \in Callers : call'[d].kind # "none" => d # c /\ call'[d] = call[d]
      /\ wiki'[r] = new /\ \A q \in Runs : q # r => wiki'[q] = wiki[q] /\ job'[q] = job[q]
      /\ call[c].kind = "written" => job'[r] = call[c].job
  BY <1>2, <1>3, <1>4 DEF WikiTypeOK
<1>6. WikiTypeOK'
  BY <1>1, <1>2, <1>3, <1>4 DEF WikiTypeOK
<1>7. CallsNamed' /\ CallsPassed'
  BY <1>3, <1>5 DEF WikiInv, CallsNamed, CallsPassed
<1>8. WikiOnPassedRuns'
  BY <1>1, <1>2, <1>3, <1>5 DEF WikiInv, CallsPassed, WikiOnPassedRuns
<1>9. \A q \in Runs : PagesOf(q)' \subseteq PagesOf(q) \ {c}
  BY <1>5 DEF PagesOf
<1>10. OnePages'
  BY <1>3, <1>9 DEF WikiInv, OnePages
<1>11. NotYetReviewed'
  <2>1. SUFFICES ASSUME NEW q \in Runs \ crossed, PagesOf(q)' # {}
                 PROVE wiki'[q] # "ready_for_review"
    BY <1>3 DEF NotYetReviewed
  <2>2. PICK d \in PagesOf(q) : d # c
    BY <1>9, <2>1
  <2>3. CASE q # r
    BY <1>5, <2>2, <2>3 DEF WikiInv, NotYetReviewed
  <2>4. CASE q = r
    <3>1. c \notin PagesOf(r)
      BY <2>2, <2>4 DEF WikiInv, OnePages, PagesOf
    <3> QED BY <1>1, <1>5, <2>4, <3>1 DEF PagesOf
  <2> QED BY <2>3, <2>4
<1>12. FileWritten'
  BY <1>3, <1>5 DEF WikiInv, FileWritten
<1>13. ReviewHasManifest'
  <2>1. SUFFICES ASSUME NEW q \in Runs, wiki'[q] = "ready_for_review"
                 PROVE manifest[q] # NoJob /\ (q \in crossed \/ manifest[q] = job'[q])
    BY <1>3 DEF ReviewHasManifest
  <2>2. CASE q # r
    BY <1>5, <2>1, <2>2 DEF WikiInv, ReviewHasManifest
  <2>3. CASE q = r
    BY <1>1, <1>5, <2>1, <2>3 DEF WikiInv, FileWritten
  <2> QED BY <2>2, <2>3
<1> QED BY <1>6, <1>7, <1>8, <1>10, <1>11, <1>12, <1>13 DEF WikiInv

LEMMA WikiStep == IInv /\ WikiInv /\ [PNext]_pVars => WikiInv'
<1>. SUFFICES ASSUME IInv, WikiInv, [PNext]_pVars PROVE WikiInv'
  OBVIOUS
<1>0. [Next]_vars
  BY StepOfQueue
<1>a. call \in [Callers -> [kind : Kinds, run : Runs \cup {NoRun}, job : Jobs \cup {NoJob}]]
  BY DEF WikiInv, WikiTypeOK
<1>1. CASE Boot \/ WorkerStep
  BY <1>0, <1>1, ReportsUnchanged DEF Boot, WorkerStep, pubVars
<1>2. CASE Kill
  <2>1. call' = [c \in Callers |-> IF c \in Callers THEN NoCall ELSE call[c]]
    BY <1>2 DEF Kill
  <2> QED BY <1>0, <1>2, <2>1, ReportsLost DEF Kill
<1>3. CASE \E t \in Threads : ReadRows(t) \/ WriteBoard(t) \/ RefreshFails(t)
  BY <1>0, <1>3, ReportsUnchanged DEF ReadRows, WriteBoard, RefreshFails
<1>4. CASE \E r \in Runs : EnqueueRun(r) \/ \E c \in Callers : SubmitRun(c, r) \/ RetryRun(c, r)
  BY <1>0, <1>4, ReportsUnchanged DEF EnqueueRun, SubmitRun, RetryRun, pubVars
<1>5. ASSUME NEW c \in Callers, NEW r \in Runs, NEW j \in Jobs, TakeStarted(c, r, j)
      PROVE WikiInv'
  <2>1. \A s \in Stages : rows[r][s] = "passed"
    BY <1>5 DEF TakeStarted, IInv, ReadyMeansPlanPassed
  <2> QED BY <1>5, <2>1, ReportTaken DEF TakeStarted
<1>6. ASSUME NEW c \in Callers, NEW r \in Runs, NEW j \in Jobs, TakeReport(c, r, j)
      PROVE WikiInv'
  <2>1. wiki[r] \in {"wiki_running", "wiki_generated"}
    BY <1>6 DEF TakeReport
  <2>2. \A s \in Stages : rows[r][s] = "passed"
    BY <2>1 DEF WikiInv, WikiOnPassedRuns
  <2>3. PICK kind \in {"completed", "failed", "pages", "outside"} :
          /\ Take(c, kind, r, j)
          /\ crossed' = IF kind = "pages" /\ PagesOf(r) # {} THEN crossed \cup {r} ELSE crossed
    BY <1>6 DEF TakeReport
  <2> QED BY <2>1, <2>2, <2>3, ReportTaken
<1>7. ASSUME NEW c \in Callers, RecordFails(c) PROVE WikiInv'
  <2>1. call' = [d \in Callers |-> IF d \in {c} THEN NoCall ELSE call[d]]
    BY <1>7, <1>a DEF RecordFails
  <2> QED BY <1>0, <1>7, <2>1, ReportsLost DEF RecordFails
<1>8. CASE \E c \in Callers : WriteManifest(c) \/ Record(c)
  BY <1>8, ManifestWritten, ReportRecorded
<1>9. CASE UNCHANGED pVars
  BY <1>0, <1>9, ReportsUnchanged DEF pVars, pubVars
<1> QED BY <1>1, <1>2, <1>3, <1>4, <1>5, <1>6, <1>7, <1>8, <1>9 DEF PNext

-----------------------------------------------------------------------------
(* The board.                                                              *)

BoardTypeOK ==
  /\ turn \in [Threads -> {"none", "read", "write"}]
  /\ DOMAIN reading = Threads

\* A refresh that has not read the rows yet will find them as they are then.
ToBeRead == \E t \in Threads : turn[t] = "read"

\* The clock is ahead of every run, so a new one is the newest.
ClockIsAhead == \A r \in Runs : createdAt[r] <= clock

\* Unless a refresh was lost or crossed, one thread at most is about to write, ...
OneWriter ==
  doubt \/ \A t, u \in Threads : turn[t] = "write" /\ turn[u] = "write" => t = u

\* ... what it has read is how the settled runs ended, ...
ReadingIsTrue ==
  doubt \/ ToBeRead \/ \A t \in Threads : turn[t] = "write" =>
    \A r \in Runs : status[r] \in Settled /\ Shown(r) => reading[t][r] = GroupOf[status[r]]

\* ... and if there is none, so is what the board says.
BoardIsTrue ==
  doubt \/ ToBeRead \/ (\E t \in Threads : turn[t] = "write")
    \/ \A r \in Runs : status[r] \in Settled /\ Shown(r) => board[r] = GroupOf[status[r]]

BoardInv == BoardTypeOK /\ ClockIsAhead /\ OneWriter /\ ReadingIsTrue /\ BoardIsTrue

LEMMA BoardInit == PInit => BoardInv
BY DEF PInit, Init, Settled, BoardInv, BoardTypeOK, ClockIsAhead, OneWriter, ReadingIsTrue, BoardIsTrue

LEMMA BoardShows == BoardInv => BoardTellsOutcome
BY DEF BoardInv, BoardTypeOK, BoardIsTrue, ToBeRead, BoardTellsOutcome, Refreshing

\* The worker settles a run only at the end of an attempt.
LEMMA SettlesAtEnd ==
  ASSUME TypeOK, Work \/ DbError, NEW r \in Runs, status'[r] \in Settled
  PROVE  status'[r] = status[r] \/ (pc \in Holding /\ pc' = "idle")
<1>1. CASE \E q \in Runs : Claim(q)
  BY <1>1 DEF Claim, TypeOK, Settled
<1>2. CASE BeginStage
  BY <1>2 DEF BeginStage, TypeOK, Settled
<1>3. CASE SkipStage \/ MarkRunning \/ RunStage \/ PassStage \/ FailStage \/ DbError
  BY <1>3 DEF SkipStage, MarkRunning, RunStage, PassStage, FailStage, DbError, runVars
<1>4. CASE CloseFailed \/ Finish \/ AbortRun
  BY <1>4 DEF CloseFailed, Finish, AbortRun, Holding
<1> QED BY <1>1, <1>2, <1>3, <1>4 DEF Work

\* Only a new run moves others off the list, ...
LEMMA ListUnchanged ==
  ASSUME UNCHANGED createdAt, NEW r \in Runs
  PROVE  Shown(r)' <=> Shown(r)
BY DEF Shown, Newer

\* ... and it brings none back.
LEMMA ListShrinks ==
  ASSUME TypeOK, ClockIsAhead, NEW q \in Runs, Submit(q), NEW r \in Runs, r # q, Shown(r)'
  PROVE  Shown(r)
<1> DEFINE now == {x \in Runs : createdAt'[x] > createdAt'[r]}
<1>1. Newer(r) \subseteq now
  BY DEF Newer, Submit, TypeOK, ClockIsAhead
<1>2. IsFiniteSet(now) /\ IsFiniteSet(Newer(r))
  BY <1>1, BoardAssumption, FS_Subset
<1>3. Cardinality(Newer(r)) <= Cardinality(now)
  BY <1>1, <1>2, FS_Subset
<1>4. Cardinality(Newer(r)) \in Nat /\ Cardinality(now) \in Nat /\ BoardSize \in Nat
  BY <1>2, FS_CardinalityType, BoardAssumption
<1>5. Cardinality(now) < BoardSize
  BY DEF Shown, Newer
<1> QED BY <1>3, <1>4, <1>5 DEF Shown

LEMMA ClockStaysAhead ==
  ASSUME TypeOK, ClockIsAhead, UNCHANGED <<clock, createdAt>> \/ \E q \in Runs : Submit(q)
  PROVE  ClockIsAhead'
BY DEF TypeOK, ClockIsAhead, Submit

\* A step that settles no run, brings none back and leaves the board alone.
LEMMA BoardUnchanged ==
  ASSUME BoardInv, ClockIsAhead', UNCHANGED boardVars,
         \A r \in Runs : status'[r] \in Settled /\ Shown(r)' =>
           status'[r] = status[r] /\ Shown(r)
  PROVE  BoardInv'
BY DEF boardVars, BoardInv, BoardTypeOK, OneWriter, ReadingIsTrue, BoardIsTrue, ToBeRead

\* A step that asks for a refresh, whatever it does to the runs.
LEMMA RefreshAsked ==
  ASSUME BoardInv, ClockIsAhead', NEW t \in Threads, turn[t] = "none", Refresh(t),
         UNCHANGED <<reading, board, doubt>>
  PROVE  BoardInv'
<1>1. BoardTypeOK' /\ turn'[t] = "read" /\ \A u \in Threads : u # t => turn'[u] = turn[u]
  BY DEF BoardInv, BoardTypeOK, Refresh
<1>2. ToBeRead'
  BY <1>1 DEF ToBeRead
<1>3. OneWriter'
  BY <1>1 DEF BoardInv, OneWriter
<1> QED BY <1>1, <1>2, <1>3 DEF BoardInv, ReadingIsTrue, BoardIsTrue

LEMMA RowsRead ==
  ASSUME BoardInv, ClockIsAhead', NEW t \in Threads, ReadRows(t)
  PROVE  BoardInv'
<1> DEFINE listed == [r \in Runs |-> IF Shown(r) THEN GroupOf[status[r]] ELSE "none"]
<1>1. /\ turn' = [turn EXCEPT ![t] = "write"]
      /\ reading' = [reading EXCEPT ![t] = listed]
      /\ doubt' = (\E u \in Threads : turn[u] = "write")
      /\ status' = status /\ UNCHANGED createdAt
  BY DEF ReadRows, vars, runVars
<1>2. /\ BoardTypeOK' /\ turn'[t] = "write" /\ \A u \in Threads : u # t => turn'[u] = turn[u]
      /\ reading'[t] = listed
  BY <1>1 DEF BoardInv, BoardTypeOK
<1>3. ~ doubt' => \A u \in Threads : turn'[u] = "write" => u = t
  BY <1>1, <1>2
<1>4. \A r \in Runs : Shown(r)' => reading'[t][r] = GroupOf[status'[r]]
  BY <1>1, <1>2, ListUnchanged
<1> QED BY <1>1, <1>2, <1>3, <1>4 DEF BoardInv, OneWriter, ReadingIsTrue, BoardIsTrue

LEMMA BoardWritten ==
  ASSUME BoardInv, ClockIsAhead', NEW t \in Threads, WriteBoard(t)
  PROVE  BoardInv'
<1>1. /\ turn[t] = "write" /\ turn' = [turn EXCEPT ![t] = "none"] /\ board' = reading[t]
      /\ reading' = [reading EXCEPT ![t] = Blank] /\ doubt' = doubt /\ status' = status
      /\ UNCHANGED createdAt
  BY DEF WriteBoard, vars, runVars
<1>2. BoardTypeOK' /\ turn'[t] = "none" /\ \A u \in Threads : u # t => turn'[u] = turn[u]
  BY <1>1 DEF BoardInv, BoardTypeOK
<1>3. doubt \/ \A u \in Threads : turn'[u] # "write"
  BY <1>1, <1>2 DEF BoardInv, OneWriter
<1>4. ToBeRead => ToBeRead'
  BY <1>1, <1>2 DEF ToBeRead
<1>5. BoardIsTrue'
  BY <1>1, <1>4, ListUnchanged DEF BoardInv, ReadingIsTrue, BoardIsTrue
<1> QED BY <1>1, <1>2, <1>3, <1>5 DEF BoardInv, OneWriter, ReadingIsTrue

\* Every other step leaves the times of creation alone.
LEMMA CreatedBySubmit ==
  ASSUME [PNext]_pVars
  PROVE  UNCHANGED <<clock, createdAt>> \/ \E r \in Runs : Submit(r)
<1>1. CASE Boot \/ Kill
  BY <1>1 DEF Boot, Kill, Start, Crash, runVars
<1>2. CASE WorkerStep
  BY <1>2 DEF WorkerStep, Work, DbError, Claim, SkipStage, BeginStage, MarkRunning, RunStage,
              PassStage, FailStage, CloseFailed, Finish, AbortRun, runVars, vars
<1>3. CASE \E r \in Runs : EnqueueRun(r) \/ \E c \in Callers : SubmitRun(c, r)
  BY <1>3 DEF EnqueueRun, SubmitRun
<1>4. CASE \E t \in Threads : ReadRows(t) \/ WriteBoard(t) \/ RefreshFails(t)
  BY <1>4 DEF ReadRows, WriteBoard, RefreshFails, vars, runVars
<1>5. CASE \E c \in Callers, r \in Runs : RetryRun(c, r)
  BY <1>5 DEF RetryRun, Retry
<1>6. CASE \/ \E c \in Callers, r \in Runs, j \in Jobs : TakeStarted(c, r, j) \/ TakeReport(c, r, j)
           \/ \E c \in Callers : WriteManifest(c) \/ Record(c) \/ RecordFails(c)
           \/ UNCHANGED pVars
  BY <1>6 DEF TakeStarted, TakeReport, Take, WriteManifest, Record, RecordFails, pVars, vars, runVars
<1> QED BY <1>1, <1>2, <1>3, <1>4, <1>5, <1>6 DEF PNext

LEMMA BoardStep == IInv /\ BoardInv /\ [PNext]_pVars => BoardInv'
<1>. SUFFICES ASSUME IInv, BoardInv, [PNext]_pVars PROVE BoardInv'
  OBVIOUS
<1>0. TypeOK /\ ClockIsAhead /\ ClockIsAhead'
  BY CreatedBySubmit, ClockStaysAhead DEF IInv, BoardInv
<1>a. ASSUME UNCHANGED <<status, createdAt>>
      PROVE  \A r \in Runs : status'[r] = status[r] /\ (Shown(r)' => Shown(r))
  BY <1>a, ListUnchanged
<1>1. CASE Boot
  <2>1. UNCHANGED boardVars /\ UNCHANGED <<status, createdAt>>
    BY <1>1 DEF Boot, Start, runVars, pubVars
  <2> QED BY <1>0, <1>a, <2>1, BoardUnchanged
<1>2. CASE Kill
  <2>1. BoardTypeOK' /\ ~ ToBeRead' /\ \A t \in Threads : turn'[t] = "none"
    BY <1>2 DEF Kill, BoardTypeOK, ToBeRead
  <2>2. /\ UNCHANGED <<status, createdAt>> /\ board' = board
        /\ ~ doubt' => ~ doubt /\ \A t \in Threads : turn[t] = "none"
    BY <1>2 DEF Kill, Crash, runVars, Refreshing
  <2>3. BoardIsTrue'
    BY <1>a, <2>2 DEF BoardInv, BoardIsTrue, ToBeRead
  <2> QED BY <1>0, <2>1, <2>3 DEF BoardInv, OneWriter, ReadingIsTrue
<1>3. CASE WorkerStep
  <2>1. Worker \in Threads /\ turn[Worker] = "none"
    BY <1>3 DEF WorkerStep, Refreshing, Threads
  <2>2. CASE ReportsToBoard
    BY <1>0, <1>3, <2>1, <2>2, RefreshAsked DEF WorkerStep
  <2>3. CASE ~ ReportsToBoard
    <3>1. \A r \in Runs : status'[r] \in Settled => status'[r] = status[r]
      BY <1>0, <1>3, <2>3, SettlesAtEnd DEF WorkerStep, ReportsToBoard
    <3>2. UNCHANGED createdAt
      BY <1>3 DEF WorkerStep, Work, DbError, Claim, SkipStage, BeginStage, MarkRunning, RunStage,
                  PassStage, FailStage, CloseFailed, Finish, AbortRun, runVars
    <3> QED BY <1>0, <1>3, <2>3, <3>1, <3>2, ListUnchanged, BoardUnchanged DEF WorkerStep, boardVars
  <2> QED BY <2>2, <2>3
<1>4. ASSUME NEW t \in Threads, ReadRows(t) \/ WriteBoard(t) \/ RefreshFails(t) PROVE BoardInv'
  <2>1. CASE RefreshFails(t)
    <3>1. BoardTypeOK' /\ doubt'
      BY <2>1 DEF RefreshFails, BoardInv, BoardTypeOK
    <3> QED BY <1>0, <3>1 DEF BoardInv, OneWriter, ReadingIsTrue, BoardIsTrue
  <2> QED BY <1>0, <1>4, <2>1, RowsRead, BoardWritten
<1>5. ASSUME NEW c \in Callers, NEW r \in Runs, SubmitRun(c, r) PROVE BoardInv'
  BY <1>0, <1>5, RefreshAsked DEF SubmitRun, Free, Refreshing, Threads
<1>6. ASSUME NEW c \in Callers, NEW r \in Runs, RetryRun(c, r) PROVE BoardInv'
  <2>1. /\ \A q \in Runs : status'[q] \in Settled => status'[q] = status[q]
        /\ UNCHANGED createdAt /\ UNCHANGED boardVars
    BY <1>0, <1>6 DEF RetryRun, Retry, TypeOK, Settled, pubVars
  <2> QED BY <1>0, <2>1, ListUnchanged, BoardUnchanged
<1>7. CASE \/ \E c \in Callers, r \in Runs, j \in Jobs : TakeStarted(c, r, j) \/ TakeReport(c, r, j)
           \/ \E c \in Callers : WriteManifest(c) \/ Record(c) \/ RecordFails(c)
           \/ UNCHANGED pVars
  <2>1. UNCHANGED boardVars /\ UNCHANGED <<status, createdAt>>
    BY <1>7 DEF TakeStarted, TakeReport, Take, WriteManifest, Record, RecordFails, pVars, pubVars,
                vars, runVars
  <2> QED BY <1>0, <1>a, <2>1, BoardUnchanged
<1>8. ASSUME NEW q \in Runs, EnqueueRun(q) PROVE BoardInv'
  <2>1. Submit(q) /\ UNCHANGED boardVars /\ status'[q] = "queued"
    BY <1>0, <1>8 DEF EnqueueRun, Submit, TypeOK, pubVars
  <2>2. \A r \in Runs : r # q => status'[r] = status[r] /\ (Shown(r)' => Shown(r))
    BY <1>0, <2>1, ListShrinks DEF Submit, TypeOK
  <2> QED BY <1>0, <2>1, <2>2, BoardUnchanged DEF Settled
<1> QED BY <1>1, <1>2, <1>3, <1>4, <1>5, <1>6, <1>7, <1>8 DEF PNext

-----------------------------------------------------------------------------

\* The handlers and the board disturb nothing the queue and the worker promise:
\* every behaviour of the composed system is one of PipelineRuns, whose theorems
\* therefore hold of it (api.py: the wiki handlers write no column of theirs).
THEOREM QueueIsQueue == PSpec => Spec
<1>1. PInit => Init
  BY DEF PInit
<1> QED BY <1>1, StepOfQueue, PTL DEF PSpec, Spec

\* No wiki job is recorded of a run before all of its stages have passed
\* (api.py: _require_wiki_ready and the updates after it).
THEOREM WikiStartsOnPassed == PSpec => []WikiOnPassedRuns
<1>1. PSpec => []IInv
  BY QueueIsQueue, InvariantHolds, PTL
<1>2. WikiInv => WikiOnPassedRuns
  BY DEF WikiInv
<1> QED BY <1>1, <1>2, WikiInit, WikiStep, PTL DEF PSpec

\* A run offered for review has its page manifest, of the job that the row names
\* unless two manifests crossed (api.py: submit_generated_page_manifest).
THEOREM ReviewsHaveManifests == PSpec => []ReviewHasManifest
<1>1. PSpec => []IInv
  BY QueueIsQueue, InvariantHolds, PTL
<1>2. WikiInv => ReviewHasManifest
  BY DEF WikiInv
<1> QED BY <1>1, <1>2, WikiInit, WikiStep, PTL DEF PSpec

\* The board comes to tell how every run among the newest ended, unless the last
\* refresh was lost or crossed by another one, for every length of the list and
\* although new runs move others off it (export.py: refresh_kanban and its callers).
THEOREM BoardSettles == PSpec => []BoardTellsOutcome
<1>1. PSpec => []IInv
  BY QueueIsQueue, InvariantHolds, PTL
<1> QED BY <1>1, BoardInit, BoardStep, BoardShows, PTL DEF PSpec

=============================================================================
