------------------------ MODULE SnapshotStore_proofs -------------------------
(***************************************************************************)
(* What the snapshot store preserves, for every number of runs, commits    *)
(* and damages.                                                            *)
(***************************************************************************)
EXTENDS SnapshotStore, TLAPS

(***************************************************************************)
(* The inductive invariant.  A manifest stands for artifacts that are all  *)
(* there, and while the disk is undamaged it stands for a set that would   *)
(* pass verification; so acquire can only move a set away that it did not  *)
(* finish itself.                                                          *)
(***************************************************************************)

\* Where acquire builds a set anew: there is no manifest for the commit.
Building == {"clear", "write", "writing", "extract", "checksum"}

\* Where acquire is about to use, or has just made, a set that is valid.
Trusted == {"reuse", "reextract", "record", "pass"}

ManifestVouches ==
  \A c \in Commits : HasManifest(c) =>
    /\ \A a \in Artifacts : disk[c][a] # "absent"
    /\ damages = 0 => Valid(c) /\ Unpackable(c)

WorkerPlace ==
  /\ pc # "idle" => run \in Runs /\ commit \in Commits
  /\ pc \in Building => ~ HasManifest(commit)
  /\ pc \in Trusted => Valid(commit)
  /\ pc = "quarantine" => ~ Valid(commit)
  /\ pc \in {"quarantine", "clear"} => next = 1
  /\ pc \in {"checksum", "record", "pass"} =>
       Unpackable(commit) /\ tree[commit] = disk[commit]["source"]
  /\ pc = "pass" => commitOf[run] = commit
  /\ pc \notin {"idle", "later"} => state[run] = "new"
  /\ pc = "later" => state[run] = "acquired" /\ commit = commitOf[run]

\* A set is built from nothing, one artifact after the other.
Fresh ==
  /\ pc = "clear" => \A a \in Artifacts : disk[commit][a] = "absent"
  /\ pc = "write" => \A i \in 1..Len(Order) : disk[commit][Order[i]] = "absent" <=> i >= next
  /\ pc = "writing" =>
       /\ next <= Len(Order)
       /\ \A i \in 1..Len(Order) : disk[commit][Order[i]] = "absent" <=> i > next
       /\ disk[commit][Order[next]] = "short"
  /\ pc \in {"extract", "checksum"} => \A a \in Artifacts : disk[commit][a] # "absent"

SourcesKept ==
  \A r \in Runs : state[r] # "new" =>
    /\ commitOf[r] \in Commits
    /\ damages = 0 => HasManifest(commitOf[r])

StoreInv ==
  /\ StoreTypeOK
  /\ ManifestVouches
  /\ WorkerPlace
  /\ Fresh
  /\ SourcesKept

LEMMA OrderFacts ==
  /\ Len(Order) = 3
  /\ Order[1] = "bundle" /\ Order[2] = "mirror" /\ Order[3] = "source"
BY DEF Order

LEMMA StoreInit == Init => StoreInv
BY StoreAssumption, OrderFacts
DEF Init, StoreInv, StoreTypeOK, ManifestVouches, WorkerPlace, Fresh, SourcesKept, HasManifest,
    NoSums, Contents, PCs, Building, Trusted

LEMMA StoreStep == StoreInv /\ [Next]_vars => StoreInv'
<1> SUFFICES ASSUME StoreInv, [Next]_vars PROVE StoreInv'
  OBVIOUS
<1> USE StoreAssumption, OrderFacts
    DEF StoreInv, StoreTypeOK, ManifestVouches, WorkerPlace, Fresh, SourcesKept, HasManifest,
        Valid, Unpackable, NoSums, Artifacts, Contents, PCs, Building, Trusted
<1>1. ASSUME NEW r \in Runs, NEW c \in Commits, Begin(r, c) PROVE StoreInv'
  BY <1>1 DEF Begin, dirVars, runVars
<1>2. ASSUME NEW r \in Runs, Resume(r) PROVE StoreInv'
  BY <1>2 DEF Resume, dirVars, runVars
<1>3. CASE Validate
  BY <1>3 DEF Validate, dirVars, runVars
<1>4. CASE Quarantine
  <2>1. /\ pc = "quarantine" /\ pc' = "clear" /\ UNCHANGED <<tree, runVars, run, commit, next, damages>>
        /\ disk' = [disk EXCEPT ![commit] = [a \in Artifacts |-> "absent"]]
        /\ sums' = [sums EXCEPT ![commit] = NoSums]
    BY <1>4 DEF Quarantine
  <2>2. StoreTypeOK'
    BY <2>1 DEF runVars
  <2>3. ~ HasManifest(commit)'
    BY <2>1
  <2>4. \A c \in Commits \ {commit} : disk'[c] = disk[c] /\ sums'[c] = sums[c]
    BY <2>1
  <2>5. ManifestVouches'
    BY <2>1, <2>3, <2>4
  <2>6. WorkerPlace' /\ Fresh'
    BY <2>1, <2>3 DEF runVars
  <2>7. \A r \in Runs : damages = 0 /\ state[r] # "new" => commitOf[r] # commit
    BY <2>1
  <2>8. SourcesKept'
    BY <2>1, <2>4, <2>7 DEF runVars
  <2>9. QED
    BY <2>2, <2>5, <2>6, <2>8
<1>5. CASE DropTree
  <2>1. CASE pc = "clear"
    BY <1>5, <2>1 DEF DropTree, runVars
  <2>2. CASE pc = "reuse"
    BY <1>5, <2>2 DEF DropTree, runVars
  <2>3. QED
    BY <1>5, <2>1, <2>2 DEF DropTree
<1>6. CASE StartWrite
  BY <1>6 DEF StartWrite, runVars
<1>7. CASE EndWrite
  BY <1>7 DEF EndWrite, runVars
<1>8. CASE EndWriteShort
  BY <1>8 DEF EndWriteShort, runVars
<1>9. CASE StartExtract
  BY <1>9 DEF StartExtract, runVars
<1>10. CASE EndExtract
  BY <1>10 DEF EndExtract, runVars
<1>11. CASE WriteManifest
  <2>1. /\ pc = "checksum" /\ pc' = "record" /\ disk[commit]["bundle"] = "whole"
        /\ sums' = [sums EXCEPT ![commit] = disk[commit]]
        /\ UNCHANGED <<disk, tree, runVars, run, commit, next, damages>>
    BY <1>11 DEF WriteManifest
  <2>2. HasManifest(commit)' /\ Valid(commit)'
    BY <2>1
  <2>3. \A c \in Commits \ {commit} : sums'[c] = sums[c]
    BY <2>1
  <2>4. ManifestVouches'
    BY <2>1, <2>2, <2>3
  <2>5. StoreTypeOK' /\ WorkerPlace' /\ Fresh'
    BY <2>1, <2>2 DEF runVars
  <2>6. SourcesKept'
    BY <2>1, <2>2, <2>3 DEF runVars
  <2>7. QED
    BY <2>4, <2>5, <2>6
<1>12. CASE Record
  BY <1>12 DEF Record, dirVars
<1>13. CASE Pass
  BY <1>13 DEF Pass, dirVars
<1>14. CASE FinishRun
  BY <1>14 DEF FinishRun, Rest, dirVars
<1>15. CASE Refuse \/ Interrupt
  BY <1>15 DEF Refuse, Interrupt, Rest, dirVars, runVars
<1>16. ASSUME NEW c \in Commits, NEW a \in Artifacts, Damage(c, a) PROVE StoreInv'
  BY <1>16 DEF Damage, runVars, workerVars
<1>17. CASE UNCHANGED vars
  BY <1>17 DEF vars, dirVars, runVars, workerVars
<1> HIDE DEF StoreInv
<1>18. QED
  BY <1>1, <1>2, <1>3, <1>4, <1>5, <1>6, <1>7, <1>8, <1>9, <1>10, <1>11, <1>12, <1>13, <1>14,
     <1>15, <1>16, <1>17 DEF Next, Attempt

THEOREM StoreInvariant == Spec => []StoreInv
BY StoreInit, StoreStep, PTL DEF Spec

\* Every variable of the snapshot store keeps its type.
THEOREM StoreTypeCorrect == Spec => []StoreTypeOK
<1>1. StoreInv => StoreTypeOK
  BY DEF StoreInv
<1>2. QED
  BY StoreInvariant, <1>1, PTL

\* A run that gets through acquire leaves a raw set that its manifest vouches
\* for and the tree of its archive, whatever was interrupted or damaged before.
THEOREM AcquireIsSound == Spec => []AcquiredIsIntact
<1>1. StoreInv => AcquiredIsIntact
  BY DEF StoreInv, WorkerPlace, Trusted, Valid, AcquiredIsIntact
<1>2. QED
  BY StoreInvariant, <1>1, PTL

\* Unless the disk is damaged, no later run takes away what a run has preserved.
THEOREM SourcesStayPreserved == Spec => []AcquiredIsPreserved
<1>1. StoreInv => AcquiredIsPreserved
  BY StoreAssumption DEF StoreInv, ManifestVouches, SourcesKept, AcquiredIsPreserved
<1>2. QED
  BY StoreInvariant, <1>1, PTL

\* Only building writes into raw/, and it finds no finished artifact there.
LEMMA DiskStep ==
  ASSUME StoreInv, [Next]_vars, damages' = damages,
         NEW c \in Commits, NEW a \in Artifacts, disk[c][a] \in {"cut", "whole", "damaged"}
  PROVE  disk'[c][a] \in {disk[c][a], "absent"}
<1>1. CASE disk' = disk
  BY <1>1
<1>2. CASE Quarantine
  BY <1>2 DEF Quarantine, StoreInv, StoreTypeOK
<1>3. CASE StartWrite
  BY <1>3, OrderFacts, StoreAssumption
  DEF StartWrite, StoreInv, StoreTypeOK, Fresh, WorkerPlace, Artifacts, Contents
<1>4. CASE EndWrite
  BY <1>4, OrderFacts, StoreAssumption
  DEF EndWrite, StoreInv, StoreTypeOK, Fresh, WorkerPlace, Artifacts, Contents
<1>a. CASE EndWriteShort
  BY <1>a, OrderFacts, StoreAssumption
  DEF EndWriteShort, StoreInv, StoreTypeOK, Fresh, WorkerPlace, Artifacts, Contents
<1>5. \/ disk' = disk \/ Quarantine \/ StartWrite \/ EndWrite \/ EndWriteShort
      \/ \E d \in Commits, b \in Artifacts : Damage(d, b)
  BY DEF Next, Attempt, Begin, Resume, Validate, DropTree, StartExtract, EndExtract,
         WriteManifest, Record, Pass, FinishRun, Refuse, Interrupt, vars, dirVars
<1>6. ~ \E d \in Commits, b \in Artifacts : Damage(d, b)
  BY StoreAssumption DEF Damage, StoreInv, StoreTypeOK
<1>7. QED
  BY <1>1, <1>2, <1>3, <1>4, <1>a, <1>5, <1>6

\* An artifact is never written over.
THEOREM NeverOverwritten == Spec => WriteOnce
<1>1. StoreInv /\ [Next]_vars =>
        [damages' = damages =>
           \A c \in Commits, a \in Artifacts :
             disk[c][a] \in {"cut", "whole", "damaged"} => disk'[c][a] \in {disk[c][a], "absent"}]_vars
  BY DiskStep
<1>2. QED
  BY StoreInvariant, <1>1, PTL DEF Spec, WriteOnce

-----------------------------------------------------------------------------
(* The one step after which a stage may find another tree than was         *)
(* preserved is an interruption of the re-extraction.                      *)

\* The tree of a preserved source is exact but while acquire replaces it.
TreesKept ==
  damages = 0 => \A r \in Runs : state[r] # "new" =>
    \/ tree[commitOf[r]] = disk[commitOf[r]]["source"]
    \/ pc = "reextract" /\ commit = commitOf[r]

\* Unless acquire is interrupted while it extracts a snapshot again that it
\* reuses, or the disk is damaged, every later stage reads the tree as it was
\* preserved: no other failure, retry or run of the same commit disturbs it
\* (acquire.py: the reuse path removes extracted/ before it unpacks).
THEOREM OnlyReextractionSpoils ==
  Spec /\ [][Interrupt => pc # "reextract"]_vars => [](damages = 0 => StagesReadExactTree)
<1>1. Init => TreesKept
  BY DEF Init, TreesKept
<1>2. ASSUME StoreInv, TreesKept, [Next]_vars, [Interrupt => pc # "reextract"]_vars
      PROVE  TreesKept'
  <2> SUFFICES ASSUME damages' = 0, NEW r \in Runs, state'[r] # "new"
               PROVE  \/ tree'[commitOf'[r]] = disk'[commitOf'[r]]["source"]
                      \/ pc' = "reextract" /\ commit' = commitOf'[r]
    BY DEF TreesKept
  <2>a. StoreTypeOK /\ ManifestVouches /\ WorkerPlace /\ SourcesKept
    BY <1>2 DEF StoreInv
  <2> USE StoreAssumption DEF TreesKept, StoreTypeOK, WorkerPlace, SourcesKept
  <2>1. ASSUME NEW c \in Commits, NEW a \in Artifacts, Damage(c, a) PROVE FALSE
    BY <2>1, <2>a DEF Damage
  <2>2. damages = 0
    BY <1>2, <2>1 DEF Next, Attempt, Begin, Resume, Validate, Quarantine, DropTree, StartWrite,
       EndWrite, EndWriteShort, StartExtract, EndExtract, WriteManifest, Record, Pass,
       FinishRun, Refuse, Interrupt, vars
  <2>3. ASSUME state[r] # "new"
        PROVE  /\ commitOf[r] \in Commits
               /\ Valid(commitOf[r]) /\ Unpackable(commitOf[r])
               /\ pc \in Building \cup {"quarantine"} => commitOf[r] # commit
    BY <2>2, <2>3, <2>a DEF ManifestVouches, Valid, Building
  <2>4. ASSUME NEW q \in Runs, NEW c \in Commits, Begin(q, c) PROVE TreesKept'
    BY <1>2, <2>2, <2>4, <2>a DEF Begin, dirVars, runVars
  <2>5. ASSUME NEW q \in Runs, Resume(q) PROVE TreesKept'
    BY <1>2, <2>2, <2>5, <2>a DEF Resume, dirVars, runVars
  <2>6. CASE Validate
    BY <1>2, <2>2, <2>6, <2>a DEF Validate, dirVars, runVars
  <2>7. CASE Quarantine
    BY <1>2, <2>2, <2>3, <2>7, <2>a DEF Quarantine, runVars
  <2>8. CASE DropTree
    BY <1>2, <2>2, <2>3, <2>8, <2>a DEF DropTree, runVars, Building
  <2>9. CASE StartWrite \/ EndWrite \/ EndWriteShort
    BY <1>2, <2>2, <2>3, <2>9, <2>a DEF StartWrite, EndWrite, EndWriteShort, runVars, Building
  <2>10. CASE StartExtract
    BY <1>2, <2>2, <2>3, <2>10, <2>a DEF StartExtract, runVars, Building
  <2>11. CASE EndExtract
    BY <1>2, <2>2, <2>3, <2>11, <2>a DEF EndExtract, runVars, Building
  <2>12. CASE WriteManifest
    BY <1>2, <2>2, <2>12, <2>a DEF WriteManifest, runVars
  <2>13. CASE Record
    BY <1>2, <2>2, <2>13, <2>a DEF Record, dirVars
  <2>14. CASE Pass
    BY <1>2, <2>2, <2>14, <2>a DEF Pass, dirVars
  <2>15. CASE FinishRun
    BY <1>2, <2>2, <2>15, <2>a DEF FinishRun, Rest, dirVars
  <2>16. CASE Refuse
    BY <1>2, <2>2, <2>3, <2>16, <2>a DEF Refuse, Rest, dirVars, runVars
  <2>17. CASE Interrupt
    <3>1. pc # "reextract"
      BY <1>2, <2>17 DEF Interrupt, Rest, vars, workerVars
    <3>2. QED
      BY <1>2, <2>2, <2>17, <3>1, <2>a DEF Interrupt, Rest, dirVars, runVars
  <2>18. CASE UNCHANGED vars
    BY <1>2, <2>2, <2>18, <2>a DEF vars, dirVars, runVars, workerVars
  <2>19. QED
    BY <1>2, <2>1, <2>4, <2>5, <2>6, <2>7, <2>8, <2>9, <2>10, <2>11, <2>12, <2>13, <2>14,
       <2>15, <2>16, <2>17, <2>18 DEF Next, Attempt
<1>3. StoreInv /\ TreesKept => (damages = 0 => StagesReadExactTree)
  BY DEF StoreInv, WorkerPlace, TreesKept, StagesReadExactTree
<1>4. QED
  BY <1>1, <1>2, <1>3, StoreInvariant, PTL DEF Spec

-----------------------------------------------------------------------------
(* What an earlier attempt left behind never makes a command fail.         *)

\* The bundle is readable once its command has ended, the archive that acquire
\* goes on to unpack is one that it wrote, and a manifest vouches for an archive
\* that tar has unpacked.
ReadableSet ==
  /\ \/ pc \in {"write", "writing"} /\ next > 1
     \/ pc \in {"extract", "checksum"}
     => disk[commit]["bundle"] = "whole"
  /\ (pc = "write" /\ next > Len(Order)) \/ pc = "extract"
     => disk[commit]["source"] \in {"short", "cut", "whole"}
  /\ \A c \in Commits : HasManifest(c) => sums[c]["source"] \in {"whole", "cut"}

\* Acquire refuses a run at one place only, over a source archive that the same
\* attempt wrote and that the end of its producer left short; no artifact is in
\* the way of a command, and a set that is reused can be unpacked, damages
\* included (acquire.py: the quarantine and _raw_snapshot_is_valid).
THEOREM OnlyOwnShortArchiveRefused ==
  Spec => [][Refuse => pc = "extract" /\ disk[commit]["source"] = "short"]_vars
<1> USE OrderFacts DEF ReadableSet
<1>1. Init => ReadableSet
  BY DEF Init, HasManifest, NoSums
<1>2. ASSUME StoreInv, ReadableSet, [Next]_vars PROVE ReadableSet'
  <2>a. StoreTypeOK /\ WorkerPlace /\ Fresh
    BY <1>2 DEF StoreInv
  <2> USE <1>2, <2>a DEF StoreTypeOK, HasManifest
  <2>1. ASSUME NEW r \in Runs, NEW c \in Commits, Begin(r, c) PROVE ReadableSet'
    BY <2>1 DEF Begin, dirVars, runVars
  <2>2. ASSUME NEW r \in Runs, Resume(r) PROVE ReadableSet'
    BY <2>2 DEF Resume, dirVars, runVars
  <2>3. CASE Validate
    BY <2>3 DEF Validate, dirVars, runVars
  <2>4. CASE Quarantine
    <3>1. pc' = "clear" /\ sums' = [sums EXCEPT ![commit] = NoSums]
      BY <2>4 DEF Quarantine
    <3>2. QED
      BY <3>1
  <2>5. CASE DropTree
    BY <2>5 DEF DropTree, runVars, WorkerPlace
  <2>6. CASE StartWrite
    BY <2>6 DEF StartWrite, runVars, WorkerPlace, Artifacts
  <2>7. CASE EndWrite \/ EndWriteShort
    <3>1. next \in 1..3 /\ commit \in Commits /\ pc = "writing"
      BY <2>7 DEF EndWrite, EndWriteShort, WorkerPlace, Fresh
    <3>2. PICK content \in {"short", "cut", "whole"} :
            /\ disk' = [disk EXCEPT ![commit][Order[next]] = content]
            /\ pc' = "write" /\ next' = next + 1 /\ UNCHANGED <<sums, commit>>
            /\ Order[next] = "bundle" => content = "whole"
      BY <2>7 DEF EndWrite, EndWriteShort, Piped
    <3>3. CASE next = 1
      BY <3>1, <3>2, <3>3 DEF Artifacts
    <3>4. CASE next = 2
      BY <3>1, <3>2, <3>4 DEF Artifacts
    <3>5. CASE next = 3
      BY <3>1, <3>2, <3>5 DEF Artifacts
    <3>6. QED
      BY <3>1, <3>3, <3>4, <3>5
  <2>8. CASE StartExtract
    BY <2>8 DEF StartExtract, runVars
  <2>9. CASE EndExtract
    BY <2>9 DEF EndExtract, runVars
  <2>10. CASE WriteManifest
    <3>1. /\ pc' = "record" /\ sums' = [sums EXCEPT ![commit] = disk[commit]]
          /\ disk[commit]["source"] \in {"whole", "cut"}
      BY <2>10 DEF WriteManifest, WorkerPlace, Unpackable
    <3>2. QED
      BY <3>1
  <2>11. CASE Record \/ Pass
    BY <2>11 DEF Record, Pass, dirVars
  <2>12. CASE FinishRun \/ Refuse \/ Interrupt
    BY <2>12 DEF FinishRun, Refuse, Interrupt, Rest, dirVars
  <2>13. ASSUME NEW c \in Commits, NEW a \in Artifacts, Damage(c, a) PROVE ReadableSet'
    BY <2>13 DEF Damage, workerVars
  <2>14. CASE UNCHANGED vars
    BY <2>14 DEF vars, dirVars, runVars, workerVars
  <2>15. QED
    BY <2>1, <2>2, <2>3, <2>4, <2>5, <2>6, <2>7, <2>8, <2>9, <2>10, <2>11, <2>12, <2>13,
       <2>14 DEF Next, Attempt
<1>3. StoreInv /\ ReadableSet => (Refuse => pc = "extract" /\ disk[commit]["source"] = "short")
  <2> SUFFICES ASSUME StoreInv, ReadableSet, Refuse
               PROVE  pc = "extract" /\ disk[commit]["source"] = "short"
    OBVIOUS
  <2>a. StoreTypeOK /\ WorkerPlace /\ Fresh
    BY DEF StoreInv
  <2>1. ~ (pc = "write" /\ next <= Len(Order) /\ ~ MayWrite(Order[next]))
    BY <2>a DEF Fresh, MayWrite, StoreTypeOK
  <2>2. pc # "checksum" \/ disk[commit]["bundle"] = "whole"
    OBVIOUS
  <2>3. ~ (pc = "reextract" /\ ~ Unpackable(commit))
    BY <2>a DEF WorkerPlace, Trusted, Valid, Unpackable, Artifacts
  <2>4. pc = "extract" /\ ~ Unpackable(commit)
    BY <2>1, <2>2, <2>3 DEF Refuse
  <2>5. QED
    BY <2>4 DEF Unpackable
<1>4. QED
  BY <1>1, <1>2, <1>3, StoreInvariant, PTL DEF Spec

=============================================================================
