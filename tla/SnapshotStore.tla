--------------------------- MODULE SnapshotStore ----------------------------
(***************************************************************************)
(* The acquire stage (pipeline/stages/acquire.py) and the snapshot         *)
(* directory of a commit that it fills: raw/ with three artifacts and a    *)
(* manifest of their checksums, and extracted/, the tree that every later  *)
(* stage reads.  The directory belongs to the commit, not to the run: runs *)
(* that resolve to one commit share it.                                    *)
(*                                                                         *)
(* One worker takes one run at a time.  A stage may raise, and the process *)
(* may be killed, between any two steps; either way the run can be retried *)
(* later, and a stage that has passed is not run again.                    *)
(***************************************************************************)
EXTENDS Naturals, Sequences

CONSTANTS
  Runs, NoRun,
  Commits,      \* what a ref of the repository may resolve to
  NoCommit,     \* runs.commit_sha IS NULL
  MaxDamages    \* bound: how often an artifact on disk is damaged

ASSUME StoreAssumption ==
  /\ NoRun \notin Runs
  /\ NoCommit \notin Commits
  /\ MaxDamages \in Nat

\* The raw artifacts, in the order in which they are written.
Order == <<"bundle", "mirror", "source">>
Artifacts == {"bundle", "mirror", "source"}

\* The artifacts that come out of a shell pipe, whose status is that of zstd:
\* a producer that dies leaves a short file behind and no error.
Piped == {"mirror", "source"}

VARIABLES
  disk,       \* raw/: the content of each artifact of a commit
  sums,       \* the content each checksum of the manifest stands for
  tree,       \* extracted/ of a commit
  commitOf,   \* runs.commit_sha, which names the snapshot directory
  state,      \* of a run: acquire to do, acquire passed, all stages passed
  pc,         \* where the worker stands
  run,        \* its run
  commit,     \* the commit that acquire resolved the ref to
  next,       \* the position in Order of the artifact to be written
  damages     \* damages so far

dirVars == <<disk, sums, tree>>
runVars == <<commitOf, state>>
workerVars == <<pc, run, commit, next>>
vars == <<dirVars, runVars, workerVars, damages>>

\* short: tar refuses it; cut: it ends between two members, which tar accepts.
\* Only the source archive is ever unpacked, so only it is told to be cut.
Contents == {"absent", "short", "cut", "whole", "damaged"}
NoSums == [a \in Artifacts |-> "absent"]
PCs == {"idle", "validate", "reuse", "quarantine", "clear", "write", "writing",
        "extract", "checksum", "reextract", "record", "pass", "later"}

StoreTypeOK ==
  /\ disk \in [Commits -> [Artifacts -> Contents]]
  /\ sums \in [Commits -> [Artifacts -> Contents]]
  /\ tree \in [Commits -> {"absent", "short", "cut", "whole"}]
  /\ commitOf \in [Runs -> Commits \cup {NoCommit}]
  /\ state \in [Runs -> {"new", "acquired", "finished"}]
  /\ pc \in PCs
  /\ run \in Runs \cup {NoRun}
  /\ commit \in Commits \cup {NoCommit}
  /\ next \in 1..(Len(Order) + 1)
  /\ damages \in 0..MaxDamages

Init ==
  /\ disk = [c \in Commits |-> [a \in Artifacts |-> "absent"]]
  /\ sums = [c \in Commits |-> NoSums]
  /\ tree = [c \in Commits |-> "absent"]
  /\ commitOf = [r \in Runs |-> NoCommit]
  /\ state = [r \in Runs |-> "new"]
  /\ pc = "idle" /\ run = NoRun /\ commit = NoCommit /\ next = 1
  /\ damages = 0

HasManifest(c) == sums[c] # NoSums

-----------------------------------------------------------------------------
(* The worker.                                                             *)

\* The fetch, and the commit that the run's ref resolves to at that moment.
Begin(r, c) ==
  /\ pc = "idle"
  /\ state[r] = "new"
  /\ pc' = "validate" /\ run' = r /\ commit' = c
  /\ UNCHANGED <<dirVars, runVars, next, damages>>

\* Mutant: the manifest alone is taken as proof.
ManifestExists(c) == HasManifest(c)

\* Mutant: the verification never succeeds.
NeverValid(c) == c \notin Commits

\* _raw_snapshot_is_valid: a manifest, every checksum right, the bundle readable.
Valid(c) ==
  /\ HasManifest(c)
  /\ \A a \in Artifacts : disk[c][a] # "absent" /\ disk[c][a] = sums[c][a]
  /\ disk[c]["bundle"] = "whole"

Validate ==
  /\ pc = "validate"
  /\ pc' = IF Valid(commit) THEN "reuse"
           ELSE IF \E a \in Artifacts : disk[commit][a] # "absent" THEN "quarantine"
           ELSE "clear"
  /\ next' = 1
  /\ UNCHANGED <<dirVars, runVars, run, commit, damages>>

\* Mutant: what an interrupted acquire left in raw/ stays there.
LeaveInPlace ==
  /\ pc = "quarantine"
  /\ pc' = "clear"
  /\ UNCHANGED <<dirVars, runVars, run, commit, next, damages>>

\* raw_dir.replace(quarantine): the whole directory moves away, manifest included.
Quarantine ==
  /\ pc = "quarantine"
  /\ disk' = [disk EXCEPT ![commit] = [a \in Artifacts |-> "absent"]]
  /\ sums' = [sums EXCEPT ![commit] = NoSums]
  /\ pc' = "clear"
  /\ UNCHANGED <<tree, runVars, run, commit, next, damages>>

\* rmtree and mkdir of extracted/, on both paths
DropTree ==
  /\ pc \in {"clear", "reuse"}
  /\ tree' = [tree EXCEPT ![commit] = "absent"]
  /\ pc' = IF pc = "clear" THEN "write" ELSE "reextract"
  /\ UNCHANGED <<disk, sums, runVars, run, commit, next, damages>>

\* zstd does not write over a file; git bundle does.
MayWrite(a) == a \in Piped => disk[commit][a] = "absent"

\* An artifact that is being written is short until its command ends.
StartWrite ==
  /\ pc = "write"
  /\ next <= Len(Order)
  /\ MayWrite(Order[next])
  /\ disk' = [disk EXCEPT ![commit][Order[next]] = "short"]
  /\ pc' = "writing"
  /\ UNCHANGED <<sums, tree, runVars, run, commit, next, damages>>

EndWrite ==
  /\ pc = "writing"
  /\ disk' = [disk EXCEPT ![commit][Order[next]] = "whole"]
  /\ pc' = "write" /\ next' = next + 1
  /\ UNCHANGED <<sums, tree, runVars, run, commit, damages>>

\* The producer of a pipe dies, and zstd ends well all the same.
EndWriteShort ==
  /\ pc = "writing"
  /\ Order[next] \in Piped
  /\ \E part \in {"short", "cut"} :
       /\ part = "cut" => Order[next] = "source"
       /\ disk' = [disk EXCEPT ![commit][Order[next]] = part]
  /\ pc' = "write" /\ next' = next + 1
  /\ UNCHANGED <<sums, tree, runVars, run, commit, damages>>

\* tar starts to unpack the source archive
StartExtract ==
  /\ \/ pc = "write" /\ next > Len(Order) /\ pc' = "extract"
     \/ pc = "reextract" /\ tree[commit] = "absent" /\ UNCHANGED pc
  /\ tree' = [tree EXCEPT ![commit] = "short"]
  /\ UNCHANGED <<disk, sums, runVars, run, commit, next, damages>>

\* The status of zstd -dc | tar is that of tar, which does not ask for the end
\* of the archive.
Unpackable(c) == disk[c]["source"] \in {"whole", "cut"}

EndExtract ==
  /\ pc \in {"extract", "reextract"}
  /\ tree[commit] = "short"
  /\ Unpackable(commit)
  /\ tree' = [tree EXCEPT ![commit] = disk[commit]["source"]]
  /\ pc' = IF pc = "extract" THEN "checksum" ELSE "record"
  /\ UNCHANGED <<disk, sums, runVars, run, commit, next, damages>>

\* bundle verify, checksums, and write_json of the manifest, which replaces
\* the file in one step; the size limit may still raise before it.
WriteManifest ==
  /\ pc = "checksum"
  /\ disk[commit]["bundle"] = "whole"
  /\ sums' = [sums EXCEPT ![commit] = disk[commit]]
  /\ pc' = "record"
  /\ UNCHANGED <<disk, tree, runVars, run, commit, next, damages>>

\* Mutant: the run id is written into the commit column.
RecordRunId ==
  /\ pc = "record"
  /\ commitOf' = [commitOf EXCEPT ![run] = run]
  /\ pc' = "pass"
  /\ UNCHANGED <<dirVars, state, run, commit, next, damages>>

\* _record_source_and_run: update_run(commit_sha, snapshot_path)
Record ==
  /\ pc = "record"
  /\ commitOf' = [commitOf EXCEPT ![run] = commit]
  /\ pc' = "pass"
  /\ UNCHANGED <<dirVars, state, run, commit, next, damages>>

Rest == pc' = "idle" /\ run' = NoRun /\ commit' = NoCommit /\ next' = 1

\* The runner's set_stage(acquire, passed), and on to the stages after it
Pass ==
  /\ pc = "pass"
  /\ state' = [state EXCEPT ![run] = "acquired"]
  /\ pc' = "later"
  /\ UNCHANGED <<dirVars, commitOf, run, commit, next, damages>>

\* A retry after acquire has passed goes straight to the stages after it.
Resume(r) ==
  /\ pc = "idle"
  /\ state[r] = "acquired"
  /\ pc' = "later" /\ run' = r /\ commit' = commitOf[r]
  /\ UNCHANGED <<dirVars, runVars, next, damages>>

\* The stages after acquire end well.
FinishRun ==
  /\ pc = "later"
  /\ state' = [state EXCEPT ![run] = "finished"]
  /\ Rest
  /\ UNCHANGED <<dirVars, commitOf, damages>>

\* A command that cannot succeed makes the stage raise.
Refuse ==
  /\ \/ pc = "write" /\ next <= Len(Order) /\ ~ MayWrite(Order[next])
     \/ pc \in {"extract", "reextract"} /\ ~ Unpackable(commit)
     \/ pc = "checksum" /\ disk[commit]["bundle"] # "whole"
  /\ Rest
  /\ UNCHANGED <<dirVars, runVars, damages>>

\* The stage raises for another reason (the network, a timeout, the size limit,
\* the database) or the process is killed: what is on disk stays as it is.
Interrupt ==
  /\ pc # "idle"
  /\ Rest
  /\ UNCHANGED <<dirVars, runVars, damages>>

\* A preserved artifact is damaged on disk while the worker is idle.
Damage(c, a) ==
  /\ pc = "idle"
  /\ damages < MaxDamages
  /\ HasManifest(c)
  /\ disk[c][a] # "absent"
  /\ disk' = [disk EXCEPT ![c][a] = "damaged"]
  /\ damages' = damages + 1
  /\ UNCHANGED <<sums, tree, runVars, workerVars>>

\* The steps of an attempt that the worker has begun.
Attempt ==
  \/ Validate \/ Quarantine \/ DropTree \/ StartWrite \/ EndWrite
  \/ StartExtract \/ EndExtract \/ WriteManifest \/ Record \/ Pass
  \/ FinishRun \/ Refuse

Next ==
  \/ \E r \in Runs, c \in Commits : Begin(r, c)
  \/ \E r \in Runs : Resume(r)
  \/ Attempt \/ EndWriteShort \/ Interrupt
  \/ \E c \in Commits, a \in Artifacts : Damage(c, a)

Spec == Init /\ [][Next]_vars

\* An attempt that has begun goes on by itself, and every command that acquire runs
\* ends.  Nothing begins an attempt by itself: only clients retry a run.
FairSpec == Spec /\ WF_vars(Attempt)

-----------------------------------------------------------------------------
(* Properties.                                                             *)

\* An artifact is never written over: a raw set that cannot be used is moved
\* away before a new one is begun (acquire.py: "never overwritten", and the
\* quarantine of a partial or corrupt directory).
WriteOnce ==
  [][damages' = damages =>
       \A c \in Commits, a \in Artifacts :
         disk[c][a] \in {"cut", "whole", "damaged"} => disk'[c][a] \in {disk[c][a], "absent"}]_vars

\* Whatever was interrupted or damaged before, a run that gets through acquire
\* leaves a raw set that its manifest vouches for, a readable bundle, and the
\* tree of its source archive.
AcquiredIsIntact ==
  pc \in {"record", "pass"} =>
    /\ \A a \in Artifacts : disk[commit][a] = sums[commit][a]
    /\ disk[commit]["bundle"] = "whole"
    /\ Unpackable(commit) /\ tree[commit] = disk[commit]["source"]

\* Unless the disk is damaged, the source of every run that passed acquire
\* stays preserved, whatever later runs of the same commit do.
AcquiredIsPreserved ==
  damages = 0 => \A r \in Runs : state[r] # "new" =>
    /\ commitOf[r] # NoCommit
    /\ Valid(commitOf[r])
    /\ Unpackable(commitOf[r])

\* When interruptions stop, but for commands that have to fail on what they find,
\* a run that is retried as long as it has not finished does finish: no directory
\* that an earlier attempt, its own or another run's, left behind can block it.
RetriedRunsAcquire ==
  <>[][(Interrupt => Refuse) /\ ~ EndWriteShort]_vars =>
    \A r \in Runs : []<>(run = r \/ state[r] = "finished") => <>(state[r] = "finished")

\* A stage after acquire reads the tree of its commit as it was preserved.
StagesReadExactTree == pc = "later" => tree[commit] = disk[commit]["source"]

=============================================================================
