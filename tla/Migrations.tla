------------------------------ MODULE Migrations ------------------------------
(***************************************************************************)
(* What the service does to its database when it starts (db.initialize and *)
(* the migrations of pipeline/db.py), on databases that are new, older     *)
(* than the migrations, or left by an earlier release, with a kill or an   *)
(* exception at any point and the restart after it.                        *)
(*                                                                         *)
(* One connection does all the work, but not in one transaction: a         *)
(* definition of data (CREATE, DROP, ALTER) joins the open transaction or, *)
(* when none is open, takes effect on disk at once; only a change of rows  *)
(* opens a transaction; executescript commits what is open before it runs. *)
(*                                                                         *)
(* A row stands for its identity.  The columns of one _ensure_column loop  *)
(* count as one, since a loop that was cut short adds the rest later.      *)
(***************************************************************************)
EXTENDS Naturals

CONSTANTS
  Units,     \* rows of the units table, and of the full-text table over it
  Symbols    \* rows of the symbols table

VARIABLES
  disk,      \* the database as committed
  work,      \* the database as the connection sees it
  open,      \* a transaction is open
  pc,        \* the statement that comes next
  version,   \* the migration that is being looked at
  old,       \* the rows read for copying
  orig       \* history: the rows of the database as it was first found

vars == <<disk, work, open, pc, version, old, orig>>

Versions == 1..5
Copied == {"units", "symbols"}
Fresh(t) == IF t = "units" THEN "units_new" ELSE "symbols_new"
Tables == {"units", "symbols", "units_new", "symbols_new", "units_fts", "imports"}

\* "legacy" tables have the id as their primary key, "keyed" ones the run and the id.
Absent == [form |-> "absent", rows |-> {}]
Legacy(s) == [form |-> "legacy", rows |-> s]
Keyed(s) == [form |-> "keyed", rows |-> s]

Table ==
  [form : {"legacy", "keyed"}, rows : SUBSET (Units \cup Symbols)] \cup {Absent}

Database ==
  [versions : SUBSET Versions,   \* schema_migrations
   columns : SUBSET {2, 5},      \* the columns of that migration are there
   tab : [Tables -> Table]]

States ==
  {"down", "check", "columns", "script", "create", "drop_new", "create_new",
   "clear", "copy", "drop_old", "rename", "drop_fts", "create_fts", "fill_fts",
   "record", "up"}

TypeOK ==
  /\ disk \in Database
  /\ work \in Database
  /\ open \in BOOLEAN
  /\ pc \in States
  /\ version \in 1..6
  /\ old \in SUBSET (Units \cup Symbols)
  /\ orig \in [Copied -> SUBSET (Units \cup Symbols)]

\* A database that migration k was the last one to change, with the rows u and
\* s; one older than the migrations (k = 0) has a table of units at most.
Found(k, t, u, s) ==
  IF t = "units" THEN IF k >= 3 THEN Keyed(u) ELSE Legacy(u)
  ELSE IF t = "symbols" /\ k >= 1 THEN IF k >= 4 THEN Keyed(s) ELSE Legacy(s)
  ELSE IF t = "units_fts" /\ k >= 1 THEN Keyed(u)
  ELSE IF t = "imports" /\ k >= 4 THEN Keyed({})
  ELSE Absent

Released(k, u, s) ==
  [versions |-> 1..k,
   columns |-> {2, 5} \cap 1..k,
   tab |-> [t \in Tables |-> Found(k, t, u, s)]]

NewDatabase ==
  [versions |-> {}, columns |-> {}, tab |-> [t \in Tables |-> Absent]]

Init ==
  /\ \/ /\ disk = NewDatabase
        /\ orig = [t \in Copied |-> {}]
     \/ \E k \in 0..5, u \in SUBSET Units, s \in SUBSET Symbols :
          /\ k = 0 => s = {}
          /\ disk = Released(k, u, s)
          /\ orig = [t \in Copied |-> IF t = "units" THEN u ELSE s]
  /\ work = disk
  /\ open = FALSE
  /\ pc = "down"
  /\ version = 1
  /\ old = {}

-----------------------------------------------------------------------------
(* The connection (the sqlite3 module, as connect() sets it up).           *)

\* A definition of data: part of the open transaction, or on disk at once.
Ddl(db) ==
  /\ work' = db
  /\ disk' = IF open THEN disk ELSE db
  /\ UNCHANGED open

\* A change of rows opens a transaction.
Dml(db) ==
  /\ work' = db
  /\ open' = TRUE
  /\ UNCHANGED disk

Commit ==
  /\ disk' = work
  /\ open' = FALSE
  /\ UNCHANGED work

Put(t, table) == [work EXCEPT !.tab[t] = table]

At(statement) == pc = statement
Goto(statement) == pc' = statement /\ UNCHANGED version

-----------------------------------------------------------------------------
(* initialize                                                              *)

\* The table that migrations 3 and 4 rebuild.
Target == IF version = 3 THEN "units" ELSE "symbols"

First(v) ==
  IF v = 1 THEN "script" ELSE IF v \in {3, 4} THEN "drop_new" ELSE "columns"

Open ==
  /\ At("down")
  /\ pc' = "check" /\ version' = 1
  /\ work' = disk /\ open' = FALSE
  /\ UNCHANGED <<disk, old, orig>>

\* if v not in _migration_versions(connection)
Check ==
  /\ At("check")
  /\ version \in Versions
  /\ IF version \in work.versions
     THEN pc' = "check" /\ version' = version + 1
     ELSE Goto(First(version))
  /\ UNCHANGED <<disk, work, open, old, orig>>

\* Mutant: the connection is left without a commit.
CloseOnly ==
  /\ At("check")
  /\ version = 6
  /\ pc' = "up" /\ open' = FALSE /\ work' = disk
  /\ UNCHANGED <<disk, version, old, orig>>

Close ==
  /\ At("check")
  /\ version = 6
  /\ Goto("up")
  /\ Commit
  /\ UNCHANGED <<old, orig>>

\* Mutant: the next migration is taken for the one that was applied.
RecordAsNext ==
  /\ At("record")
  /\ Dml([work EXCEPT !.versions = @ \cup {version + 1}])
  /\ pc' = "check" /\ version' = version + 1
  /\ UNCHANGED <<old, orig>>

Record ==
  /\ At("record")
  /\ Dml([work EXCEPT !.versions = @ \cup {version}])
  /\ pc' = "check" /\ version' = version + 1
  /\ UNCHANGED <<old, orig>>

-----------------------------------------------------------------------------
(* The statements of the migrations.                                       *)

\* _ensure_column, as often as columns are missing.
Columns ==
  /\ At("columns")
  /\ Ddl([work EXCEPT !.columns = @ \cup {version}])
  /\ Goto(IF version = 2 THEN "script" ELSE "record")
  /\ UNCHANGED <<old, orig>>

Script ==
  /\ At("script")
  /\ Commit
  /\ Goto("create")
  /\ UNCHANGED <<old, orig>>

\* The tables of a script, in the order of its statements.
Create1 == <<"units", "units_fts", "symbols">>
Create2 == <<"symbols">>
Create4 == <<"imports">>
Created == IF version = 1 THEN Create1 ELSE IF version = 2 THEN Create2 ELSE Create4

IsAbsent(t) == work.tab[t] = Absent

\* CREATE TABLE IF NOT EXISTS
Create ==
  /\ At("create")
  /\ \E i \in DOMAIN Created :
       LET t == Created[i] IN
       /\ IsAbsent(t)
       /\ \A j \in 1..(i - 1) : ~ IsAbsent(Created[j])
       /\ Ddl(Put(t, IF t \in Copied THEN Legacy({}) ELSE Keyed({})))
  /\ UNCHANGED <<pc, version, old, orig>>

EndScript ==
  /\ At("create")
  /\ \A i \in DOMAIN Created : ~ IsAbsent(Created[i])
  /\ Goto("record")
  /\ UNCHANGED <<disk, work, open, old, orig>>

\* Mutant: what an interrupted attempt has left is not dropped.
ReadOnly ==
  /\ At("drop_new")
  /\ old' = work.tab[Target].rows
  /\ Goto("create_new")
  /\ UNCHANGED <<disk, work, open, orig>>

\* SELECT, then DROP TABLE IF EXISTS ..._new
DropNew ==
  /\ At("drop_new")
  /\ old' = work.tab[Target].rows
  /\ Ddl(Put(Fresh(Target), Absent))
  /\ Goto("create_new")
  /\ UNCHANGED orig

\* Without IF NOT EXISTS: raises when the table is there.
CreateNew ==
  /\ At("create_new")
  /\ IsAbsent(Fresh(Target))
  /\ Ddl(Put(Fresh(Target), Keyed({})))
  /\ Goto(IF version = 3 THEN "clear" ELSE "copy")
  /\ UNCHANGED <<old, orig>>

\* DELETE FROM units_new: no row goes, but the transaction is opened.
Clear ==
  /\ At("clear")
  /\ Dml(Put("units_new", Keyed({})))
  /\ Goto("copy")
  /\ UNCHANGED <<old, orig>>

\* Mutant: every INSERT is committed by itself.
CopyAutocommit ==
  /\ At("copy")
  /\ Ddl(Put(Fresh(Target), Keyed(old)))
  /\ Goto("drop_old")
  /\ UNCHANGED <<old, orig>>

\* INSERT OR REPLACE, once for each row, if there are any
Copy ==
  /\ At("copy")
  /\ IF old = {} THEN UNCHANGED <<disk, work, open>>
                 ELSE Dml(Put(Fresh(Target), Keyed(old)))
  /\ Goto("drop_old")
  /\ UNCHANGED <<old, orig>>

DropOld ==
  /\ At("drop_old")
  /\ Ddl(Put(Target, Absent))
  /\ Goto("rename")
  /\ UNCHANGED <<old, orig>>

Rename ==
  /\ At("rename")
  /\ IsAbsent(Target)
  /\ Ddl([work EXCEPT !.tab[Target] = work.tab[Fresh(Target)],
                      !.tab[Fresh(Target)] = Absent])
  /\ Goto(IF version = 3 THEN "drop_fts" ELSE "script")
  /\ UNCHANGED <<old, orig>>

DropFts ==
  /\ At("drop_fts")
  /\ Ddl(Put("units_fts", Absent))
  /\ Goto("create_fts")
  /\ UNCHANGED <<old, orig>>

CreateFts ==
  /\ At("create_fts")
  /\ IsAbsent("units_fts")
  /\ Ddl(Put("units_fts", Keyed({})))
  /\ Goto("fill_fts")
  /\ UNCHANGED <<old, orig>>

\* Mutant: the new full-text table is left empty.
FtsLeftEmpty ==
  /\ At("fill_fts")
  /\ Goto("record")
  /\ UNCHANGED <<disk, work, open, old, orig>>

\* executemany opens a transaction even when there are no rows.
FillFts ==
  /\ At("fill_fts")
  /\ Dml(Put("units_fts", Keyed(work.tab["units"].rows)))
  /\ Goto("record")
  /\ UNCHANGED <<old, orig>>

-----------------------------------------------------------------------------

\* Only committed changes survive; the container is restarted.
Kill ==
  /\ pc # "down"
  /\ pc' = "down"
  /\ work' = disk /\ open' = FALSE
  /\ UNCHANGED <<disk, version, old, orig>>

Migrate3and4 ==
  DropNew \/ CreateNew \/ Clear \/ Copy \/ DropOld \/ Rename
    \/ DropFts \/ CreateFts \/ FillFts

Initialize ==
  \/ Open \/ Check \/ Record \/ Close
  \/ Columns \/ Script \/ Create \/ EndScript
  \/ Migrate3and4

Next == Initialize \/ Kill

Spec == Init /\ [][Next]_vars
FairSpec == Spec /\ WF_vars(Initialize)

-----------------------------------------------------------------------------
(* Properties.                                                             *)

\* No row of units or symbols is ever missing on disk, whichever statement of
\* whichever migration was the last one before a kill.
RowsPreserved == \A t \in Copied : disk.tab[t].rows = orig[t]

\* What a migration is for.  (Migration 1 only creates tables: an empty symbols
\* table may be missing again between two statements of migration 4.)
Effect(db, v) ==
  /\ v \in {2, 5} => v \in db.columns
  /\ v = 3 => /\ db.tab["units"].form = "keyed"
              /\ db.tab["units_fts"] = Keyed(db.tab["units"].rows)
              /\ db.tab["units_new"] = Absent
  /\ v = 4 => /\ db.tab["symbols"].form = "keyed"
              /\ db.tab["symbols_new"] = Absent
              /\ db.tab["imports"] # Absent

Applied(db) == \A v \in db.versions : 1..v \subseteq db.versions /\ Effect(db, v)

\* A migration that is recorded on disk has left its whole schema there, and so
\* has every earlier one, in spite of the commits in between; what it has not
\* recorded it may have done in part.
RecordedIsApplied == Applied(disk)

\* The service runs only on the schema of this release.
UpIsCurrent == pc = "up" => disk.versions = Versions

\* Whatever an interrupted start has left behind, a later one gets through.
StartupCompletes == <>[][~ Kill]_vars => <>(pc = "up")

=============================================================================
