-------------------------- MODULE Migrations_proofs --------------------------
(***************************************************************************)
(* Safety of the migrations, for every set of rows and every number of     *)
(* interrupted starts.                                                     *)
(***************************************************************************)
EXTENDS Migrations, TLAPS

\* Without a transaction the connection sees what is on disk.
Quiet == ~ open => work = disk

\* The migration that is being applied is the first one that is not recorded.
InOrder ==
  /\ pc \notin {"down", "up"} => 1..(version - 1) \subseteq work.versions
  /\ pc \notin {"down", "up", "check"} => version \in Versions \ work.versions

\* Which migration a statement belongs to.
Belongs ==
  /\ pc = "columns" => version \in {2, 5}
  /\ pc \in {"script", "create"} => version \in {1, 2, 4}
  /\ pc \in {"drop_new", "create_new", "copy", "drop_old", "rename"} => version \in {3, 4}
  /\ pc \in {"clear", "drop_fts", "create_fts", "fill_fts"} => version = 3

\* The connection sees all rows, too, but for a table that it has dropped in
\* the open transaction and not replaced yet.
RowsSeen ==
  \A t \in Copied : \/ work.tab[t].rows = orig[t]
                    \/ pc = "rename" /\ t = Target /\ open

\* The copy is complete before the original goes, and without a transaction
\* only an empty original goes.
CopyIsGood ==
  /\ pc \in {"create_new", "clear", "copy"} => old = orig[Target]
  /\ pc \in {"clear", "copy"} => work.tab[Fresh(Target)] = Keyed({})
  /\ pc \in {"drop_old", "rename"} => work.tab[Fresh(Target)] = Keyed(orig[Target])
  /\ pc = "drop_old" /\ ~ open => orig[Target] = {}

\* What a migration has done by the time it gets to a statement.
DoneSoFar ==
  /\ version = 2 /\ pc \in {"script", "create", "record"} => 2 \in work.columns
  /\ version = 3 /\ pc \in {"drop_fts", "create_fts", "fill_fts", "record"} =>
       work.tab["units"].form = "keyed" /\ work.tab["units_new"] = Absent
  /\ version = 4 /\ pc \in {"script", "create", "record"} =>
       work.tab["symbols"].form = "keyed" /\ work.tab["symbols_new"] = Absent
  /\ pc = "record" => Effect(work, version)

IInv ==
  /\ TypeOK /\ Quiet /\ InOrder /\ Belongs
  /\ RowsPreserved /\ RowsSeen /\ CopyIsGood
  /\ Applied(disk) /\ Applied(work) /\ DoneSoFar
  /\ UpIsCurrent

-----------------------------------------------------------------------------
(* What the three kinds of statements do to the invariant.                 *)

\* Putting a table in place changes that table and nothing else.
LEMMA PutChanges ==
  ASSUME work \in Database, NEW t \in Tables, NEW x \in Table
  PROVE  /\ Put(t, x) \in Database
         /\ Put(t, x).versions = work.versions
         /\ Put(t, x).columns = work.columns
         /\ Put(t, x).tab[t] = x
         /\ \A q \in Tables \ {t} : Put(t, x).tab[q] = work.tab[q]
  BY DEF Put, Database

LEMMA TablesAreTyped ==
  ASSUME NEW s \in SUBSET (Units \cup Symbols)
  PROVE  Absent \in Table /\ Legacy(s) \in Table /\ Keyed(s) \in Table
  BY DEF Table, Absent, Legacy, Keyed

\* A definition of data keeps the disk sound when what the connection sees is.
LEMMA DdlIsSafe ==
  ASSUME IInv, NEW db \in Database, Ddl(db), orig' = orig, Applied(db),
         ~ open => \A t \in Copied : db.tab[t].rows = orig[t]
  PROVE  /\ work' \in Database /\ disk' \in Database /\ open' \in BOOLEAN
         /\ Applied(work)' /\ Applied(disk)'
         /\ RowsPreserved' /\ Quiet'
  BY DEF IInv, TypeOK, Ddl, Applied, Effect, RowsPreserved, Quiet, Absent, Keyed

\* A change of rows leaves the disk alone.
LEMMA DmlIsSafe ==
  ASSUME IInv, NEW db \in Database, Dml(db), orig' = orig, Applied(db)
  PROVE  /\ work' \in Database /\ disk' \in Database /\ open' \in BOOLEAN
         /\ Applied(work)' /\ Applied(disk)'
         /\ RowsPreserved' /\ Quiet'
  BY DEF IInv, TypeOK, Dml, Applied, Effect, RowsPreserved, Quiet, Absent, Keyed

\* A commit is safe whenever the connection sees all rows.
LEMMA CommitIsSafe ==
  ASSUME IInv, Commit, orig' = orig, pc # "rename"
  PROVE  /\ work' \in Database /\ disk' \in Database /\ open' \in BOOLEAN
         /\ Applied(work)' /\ Applied(disk)'
         /\ RowsPreserved' /\ Quiet'
  BY DEF IInv, TypeOK, Commit, Applied, Effect, RowsPreserved, RowsSeen, Quiet, Absent, Keyed

-----------------------------------------------------------------------------
(* One lemma for each part of Next.                                        *)

\* Outside of the migrations most of the invariant says nothing.
LEMMA AtRest ==
  ASSUME pc = "down"
  PROVE  InOrder /\ Belongs /\ CopyIsGood /\ DoneSoFar /\ UpIsCurrent
  BY DEF InOrder, Belongs, CopyIsGood, DoneSoFar, UpIsCurrent

LEMMA InitHolds == Init => IInv
<1> SUFFICES ASSUME Init PROVE IInv
  OBVIOUS
<1>1. /\ disk \in Database /\ Applied(disk) /\ RowsPreserved
      /\ orig \in [Copied -> SUBSET (Units \cup Symbols)]
  <2>1. CASE disk = NewDatabase /\ orig = [t \in Copied |-> {}]
    <3>1. disk.versions = {} /\ \A t \in Copied : disk.tab[t].rows = {}
      BY <2>1 DEF NewDatabase, Copied, Tables, Absent
    <3>2. disk \in Database
      BY <2>1 DEF NewDatabase, Database, Table
    <3> QED
      BY <2>1, <3>1, <3>2 DEF Applied, RowsPreserved
  <2>2. ASSUME NEW k \in 0..5, NEW u \in SUBSET Units, NEW s \in SUBSET Symbols,
               k = 0 => s = {},
               disk = Released(k, u, s),
               orig = [t \in Copied |-> IF t = "units" THEN u ELSE s]
        PROVE  /\ disk \in Database /\ Applied(disk) /\ RowsPreserved
               /\ orig \in [Copied -> SUBSET (Units \cup Symbols)]
    <3>1. \A t \in Tables : Found(k, t, u, s) \in Table
      BY DEF Found, Table, Absent, Legacy, Keyed
    <3>2. disk \in Database
      BY <2>2, <3>1 DEF Released, Database, Versions
    <3>3. Applied(disk)
      BY <2>2 DEF Released, Found, Applied, Effect, Tables, Absent, Keyed
    <3>4. RowsPreserved
      <4>1. disk.tab["units"].rows = u /\ disk.tab["symbols"].rows = s
        BY <2>2 DEF Released, Found, Tables, Absent, Legacy, Keyed
      <4> QED
        BY <2>2, <4>1 DEF RowsPreserved, Copied
    <3> QED
      BY <2>2, <3>2, <3>3, <3>4
  <2> QED
    BY <2>1, <2>2 DEF Init
<1>2. work = disk /\ open = FALSE /\ pc = "down" /\ version = 1 /\ old = {}
  BY DEF Init
<1>3. TypeOK
  <2>1. version \in 1..6 /\ old \in SUBSET (Units \cup Symbols)
    BY <1>2
  <2> QED
    BY <1>1, <1>2, <2>1 DEF TypeOK, States
<1>4. Quiet /\ RowsSeen /\ Applied(work)
  BY <1>1, <1>2 DEF Quiet, RowsSeen, RowsPreserved, Applied, Effect, Keyed, Absent
<1> QED
  BY <1>1, <1>2, <1>3, <1>4, AtRest DEF IInv

LEMMA OpenHolds == IInv /\ Open => IInv'
<1> SUFFICES ASSUME IInv, Open PROVE IInv'
  OBVIOUS
<1>1. pc' = "check" /\ version' = 1 /\ work' = disk /\ open' = FALSE
      /\ disk' = disk /\ old' = old /\ orig' = orig
  BY DEF Open
<1>2. TypeOK'
  <2>1. version' \in 1..6
    BY <1>1
  <2> QED
    BY <1>1, <2>1 DEF IInv, TypeOK, States
<1>3. RowsPreserved' /\ RowsSeen' /\ Applied(disk)' /\ Applied(work)' /\ Quiet'
  BY <1>1 DEF IInv, RowsPreserved, RowsSeen, Quiet, Applied, Effect, Keyed, Absent
<1>4. InOrder' /\ Belongs' /\ CopyIsGood' /\ DoneSoFar' /\ UpIsCurrent'
  BY <1>1 DEF InOrder, Belongs, CopyIsGood, DoneSoFar, UpIsCurrent
<1> QED
  BY <1>2, <1>3, <1>4 DEF IInv

LEMMA KillHolds == IInv /\ Kill => IInv'
<1> SUFFICES ASSUME IInv, Kill PROVE IInv'
  OBVIOUS
<1>1. pc' = "down" /\ work' = disk /\ open' = FALSE
      /\ disk' = disk /\ version' = version /\ old' = old /\ orig' = orig
  BY DEF Kill
<1>2. TypeOK'
  BY <1>1 DEF IInv, TypeOK, States
<1>3. RowsPreserved' /\ RowsSeen' /\ Applied(disk)' /\ Applied(work)' /\ Quiet'
  BY <1>1 DEF IInv, RowsPreserved, RowsSeen, Quiet, Applied, Effect, Keyed, Absent
<1>4. InOrder' /\ Belongs' /\ CopyIsGood' /\ DoneSoFar' /\ UpIsCurrent'
  BY <1>1 DEF InOrder, Belongs, CopyIsGood, DoneSoFar, UpIsCurrent
<1> QED
  BY <1>2, <1>3, <1>4 DEF IInv

\* The steps that leave the database alone.
LEMMA Unchanged ==
  ASSUME IInv, UNCHANGED <<disk, work, open, orig>>, pc # "rename"
  PROVE  RowsPreserved' /\ RowsSeen' /\ Applied(disk)' /\ Applied(work)' /\ Quiet'
  BY DEF IInv, RowsPreserved, RowsSeen, Quiet, Applied, Effect, Keyed, Absent

LEMMA CheckHolds == IInv /\ Check => IInv'
<1> SUFFICES ASSUME IInv, Check PROVE IInv'
  OBVIOUS
<1>1. pc = "check" /\ version \in 1..5
      /\ disk' = disk /\ work' = work /\ open' = open /\ old' = old /\ orig' = orig
  BY DEF Check, At, Versions
<1>2. RowsPreserved' /\ RowsSeen' /\ Applied(disk)' /\ Applied(work)' /\ Quiet'
  BY <1>1, Unchanged
<1>3. CASE version \in work.versions
  <2>1. pc' = "check" /\ version' = version + 1
    BY <1>3 DEF Check
  <2>2. 1..(version' - 1) \subseteq work'.versions
    BY <1>1, <1>3, <2>1 DEF IInv, Applied
  <2>3. TypeOK'
    BY <1>1, <2>1 DEF IInv, TypeOK, States
  <2>4. InOrder' /\ Belongs' /\ CopyIsGood' /\ DoneSoFar' /\ UpIsCurrent'
    BY <2>1, <2>2 DEF InOrder, Belongs, CopyIsGood, DoneSoFar, UpIsCurrent
  <2> QED
    BY <1>2, <2>3, <2>4 DEF IInv
<1>4. CASE version \notin work.versions
  <2>1. pc' = First(version) /\ version' = version
    BY <1>4 DEF Check, Goto
  <2>2. /\ version = 1 => pc' = "script"
        /\ version \in {3, 4} => pc' = "drop_new"
        /\ version \in {2, 5} => pc' = "columns"
        /\ pc' \in {"script", "drop_new", "columns"}
    BY <1>1, <2>1 DEF First
  <2>3. TypeOK'
    BY <1>1, <2>1, <2>2 DEF IInv, TypeOK, States
  <2>4. InOrder'
    BY <1>1, <1>4, <2>1, <2>2 DEF IInv, InOrder, Versions
  <2>5. Belongs'
    BY <1>1, <2>1, <2>2 DEF Belongs
  <2>6. CopyIsGood' /\ DoneSoFar' /\ UpIsCurrent'
    BY <1>1, <2>1, <2>2 DEF CopyIsGood, DoneSoFar, UpIsCurrent
  <2> QED
    BY <1>2, <2>3, <2>4, <2>5, <2>6 DEF IInv
<1> QED
  BY <1>3, <1>4

LEMMA CloseHolds == IInv /\ Close => IInv'
<1> SUFFICES ASSUME IInv, Close PROVE IInv'
  OBVIOUS
<1>1. pc = "check" /\ version = 6 /\ pc' = "up" /\ version' = version
      /\ Commit /\ old' = old /\ orig' = orig
  BY DEF Close, At, Goto
<1>2. /\ work' \in Database /\ disk' \in Database /\ open' \in BOOLEAN
      /\ Applied(work)' /\ Applied(disk)' /\ RowsPreserved' /\ Quiet'
  BY <1>1, CommitIsSafe
<1>3. TypeOK'
  BY <1>1, <1>2 DEF IInv, TypeOK, States
<1>4. RowsSeen'
  BY <1>1 DEF IInv, RowsSeen, Commit
<1>5. disk'.versions = Versions
  BY <1>1 DEF IInv, InOrder, TypeOK, Commit, Database, Versions
<1>6. InOrder' /\ Belongs' /\ CopyIsGood' /\ DoneSoFar' /\ UpIsCurrent'
  BY <1>1, <1>5 DEF InOrder, Belongs, CopyIsGood, DoneSoFar, UpIsCurrent
<1> QED
  BY <1>2, <1>3, <1>4, <1>6 DEF IInv

LEMMA ScriptHolds == IInv /\ Script => IInv'
<1> SUFFICES ASSUME IInv, Script PROVE IInv'
  OBVIOUS
<1>1. pc = "script" /\ pc' = "create" /\ version' = version
      /\ Commit /\ work' = work /\ old' = old /\ orig' = orig
  BY DEF Script, At, Goto, Commit
<1>2. /\ work' \in Database /\ disk' \in Database /\ open' \in BOOLEAN
      /\ Applied(work)' /\ Applied(disk)' /\ RowsPreserved' /\ Quiet'
  BY <1>1, CommitIsSafe
<1>3. TypeOK'
  BY <1>1, <1>2 DEF IInv, TypeOK, States
<1>4. RowsSeen'
  BY <1>1 DEF IInv, RowsSeen
<1>5. InOrder' /\ Belongs' /\ CopyIsGood' /\ DoneSoFar' /\ UpIsCurrent'
  BY <1>1 DEF IInv, InOrder, Belongs, CopyIsGood, DoneSoFar, UpIsCurrent
<1> QED
  BY <1>2, <1>3, <1>4, <1>5 DEF IInv

\* Inside a migration nothing from it onwards is recorded.
LEMMA NotYet ==
  ASSUME IInv, pc \notin {"down", "up", "check"}
  PROVE  /\ version \in Versions
         /\ \A v \in Versions : v >= version => v \notin work.versions
  BY DEF IInv, InOrder, Applied, Versions

\* Each recorded migration looks at the tables that it has rebuilt only.
LEMMA PutKeepsApplied ==
  ASSUME IInv, NEW t \in Tables, NEW x \in Table,
         t \in {"units", "units_fts", "units_new"} => 3 \notin work.versions,
         t \in {"symbols", "symbols_new", "imports"} => 4 \notin work.versions
  PROVE  Applied(Put(t, x))
<1> DEFINE db == Put(t, x)
<1>1. work \in Database /\ Applied(work)
  BY DEF IInv, TypeOK
<1>2. /\ db.versions = work.versions /\ db.columns = work.columns
      /\ \A q \in Tables \ {t} : db.tab[q] = work.tab[q]
  BY <1>1, PutChanges
<1> HIDE DEF db
<1>3. Applied(db)
  BY <1>1, <1>2 DEF Applied, Effect, Tables, Keyed, Absent
<1> QED
  BY <1>3 DEF db

LEMMA EndScriptHolds == IInv /\ EndScript => IInv'
<1> SUFFICES ASSUME IInv, EndScript PROVE IInv'
  OBVIOUS
<1>1. pc = "create" /\ pc' = "record" /\ version' = version
      /\ disk' = disk /\ work' = work /\ open' = open /\ old' = old /\ orig' = orig
  BY DEF EndScript, At, Goto
<1>2. RowsPreserved' /\ RowsSeen' /\ Applied(disk)' /\ Applied(work)' /\ Quiet'
  BY <1>1, Unchanged
<1>3. TypeOK'
  BY <1>1 DEF IInv, TypeOK, States
<1>4. version = 4 => work.tab["imports"] # Absent
  <2>1. version = 4 => Created = <<"imports">>
    BY DEF Created, Create4
  <2> QED
    BY <2>1 DEF EndScript, IsAbsent
<1>5. Effect(work, version)
  BY <1>1, <1>4 DEF IInv, Belongs, DoneSoFar, Effect
<1>6. InOrder' /\ Belongs' /\ CopyIsGood' /\ UpIsCurrent'
  BY <1>1 DEF IInv, InOrder, Belongs, CopyIsGood, UpIsCurrent
<1>7. DoneSoFar'
  BY <1>1, <1>5 DEF IInv, Belongs, DoneSoFar, Effect
<1> QED
  BY <1>2, <1>3, <1>6, <1>7 DEF IInv

LEMMA RecordHolds == IInv /\ Record => IInv'
<1> DEFINE db == [work EXCEPT !.versions = @ \cup {version}]
<1> SUFFICES ASSUME IInv, Record PROVE IInv'
  OBVIOUS
<1>1. pc = "record" /\ pc' = "check" /\ version' = version + 1
      /\ Dml(db) /\ work' = db /\ old' = old /\ orig' = orig
  BY DEF Record, At, Dml
<1>2. version \in Versions /\ 1..(version - 1) \subseteq work.versions
  BY <1>1 DEF IInv, InOrder
<1>3. /\ db \in Database /\ db.versions = work.versions \cup {version}
      /\ db.columns = work.columns /\ db.tab = work.tab
  BY <1>2 DEF IInv, TypeOK, Database
<1>4. Applied(db)
  <2>1. Effect(work, version) /\ Applied(work)
    BY <1>1 DEF IInv, DoneSoFar
  <2> HIDE DEF db
  <2> QED
    BY <1>2, <1>3, <2>1 DEF Applied, Effect, Versions
<1>5. /\ work' \in Database /\ disk' \in Database /\ open' \in BOOLEAN
      /\ Applied(work)' /\ Applied(disk)' /\ RowsPreserved' /\ Quiet'
  BY <1>1, <1>3, <1>4, DmlIsSafe
<1> HIDE DEF db
<1>6. TypeOK'
  BY <1>1, <1>2, <1>5 DEF IInv, TypeOK, States, Versions
<1>7. RowsSeen'
  BY <1>1, <1>3 DEF IInv, RowsSeen
<1>8. InOrder'
  BY <1>1, <1>2, <1>3 DEF InOrder, Versions
<1>9. Belongs' /\ CopyIsGood' /\ DoneSoFar' /\ UpIsCurrent'
  BY <1>1 DEF Belongs, CopyIsGood, DoneSoFar, UpIsCurrent
<1> QED
  BY <1>5, <1>6, <1>7, <1>8, <1>9 DEF IInv

LEMMA ColumnsHolds == IInv /\ Columns => IInv'
<1> DEFINE db == [work EXCEPT !.columns = @ \cup {version}]
<1> SUFFICES ASSUME IInv, Columns PROVE IInv'
  OBVIOUS
<1>1. /\ pc = "columns" /\ version' = version
      /\ pc' = (IF version = 2 THEN "script" ELSE "record")
      /\ Ddl(db) /\ work' = db /\ old' = old /\ orig' = orig
  BY DEF Columns, At, Goto, Ddl
<1>2. version \in {2, 5}
  BY <1>1 DEF IInv, Belongs
<1>3. /\ db \in Database /\ db.columns = work.columns \cup {version}
      /\ db.versions = work.versions /\ db.tab = work.tab
  BY <1>2 DEF IInv, TypeOK, Database
<1> HIDE DEF db
<1>4. Applied(db)
  BY <1>3 DEF IInv, Applied, Effect
<1>5. \A t \in Copied : db.tab[t].rows = orig[t]
  BY <1>1, <1>3 DEF IInv, RowsSeen
<1>6. /\ work' \in Database /\ disk' \in Database /\ open' \in BOOLEAN
      /\ Applied(work)' /\ Applied(disk)' /\ RowsPreserved' /\ Quiet'
  BY <1>1, <1>3, <1>4, <1>5, DdlIsSafe
<1>7. TypeOK'
  BY <1>1, <1>6 DEF IInv, TypeOK, States
<1>8. RowsSeen'
  BY <1>1, <1>5 DEF RowsSeen
<1>9. InOrder' /\ Belongs' /\ CopyIsGood' /\ UpIsCurrent'
  BY <1>1, <1>2, <1>3 DEF IInv, InOrder, Belongs, CopyIsGood, UpIsCurrent
<1>10. DoneSoFar'
  BY <1>1, <1>2, <1>3 DEF DoneSoFar, Effect
<1> QED
  BY <1>6, <1>7, <1>8, <1>9, <1>10 DEF IInv

-----------------------------------------------------------------------------
(* The statements that put one table in place.                             *)

Safe ==
  /\ work' \in Database /\ disk' \in Database /\ open' \in BOOLEAN
  /\ Applied(work)' /\ Applied(disk)' /\ RowsPreserved' /\ Quiet'

OnlyPut(t, x) ==
  /\ work'.versions = work.versions /\ work'.columns = work.columns
  /\ work'.tab[t] = x
  /\ \A q \in Tables \ {t} : work'.tab[q] = work.tab[q]

\* The rebuilt tables of migrations 3 and 4 change before they are recorded.
Free(t) ==
  /\ t \in {"units", "units_fts", "units_new"} => 3 \notin work.versions
  /\ t \in {"symbols", "symbols_new", "imports"} => 4 \notin work.versions

LEMMA PutDdl ==
  ASSUME IInv, NEW t \in Tables, NEW x \in Table, Free(t), orig' = orig,
         Ddl(Put(t, x)), pc # "rename",
         ~ open /\ t \in Copied => x.rows = orig[t]
  PROVE  Safe /\ OnlyPut(t, x) /\ open' = open
<1> DEFINE db == Put(t, x)
<1>1. work' = db /\ open' = open
  BY DEF Ddl
<1>2. /\ db \in Database /\ db.versions = work.versions /\ db.columns = work.columns
      /\ db.tab[t] = x /\ \A q \in Tables \ {t} : db.tab[q] = work.tab[q]
  BY PutChanges DEF IInv, TypeOK
<1>3. Applied(db)
  BY PutKeepsApplied DEF Free
<1> HIDE DEF db
<1>4. ~ open => \A q \in Copied : db.tab[q].rows = orig[q]
  BY <1>2 DEF IInv, RowsSeen, Copied, Tables
<1>5. Safe
  BY <1>2, <1>3, <1>4, DdlIsSafe DEF Safe, db
<1> QED
  BY <1>1, <1>2, <1>5 DEF OnlyPut

LEMMA PutDml ==
  ASSUME IInv, NEW t \in Tables, NEW x \in Table, Free(t), orig' = orig,
         Dml(Put(t, x))
  PROVE  Safe /\ OnlyPut(t, x) /\ open' = TRUE
<1> DEFINE db == Put(t, x)
<1>1. work' = db /\ open' = TRUE
  BY DEF Dml
<1>2. /\ db \in Database /\ db.versions = work.versions /\ db.columns = work.columns
      /\ db.tab[t] = x /\ \A q \in Tables \ {t} : db.tab[q] = work.tab[q]
  BY PutChanges DEF IInv, TypeOK
<1>3. Applied(db)
  BY PutKeepsApplied DEF Free
<1> HIDE DEF db
<1>4. Safe
  BY <1>2, <1>3, DmlIsSafe DEF Safe, db
<1> QED
  BY <1>1, <1>2, <1>4 DEF OnlyPut

LEMMA FreeTables ==
  ASSUME IInv
  PROVE  /\ pc = "create" => \A i \in DOMAIN Created : Created[i] \in Tables /\ Free(Created[i])
         /\ pc \in {"drop_new", "create_new", "clear", "copy", "drop_old", "rename"} =>
              /\ Target \in Copied \cap Tables /\ Fresh(Target) \in Tables \ Copied
              /\ Free(Target) /\ Free(Fresh(Target))
         /\ pc \in {"clear", "drop_fts", "create_fts", "fill_fts"} =>
              Free("units_fts") /\ Free("units_new")
<1>1. CASE pc = "create"
  <2>1. \A v \in {3, 4} : v >= version => v \notin work.versions
    BY <1>1, NotYet DEF Versions
  <2>2. version \in {1, 2, 4}
    BY <1>1 DEF IInv, Belongs
  <2>3. CASE version \in {1, 2}
    BY <1>1, <2>1, <2>3 DEF Created, Create1, Create2, Tables, Free
  <2>4. CASE version = 4
    BY <1>1, <2>1, <2>4 DEF Created, Create4, Tables, Free
  <2> QED
    BY <1>1, <2>2, <2>3, <2>4
<1>2. CASE pc \in {"drop_new", "create_new", "clear", "copy", "drop_old", "rename"}
  <2>1. version \in {3, 4} /\ version \notin work.versions
    BY <1>2 DEF IInv, Belongs, InOrder
  <2>2. pc = "clear" => version = 3
    BY DEF IInv, Belongs
  <2> QED
    BY <1>2, <2>1, <2>2 DEF Target, Fresh, Copied, Tables, Free
<1>3. CASE pc \in {"drop_fts", "create_fts", "fill_fts"}
  <2>1. 3 \notin work.versions
    BY <1>3 DEF IInv, Belongs, InOrder
  <2> QED
    BY <1>3, <2>1 DEF Free
<1> QED
  BY <1>1, <1>2, <1>3

LEMMA CreateHolds == IInv /\ Create => IInv'
<1> SUFFICES ASSUME IInv, Create PROVE IInv'
  OBVIOUS
<1>1. pc = "create" /\ pc' = pc /\ version' = version /\ old' = old /\ orig' = orig
  BY DEF Create, At
<1>2. PICK i \in DOMAIN Created :
        /\ IsAbsent(Created[i])
        /\ Ddl(Put(Created[i], IF Created[i] \in Copied THEN Legacy({}) ELSE Keyed({})))
  BY DEF Create
<1> DEFINE t == Created[i]
           x == IF t \in Copied THEN Legacy({}) ELSE Keyed({})
<1>3. t \in Tables /\ Free(t) /\ x \in Table /\ x.rows = {}
  BY <1>1, <1>2, FreeTables, TablesAreTyped DEF Legacy, Keyed
<1>4. work.tab[t] = Absent /\ Ddl(Put(t, x))
  BY <1>2 DEF IsAbsent
<1>5. version = 4 => t = "imports"
  BY <1>2 DEF Created, Create4
<1> HIDE DEF t, x
<1>6. t \in Copied => orig[t] = {}
  BY <1>1, <1>4 DEF IInv, RowsSeen, Absent
<1>7. Safe /\ OnlyPut(t, x) /\ open' = open
  BY <1>1, <1>3, <1>4, <1>6, PutDdl
<1>8. TypeOK'
  BY <1>1, <1>7 DEF Safe, IInv, TypeOK
<1>9. RowsSeen'
  BY <1>1, <1>3, <1>6, <1>7 DEF IInv, RowsSeen, OnlyPut, Copied, Tables
<1>10. InOrder' /\ Belongs' /\ CopyIsGood' /\ UpIsCurrent'
  BY <1>1, <1>7 DEF OnlyPut, IInv, InOrder, Belongs, CopyIsGood, UpIsCurrent
<1>11. DoneSoFar'
  BY <1>1, <1>5, <1>7 DEF OnlyPut, IInv, DoneSoFar, Tables
<1> QED
  BY <1>7, <1>8, <1>9, <1>10, <1>11 DEF IInv, Safe

LEMMA DropNewHolds == IInv /\ DropNew => IInv'
<1> SUFFICES ASSUME IInv, DropNew PROVE IInv'
  OBVIOUS
<1> DEFINE t == Fresh(Target)
<1>1. /\ pc = "drop_new" /\ pc' = "create_new" /\ version' = version /\ orig' = orig
      /\ old' = work.tab[Target].rows /\ Ddl(Put(t, Absent))
  BY DEF DropNew, At, Goto
<1>2. Target \in Copied \cap Tables /\ t \in Tables \ Copied /\ Free(t) /\ Absent \in Table
  BY <1>1, FreeTables, TablesAreTyped
<1>3. Safe /\ OnlyPut(t, Absent)
  BY <1>1, <1>2, PutDdl
<1>4. Target' = Target
  BY <1>1 DEF Target
<1>5. old' = orig[Target]
  BY <1>1, <1>2 DEF IInv, RowsSeen
<1>6. TypeOK'
  BY <1>1, <1>2, <1>3, <1>5 DEF Safe, IInv, TypeOK, States
<1> HIDE DEF t
<1>7. RowsSeen'
  BY <1>1, <1>2, <1>3 DEF IInv, RowsSeen, OnlyPut, Copied, Tables
<1>8. InOrder' /\ Belongs' /\ UpIsCurrent'
  BY <1>1, <1>3 DEF OnlyPut, IInv, InOrder, Belongs, UpIsCurrent
<1>9. CopyIsGood' /\ DoneSoFar'
  BY <1>1, <1>4, <1>5 DEF CopyIsGood, DoneSoFar
<1> QED
  BY <1>3, <1>6, <1>7, <1>8, <1>9 DEF IInv, Safe

LEMMA CreateNewHolds == IInv /\ CreateNew => IInv'
<1> SUFFICES ASSUME IInv, CreateNew PROVE IInv'
  OBVIOUS
<1> DEFINE t == Fresh(Target)
<1>1. /\ pc = "create_new" /\ version' = version /\ orig' = orig /\ old' = old
      /\ pc' = (IF version = 3 THEN "clear" ELSE "copy") /\ Ddl(Put(t, Keyed({})))
  BY DEF CreateNew, At, Goto
<1>2. /\ Target \in Copied \cap Tables /\ t \in Tables \ Copied /\ Free(t)
      /\ Keyed({}) \in Table /\ version \in {3, 4}
  BY <1>1, FreeTables, TablesAreTyped DEF IInv, Belongs
<1>3. Safe /\ OnlyPut(t, Keyed({}))
  BY <1>1, <1>2, PutDdl
<1>4. Target' = Target /\ Fresh(Target') = t
  BY <1>1 DEF Target
<1>5. TypeOK'
  BY <1>1, <1>3 DEF Safe, IInv, TypeOK, States
<1> HIDE DEF t
<1>6. RowsSeen'
  BY <1>1, <1>2, <1>3 DEF IInv, RowsSeen, OnlyPut, Copied, Tables
<1>7. InOrder' /\ Belongs' /\ UpIsCurrent'
  BY <1>1, <1>2, <1>3 DEF OnlyPut, IInv, InOrder, Belongs, UpIsCurrent
<1>8. CopyIsGood'
  BY <1>1, <1>2, <1>3, <1>4 DEF OnlyPut, IInv, CopyIsGood
<1>9. DoneSoFar'
  BY <1>1 DEF DoneSoFar
<1> QED
  BY <1>3, <1>5, <1>6, <1>7, <1>8, <1>9 DEF IInv, Safe

LEMMA ClearHolds == IInv /\ Clear => IInv'
<1> SUFFICES ASSUME IInv, Clear PROVE IInv'
  OBVIOUS
<1>1. /\ pc = "clear" /\ version' = version /\ orig' = orig /\ old' = old
      /\ pc' = "copy" /\ Dml(Put("units_new", Keyed({})))
  BY DEF Clear, At, Goto
<1>2. "units_new" \in Tables /\ Free("units_new") /\ Keyed({}) \in Table /\ version = 3
  BY <1>1, FreeTables, TablesAreTyped DEF IInv, Belongs, Tables
<1>3. Safe /\ OnlyPut("units_new", Keyed({}))
  BY <1>1, <1>2, PutDml
<1>4. Target = "units" /\ Target' = "units" /\ Fresh("units") = "units_new"
  BY <1>1, <1>2 DEF Target, Fresh
<1>5. TypeOK'
  BY <1>1, <1>3 DEF Safe, IInv, TypeOK, States
<1>6. RowsSeen'
  BY <1>1, <1>3 DEF IInv, RowsSeen, OnlyPut, Copied, Tables
<1>7. InOrder' /\ Belongs' /\ UpIsCurrent'
  BY <1>1, <1>2, <1>3 DEF OnlyPut, IInv, InOrder, Belongs, UpIsCurrent
<1>8. CopyIsGood'
  BY <1>1, <1>3, <1>4 DEF OnlyPut, IInv, CopyIsGood
<1>9. DoneSoFar'
  BY <1>1 DEF DoneSoFar
<1> QED
  BY <1>3, <1>5, <1>6, <1>7, <1>8, <1>9 DEF IInv, Safe

LEMMA CopyHolds == IInv /\ Copy => IInv'
<1> SUFFICES ASSUME IInv, Copy PROVE IInv'
  OBVIOUS
<1> DEFINE t == Fresh(Target)
<1>1. /\ pc = "copy" /\ version' = version /\ orig' = orig /\ old' = old
      /\ pc' = "drop_old"
  BY DEF Copy, At, Goto
<1>2. /\ Target \in Copied \cap Tables /\ t \in Tables \ Copied /\ Free(t)
      /\ Keyed(old) \in Table /\ version \in {3, 4}
      /\ old = orig[Target] /\ work.tab[t] = Keyed({})
  BY <1>1, FreeTables, TablesAreTyped DEF IInv, TypeOK, Belongs, CopyIsGood
<1>3. Safe /\ OnlyPut(t, Keyed(old)) /\ (old = {} \/ open')
  <2>1. CASE old = {}
    <3>1. UNCHANGED <<disk, work, open>>
      BY <2>1 DEF Copy
    <3>2. Safe
      BY <1>1, <3>1, Unchanged DEF Safe, IInv, TypeOK
    <3> QED
      BY <1>2, <2>1, <3>1, <3>2 DEF OnlyPut
  <2>2. CASE old # {}
    BY <1>1, <1>2, <2>2, PutDml DEF Copy
  <2> QED
    BY <2>1, <2>2
<1>4. Target' = Target /\ Fresh(Target') = t
  BY <1>1 DEF Target
<1>5. TypeOK'
  BY <1>1, <1>3 DEF Safe, IInv, TypeOK, States
<1> HIDE DEF t
<1>6. RowsSeen'
  BY <1>1, <1>2, <1>3 DEF IInv, RowsSeen, OnlyPut, Copied, Tables
<1>7. InOrder' /\ Belongs' /\ UpIsCurrent'
  BY <1>1, <1>2, <1>3 DEF OnlyPut, IInv, InOrder, Belongs, UpIsCurrent
<1>8. CopyIsGood'
  BY <1>1, <1>2, <1>3, <1>4 DEF OnlyPut, CopyIsGood
<1>9. DoneSoFar'
  BY <1>1 DEF DoneSoFar
<1> QED
  BY <1>3, <1>5, <1>6, <1>7, <1>8, <1>9 DEF IInv, Safe

LEMMA DropOldHolds == IInv /\ DropOld => IInv'
<1> SUFFICES ASSUME IInv, DropOld PROVE IInv'
  OBVIOUS
<1>1. /\ pc = "drop_old" /\ version' = version /\ orig' = orig /\ old' = old
      /\ pc' = "rename" /\ Ddl(Put(Target, Absent))
  BY DEF DropOld, At, Goto
<1>2. /\ Target \in Copied \cap Tables /\ Fresh(Target) \in Tables \ Copied
      /\ Free(Target) /\ Absent \in Table /\ Absent.rows = {} /\ version \in {3, 4}
  BY <1>1, FreeTables, TablesAreTyped DEF IInv, Belongs, Absent
<1>3. ~ open => orig[Target] = {}
  BY <1>1 DEF IInv, CopyIsGood
<1>4. Safe /\ OnlyPut(Target, Absent) /\ open' = open
  BY <1>1, <1>2, <1>3, PutDdl
<1>5. Target' = Target
  BY <1>1 DEF Target
<1>6. TypeOK'
  BY <1>1, <1>4 DEF Safe, IInv, TypeOK, States
<1>7. RowsSeen'
  BY <1>1, <1>2, <1>3, <1>4, <1>5 DEF IInv, RowsSeen, OnlyPut, Copied, Tables
<1>8. InOrder' /\ Belongs' /\ UpIsCurrent'
  BY <1>1, <1>2, <1>4 DEF OnlyPut, IInv, InOrder, Belongs, UpIsCurrent
<1>9. CopyIsGood'
  BY <1>1, <1>2, <1>4, <1>5 DEF OnlyPut, IInv, CopyIsGood
<1>10. DoneSoFar'
  BY <1>1 DEF DoneSoFar
<1> QED
  BY <1>4, <1>6, <1>7, <1>8, <1>9, <1>10 DEF IInv, Safe

LEMMA RenameHolds == IInv /\ Rename => IInv'
<1> SUFFICES ASSUME IInv, Rename PROVE IInv'
  OBVIOUS
<1> DEFINE t == Target
           f == Fresh(Target)
           x == work.tab[f]
           db == [work EXCEPT !.tab[t] = x, !.tab[f] = Absent]
<1>1. /\ pc = "rename" /\ version' = version /\ orig' = orig /\ old' = old
      /\ pc' = (IF version = 3 THEN "drop_fts" ELSE "script")
      /\ Ddl(db) /\ work' = db
  BY DEF Rename, At, Goto, Ddl
<1>2. /\ t \in Copied \cap Tables /\ f \in Tables \ Copied /\ t # f
      /\ Free(t) /\ Free(f) /\ version \in {3, 4} /\ x = Keyed(orig[t])
      /\ Absent \in Table
  BY <1>1, FreeTables, TablesAreTyped DEF IInv, Belongs, CopyIsGood
<1>3. x \in Table /\ x.rows = orig[t] /\ x.form = "keyed"
  BY <1>2 DEF IInv, TypeOK, Database, Keyed
<1>4. /\ db \in Database /\ db.versions = work.versions /\ db.columns = work.columns
      /\ db.tab[t] = x /\ db.tab[f] = Absent
      /\ \A q \in Tables \ {t, f} : db.tab[q] = work.tab[q]
  BY <1>2, <1>3 DEF IInv, TypeOK, Database
<1>5. Target' = t
  BY <1>1 DEF Target
<1>6. /\ version = 3 => t = "units" /\ f = "units_new"
      /\ version = 4 => t = "symbols" /\ f = "symbols_new"
  BY DEF Target, Fresh
<1> HIDE DEF t, f, x, db
<1>7. Applied(db)
  <2>1. Applied(work)
    BY DEF IInv
  <2>2. \A v \in db.versions : Effect(db, v)
    BY <1>2, <1>4, <1>6, <2>1 DEF Applied, Effect, Tables, Free
  <2> QED
    BY <1>4, <2>1, <2>2 DEF Applied
<1>8. \A q \in Copied : db.tab[q].rows = orig[q]
  BY <1>1, <1>2, <1>3, <1>4 DEF IInv, RowsSeen, Copied, Tables, t
<1>9. Safe
  BY <1>1, <1>4, <1>7, <1>8, DdlIsSafe DEF Safe
<1>10. TypeOK'
  BY <1>1, <1>9 DEF Safe, IInv, TypeOK, States
<1>11. RowsSeen'
  BY <1>1, <1>8 DEF RowsSeen
<1>12. InOrder' /\ Belongs' /\ CopyIsGood' /\ UpIsCurrent'
  BY <1>1, <1>2, <1>4 DEF IInv, InOrder, Belongs, CopyIsGood, UpIsCurrent
<1>13. DoneSoFar'
  BY <1>1, <1>2, <1>3, <1>4, <1>6 DEF DoneSoFar
<1> QED
  BY <1>9, <1>10, <1>11, <1>12, <1>13 DEF IInv, Safe

\* The three statements that build the full-text table again.
LEMMA FtsHolds == IInv /\ (DropFts \/ CreateFts \/ FillFts) => IInv'
<1> SUFFICES ASSUME IInv, DropFts \/ CreateFts \/ FillFts PROVE IInv'
  OBVIOUS
<1>1. /\ pc \in {"drop_fts", "create_fts", "fill_fts"}
      /\ pc' \in {"create_fts", "fill_fts", "record"}
      /\ version' = version /\ orig' = orig /\ old' = old
  BY DEF DropFts, CreateFts, FillFts, At, Goto
<1>2. version = 3 /\ "units_fts" \in Tables /\ "units_fts" \notin Copied /\ Free("units_fts")
  BY <1>1, FreeTables DEF IInv, Belongs, Tables, Copied
<1>3. PICK x \in Table :
        /\ Ddl(Put("units_fts", x)) \/ Dml(Put("units_fts", x))
        /\ pc' = "record" => x = Keyed(work.tab["units"].rows)
  <2>1. Absent \in Table /\ Keyed({}) \in Table
    BY TablesAreTyped
  <2>2. work.tab["units"].rows \in SUBSET (Units \cup Symbols)
    BY DEF IInv, TypeOK, Database, Table, Tables, Absent
  <2>3. Keyed(work.tab["units"].rows) \in Table
    BY <2>2, TablesAreTyped
  <2>4. CASE DropFts
    BY <2>1, <2>4 DEF DropFts, Goto
  <2>5. CASE CreateFts
    BY <2>1, <2>5 DEF CreateFts, Goto
  <2>6. CASE FillFts
    BY <2>3, <2>6 DEF FillFts
  <2> QED
    BY <2>4, <2>5, <2>6
<1>4. Safe /\ OnlyPut("units_fts", x)
  BY <1>1, <1>2, <1>3, PutDdl, PutDml
<1>5. TypeOK'
  BY <1>1, <1>4 DEF Safe, IInv, TypeOK, States
<1>6. RowsSeen'
  BY <1>1, <1>2, <1>4 DEF IInv, RowsSeen, OnlyPut, Copied, Tables
<1>7. InOrder' /\ Belongs' /\ CopyIsGood' /\ UpIsCurrent'
  BY <1>1, <1>2, <1>4 DEF OnlyPut, IInv, InOrder, Belongs, CopyIsGood, UpIsCurrent
<1>8. DoneSoFar'
  <2>1. work'.tab["units"].form = "keyed" /\ work'.tab["units_new"] = Absent
    BY <1>1, <1>2, <1>4 DEF OnlyPut, IInv, DoneSoFar, Tables
  <2>2. pc' = "record" => Effect(work, version)'
    BY <1>1, <1>2, <1>3, <1>4, <2>1 DEF OnlyPut, Effect, Tables
  <2> QED
    BY <1>1, <1>2, <2>1, <2>2 DEF DoneSoFar
<1> QED
  BY <1>4, <1>5, <1>6, <1>7, <1>8 DEF IInv, Safe

-----------------------------------------------------------------------------
(* The theorems.                                                           *)

LEMMA StutterHolds == IInv /\ UNCHANGED vars => IInv'
  BY DEF vars, IInv, TypeOK, Quiet, InOrder, Belongs, RowsPreserved, RowsSeen,
     CopyIsGood, Applied, Effect, DoneSoFar, UpIsCurrent, Target, Fresh, Keyed, Absent

LEMMA Invariance == Spec => []IInv
<1>1. IInv /\ [Next]_vars => IInv'
  BY OpenHolds, CheckHolds, RecordHolds, CloseHolds, ColumnsHolds, ScriptHolds,
     CreateHolds, EndScriptHolds, DropNewHolds, CreateNewHolds, ClearHolds, CopyHolds,
     DropOldHolds, RenameHolds, FtsHolds, KillHolds, StutterHolds
     DEF Next, Initialize, Migrate3and4
<1> QED
  BY <1>1, InitHolds, PTL DEF Spec

\* Every variable of the start-up keeps its type (connect, initialize).
THEOREM TypeCorrect == Spec => []TypeOK
  BY Invariance, PTL DEF IInv

\* Wherever a start is interrupted, and however often, no row of units or of
\* symbols is missing from the database on disk (_migrate_3, _migrate_4).
THEOREM RowsArePreserved == Spec => []RowsPreserved
  BY Invariance, PTL DEF IInv

\* A migration recorded on disk has left its whole schema there, although
\* executescript commits in the middle of migrations (_record_migration).
THEOREM RecordedHolds == Spec => []RecordedIsApplied
<1>1. IInv => RecordedIsApplied
  BY DEF IInv, RecordedIsApplied
<1> QED
  BY <1>1, Invariance, PTL

\* The service starts to serve only on the schema of this release (initialize).
THEOREM ServesOnCurrentSchema == Spec => []UpIsCurrent
  BY Invariance, PTL DEF IInv

-----------------------------------------------------------------------------
(* A start ends.                                                           *)

\* What CREATE TABLE and ALTER TABLE without IF NOT EXISTS would trip over.
NothingInTheWay ==
  /\ pc = "create_new" => IsAbsent(Fresh(Target))
  /\ pc = "rename" => IsAbsent(Target)
  /\ pc = "create_fts" => IsAbsent("units_fts")

LEMMA WayStaysFree == IInv /\ NothingInTheWay /\ [Next]_vars => NothingInTheWay'
<1> SUFFICES ASSUME IInv, NothingInTheWay, [Next]_vars PROVE NothingInTheWay'
  OBVIOUS
<1>1. ASSUME NEW t \in Tables, Ddl(Put(t, Absent)) PROVE work'.tab[t] = Absent
  BY <1>1, TablesAreTyped, PutChanges DEF IInv, TypeOK, Ddl
<1>2. CASE DropNew
  <2>1. pc = "drop_new" /\ pc' = "create_new" /\ Target' = Target /\ Ddl(Put(Fresh(Target), Absent))
    BY <1>2 DEF DropNew, At, Goto, Target
  <2> QED
    BY <1>1, <2>1, FreeTables DEF NothingInTheWay, IsAbsent
<1>3. CASE DropOld
  <2>1. pc = "drop_old" /\ pc' = "rename" /\ Target' = Target /\ Ddl(Put(Target, Absent))
    BY <1>3 DEF DropOld, At, Goto, Target
  <2> QED
    BY <1>1, <2>1, FreeTables DEF NothingInTheWay, IsAbsent
<1>4. CASE DropFts
  <2>1. pc' = "create_fts" /\ Ddl(Put("units_fts", Absent))
    BY <1>4 DEF DropFts, At, Goto
  <2> QED
    BY <1>1, <2>1 DEF NothingInTheWay, IsAbsent, Tables
<1>5. CASE Open \/ Check \/ Record \/ Close \/ Columns \/ Script \/ Create \/ EndScript \/ Kill
  <2>1. pc' \notin {"create_new", "rename", "create_fts"}
    BY <1>5 DEF Open, Check, Record, Close, Columns, Script, Create, EndScript, Kill, At, Goto, First
  <2> QED
    BY <2>1 DEF NothingInTheWay
<1>6. CASE CreateNew \/ Clear \/ Copy \/ Rename \/ CreateFts \/ FillFts
  <2>1. pc' \notin {"create_new", "rename", "create_fts"}
    BY <1>6 DEF CreateNew, Clear, Copy, Rename, CreateFts, FillFts, At, Goto
  <2> QED
    BY <2>1 DEF NothingInTheWay
<1>7. CASE UNCHANGED vars
  BY <1>7 DEF vars, NothingInTheWay, IsAbsent, Target
<1> QED
  BY <1>2, <1>3, <1>4, <1>5, <1>6, <1>7 DEF Next, Initialize, Migrate3and4

\* However earlier starts were interrupted, none of the statements that demand
\* an absent table finds one: no start raises on what another has left behind
\* (_migrate_3, _migrate_4).
THEOREM NothingBlocksAStart == Spec => []NothingInTheWay
<1>1. Init => NothingInTheWay
  BY DEF Init, NothingInTheWay
<1> QED
  BY <1>1, Invariance, WayStaysFree, PTL DEF Spec

\* How many statements a start has before it at most: 15 for a migration.
StatementsLeft ==
  [check |-> 14, columns |-> 13, drop_new |-> 13, create_new |-> 12, clear |-> 11,
   copy |-> 10, drop_old |-> 9, rename |-> 8, script |-> 7, drop_fts |-> 4,
   create_fts |-> 3, fill_fts |-> 2, create |-> 2, record |-> 1, up |-> 0, down |-> 15]

ToCreate(t) == IF IsAbsent(t) THEN 1 ELSE 0

Ahead ==
  15 * (6 - version) + StatementsLeft[pc] +
    (IF pc # "create" THEN 0
     ELSE ToCreate("units") + ToCreate("units_fts") + ToCreate("symbols") + ToCreate("imports"))

LEMMA StatementLeft ==
  \A s \in States : StatementsLeft[s] \in 0..15
BY DEF States, StatementsLeft

LEMMA AheadIsNumber == TypeOK => Ahead \in Nat
<1> SUFFICES ASSUME TypeOK PROVE Ahead \in Nat
  OBVIOUS
<1>1. version \in 1..6 /\ StatementsLeft[pc] \in 0..15
  BY StatementLeft DEF TypeOK
<1>2. \A t : ToCreate(t) \in 0..1
  BY DEF ToCreate
<1> QED
  BY <1>1, <1>2 DEF Ahead

LEMMA StartStep == IInv /\ Initialize /\ pc # "down" => Ahead' < Ahead
<1> SUFFICES ASSUME IInv, Initialize, pc # "down" PROVE Ahead' < Ahead
  OBVIOUS
<1>1. version \in 1..6 /\ \A t : ToCreate(t) \in 0..1 /\ ToCreate(t)' \in 0..1
  BY DEF IInv, TypeOK, ToCreate
<1>2. CASE Check
  BY <1>1, <1>2 DEF Check, At, Goto, First, Versions, Ahead, StatementsLeft
<1>3. CASE Record
  <2>1. version \in Versions
    BY <1>3 DEF Record, At, IInv, InOrder
  <2> QED
    BY <1>1, <1>3, <2>1 DEF Record, At, Versions, Ahead, StatementsLeft
<1>4. CASE Close \/ Columns \/ EndScript
  BY <1>1, <1>4 DEF Close, Columns, EndScript, At, Goto, Ahead, StatementsLeft
<1>5. CASE Script
  BY <1>1, <1>5 DEF Script, At, Goto, Ahead, StatementsLeft
<1>6. CASE Migrate3and4
  BY <1>1, <1>6 DEF Migrate3and4, DropNew, CreateNew, Clear, Copy, DropOld, Rename, DropFts,
                    CreateFts, FillFts, At, Goto, Ahead, StatementsLeft
<1>7. CASE Create
  <2>1. pc = "create" /\ pc' = pc /\ version' = version
    BY <1>7 DEF Create, At
  <2>2. PICK t \in {"units", "units_fts", "symbols", "imports"} :
          IsAbsent(t) /\ Ddl(Put(t, IF t \in Copied THEN Legacy({}) ELSE Keyed({})))
    BY <1>7 DEF Create, Created, Create1, Create2, Create4
  <2>3. PICK x \in Table : x # Absent /\ x = IF t \in Copied THEN Legacy({}) ELSE Keyed({})
    <3>1. Legacy({}) \in Table /\ Keyed({}) \in Table
      BY TablesAreTyped
    <3>2. Legacy({}) # Absent /\ Keyed({}) # Absent
      <4>1. Legacy({}).form # Absent.form /\ Keyed({}).form # Absent.form
        BY DEF Legacy, Keyed, Absent
      <4> QED
        BY <4>1
    <3> QED
      BY <3>1, <3>2
  <2>4. t \in Tables /\ work' = Put(t, x)
    BY <2>2, <2>3 DEF Ddl, Tables
  <2>5. work'.tab[t] = x /\ \A q \in Tables \ {t} : work'.tab[q] = work.tab[q]
    BY <2>4, PutChanges DEF IInv, TypeOK
  <2>6. IsAbsent(t) /\ ~ IsAbsent(t)' /\ \A q \in Tables \ {t} : IsAbsent(q)' <=> IsAbsent(q)
    BY <2>2, <2>3, <2>5 DEF IsAbsent
  <2>7. ToCreate(t) = 1 /\ ToCreate(t)' = 0 /\ \A q \in Tables \ {t} : ToCreate(q)' = ToCreate(q)
    BY <2>6 DEF ToCreate
  <2>8. \A q \in {"units", "units_fts", "symbols", "imports"} : q \in Tables
    BY DEF Tables
  <2> QED
    BY <1>1, <2>1, <2>2, <2>7, <2>8 DEF Ahead, StatementsLeft
<1>8. ~ Open
  BY DEF Open, At
<1> QED
  BY <1>2, <1>3, <1>4, <1>5, <1>6, <1>7, <1>8 DEF Initialize

\* Every statement of a start brings it nearer to its end: with the theorem above,
\* a start that is not killed is through after a bounded number of them, which is
\* all that StartupCompletes needs beside fairness (initialize).
THEOREM StartsAdvance ==
  Spec => [][Initialize /\ pc # "down" => Ahead \in Nat /\ Ahead' \in Nat /\ Ahead' < Ahead]_vars
<1>1. Spec => [](Ahead \in Nat)
  BY TypeCorrect, AheadIsNumber, PTL
<1>2. IInv => (Initialize /\ pc # "down" => Ahead' < Ahead)
  BY StartStep
<1>3. IInv /\ Ahead \in Nat /\ (Ahead \in Nat)'
        => (Initialize /\ pc # "down" => Ahead \in Nat /\ Ahead' \in Nat /\ Ahead' < Ahead)
  BY <1>2
<1> QED
  BY <1>1, <1>3, Invariance, PTL

=============================================================================
