---------------------------- MODULE MigrationProofs ----------------------------
(* Proofs about module Migration, for any rows, any pages and batches, any  *)
(* number of runs and any number of changes by others.                     *)
EXTENDS Migration, FiniteSetTheorems, TLAPS

-----------------------------------------------------------------------------
(* The inductive invariant.                                                *)

\* What a row with value v is in table t, when the options are w.
Wanted(w, t, v) == IF w.transform /\ t = "target" THEN Transformed(v) ELSE v

\* Of the source's rows that nobody else has touched, those scanned so far are in rows, or
\* still among the items to be written, as they are wanted in table t.
Carried(w, t, source, gone, start, items, rows) ==
    \A k \in DOMAIN source \ gone :
        /\ k \in DOMAIN items => items[k] = Wanted(w, t, source[k])
        /\ k <= start /\ k \notin DOMAIN items =>
              k \in DOMAIN rows /\ rows[k] = Wanted(w, t, source[k])

\* ... and when all are.
Complete(w, t, source, gone, rows) ==
    \A k \in DOMAIN source \ gone : k \in DOMAIN rows /\ rows[k] = Wanted(w, t, source[k])

Copying == {"scan", "write", "batch", "individually"}
Preparing == {"backup", "replace", "waitGone", "create"}

\* The job is a record, of a table that is copied to, and the keys of the source are as
\* RowsAssumption has them.
JobSound ==
    /\ DOMAIN tables = TableNames /\ want.target \in {"source", "target"}
    /\ job \in [at : Preparing \union Copying \union {"wait", "ensure", "createTable", "copyData"},
                dest : {""} \union TableNames, start : Nat, last : BOOLEAN,
                items : {job.items}, batch : {job.batch}, attempt : {job.attempt}]
    /\ job.at \in Copying => job.dest \in {"target", "backup"}
    /\ job.at = "wait" => job.dest \in {want.target, "backup"}
    /\ IsFiniteSet(DOMAIN tables["source"].rows)
    /\ DOMAIN tables["source"].rows \subseteq Nat \ {0}

\* Source and target are never deleted, nor is a backup that is being filled.
StaysUp ==
    /\ tables["source"].status # "deleting" /\ tables["target"].status # "deleting"
    /\ migrated = "running" /\ job.at \in Copying \union {"wait"} /\ job.dest = "backup" =>
          tables["backup"].status # "deleting"

\* A copy starts at the beginning of the source.
StartsFresh ==
    migrated = "running" /\ (job.at \in Preparing \/ (job.at = "wait" /\ job.dest = "backup")) =>
        job.start = 0 /\ job.last = FALSE /\ DOMAIN job.items = {}

\* The rows on their way.
CopySound ==
    migrated = "running" /\ job.at \in Copying =>
        /\ Carried(want, job.dest, tables["source"].rows, moved, job.start, job.items,
                   tables[job.dest].rows)
        /\ job.last => \A k \in DOMAIN tables["source"].rows \ moved : k <= job.start
        /\ job.at = "scan" => DOMAIN job.items = {}
        /\ job.at \in {"batch", "individually"} => job.batch \subseteq DOMAIN job.items

Succeeded == migrated \in {"nil", "updating", "updated"}

\* The call is past its backup.
PastBackup ==
    \/ Succeeded
    \/ migrated = "running" /\ \/ job.at \in {"ensure", "createTable", "copyData"}
                               \/ job.at \in Copying \union {"wait"} /\ job.dest # "backup"

BackupKept ==
    PastBackup /\ want.backup /\ ~snapshot =>
        /\ tables["backup"].status # "deleting"
        /\ Complete(want, "backup", tables["source"].rows, moved, tables["backup"].rows)

TargetFilled ==
    Succeeded /\ want.copy /\ want.target # "source" =>
        Complete(want, "target", tables["source"].rows, moved, tables["target"].rows)

MigrationInv ==
    /\ JobSound /\ StaysUp /\ StartsFresh /\ CopySound /\ BackupKept /\ TargetFilled
    /\ IndexesMatch

-----------------------------------------------------------------------------
(* Pages and batches.                                                      *)

\* The first n keys are a beginning of the keys, and all of them if there are n.
LEMMA FirstKeysOf ==
    ASSUME NEW K, IsFiniteSet(K), K \subseteq Nat, NEW n \in Nat
    PROVE  /\ FirstKeys(K, n) \subseteq K
           /\ \A a \in FirstKeys(K, n), b \in K : b <= a => b \in FirstKeys(K, n)
           /\ n = Cardinality(K) => FirstKeys(K, n) = K
  <1> DEFINE Below(k) == {j \in K : j < k}
  <1>1. \A k \in K : IsFiniteSet(Below(k)) /\ Cardinality(Below(k)) \in Nat
    BY FS_Subset, FS_CardinalityType
  <1>2. ASSUME NEW a \in FirstKeys(K, n), NEW b \in K, b <= a PROVE b \in FirstKeys(K, n)
    <2>1. a \in K /\ Cardinality(Below(a)) < n
      BY DEF FirstKeys
    <2>2. Below(b) \subseteq Below(a)
      <3>1. \A j \in K : j < b => j < a
        BY <1>2, <2>1
      <3>2. QED
        BY <3>1
    <2>3. Cardinality(Below(b)) <= Cardinality(Below(a))
      <3>1. IsFiniteSet(Below(a))
        BY <1>1, <2>1
      <3> HIDE DEF Below
      <3>2. QED
        BY <2>2, <3>1, FS_Subset
    <2>4. Cardinality(Below(b)) < n
      BY <1>1, <2>1, <2>3
    <2>5. QED
      BY <2>4 DEF FirstKeys
  <1>3. ASSUME n = Cardinality(K), NEW k \in K PROVE k \in FirstKeys(K, n)
    <2>1. Below(k) \subseteq K /\ k \notin Below(k)
      OBVIOUS
    <2>2. Cardinality(Below(k)) < Cardinality(K)
      <3>1. Below(k) # K
        BY <2>1
      <3>2. Cardinality(Below(k)) <= Cardinality(K)
            /\ (Cardinality(Below(k)) = Cardinality(K) => Below(k) = K)
        BY <2>1, FS_Subset
      <3>3. QED
        BY <1>1, <1>3, <3>1, <3>2
    <2>3. QED
      BY <1>3, <2>2 DEF FirstKeys
  <1>4. QED
    BY <1>2, <1>3 DEF FirstKeys

\* The fields of a job that goes on to another step.
LEMMA JobGoes ==
    ASSUME JobSound, NEW s, job' = [job EXCEPT !.at = s]
    PROVE  /\ job'.at = s /\ job'.dest = job.dest /\ job'.start = job.start
           /\ job'.last = job.last /\ job'.items = job.items /\ job'.batch = job.batch
           /\ job'.attempt = job.attempt
  BY DEF JobSound

\* A job is sound when its tables are those of a sound one, and its step and destination fit.
LEMMA JobStays ==
    ASSUME JobSound, UNCHANGED <<tables, want>>, NEW s,
           s \in Preparing \union Copying \union {"wait", "ensure", "createTable", "copyData"},
           s \in Copying => job.dest \in {"target", "backup"},
           s = "wait" => job.dest \in {want.target, "backup"},
           job' = [job EXCEPT !.at = s]
    PROVE  JobSound'
  BY DEF JobSound

-----------------------------------------------------------------------------
(* The steps before and between the copies.                                *)

\* The call goes on to a step where no copy is under way, over the same tables.
LEMMA GoesOn ==
    ASSUME MigrationInv, migrated = "running", UNCHANGED <<tables, want, moved, migrated>>,
           NEW s, s \in Preparing \union {"ensure", "createTable", "copyData"},
           job' = [job EXCEPT !.at = s],
           s \in Preparing => job.at \in Preparing,
           s \notin Preparing => PastBackup \/ ~want.backup \/ snapshot' = TRUE,
           snapshot' = snapshot \/ snapshot' = TRUE
    PROVE  MigrationInv'
  <1>1. JobSound /\ StaysUp /\ StartsFresh /\ BackupKept
    BY DEF MigrationInv
  <1>2. /\ job'.at = s /\ job'.dest = job.dest /\ job'.start = job.start
        /\ job'.last = job.last /\ job'.items = job.items
    BY <1>1, JobGoes
  <1>3. s \notin Copying \union {"wait"}
    BY DEF Preparing, Copying
  <1>4. JobSound'
    BY <1>1, <1>3, JobStays
  <1>5. StaysUp'
    BY <1>1, <1>2, <1>3 DEF StaysUp
  <1>6. StartsFresh'
    BY <1>1, <1>2, <1>3 DEF StartsFresh
  <1>7. CopySound'
    BY <1>2, <1>3 DEF CopySound
  <1>8. BackupKept'
    <2>1. s \in Preparing => ~PastBackup'
      BY <1>2, <1>3 DEF PastBackup, Succeeded, Preparing
    <2>2. QED
      BY <1>1, <2>1 DEF BackupKept
  <1>9. TargetFilled' /\ IndexesMatch'
    BY DEF TargetFilled, Succeeded, IndexesMatch
  <1>10. QED
    BY <1>4, <1>5, <1>6, <1>7, <1>8, <1>9 DEF MigrationInv

\* The call fails.
LEMMA FailsKeeps ==
    ASSUME MigrationInv, Fails, UNCHANGED <<tables, want, moved>>
    PROVE  MigrationInv'
  <1>1. migrated' = "error" /\ job' = job
    BY DEF Fails
  <1>2. QED
    BY <1>1 DEF MigrationInv, JobSound, StaysUp, StartsFresh, CopySound, BackupKept, PastBackup,
                TargetFilled, Succeeded, IndexesMatch

\* createBackup.
LEMMA CreateBackupKeeps ==
    ASSUME MigrationInv, CreateBackup
    PROVE  MigrationInv'
  <1>1. migrated = "running" /\ job.at = "backup" /\ UNCHANGED <<tables, want, moved>>
    BY DEF CreateBackup, At, CallerKeeps
  <1>2. CASE Fails
    BY <1>1, <1>2, FailsKeeps
  <1>3. CASE GoTo("ensure") /\ (~want.backup \/ snapshot' = TRUE)
             /\ (snapshot' = snapshot \/ snapshot' = TRUE)
    BY <1>1, <1>3, GoesOn DEF GoTo, Preparing
  <1>4. CASE GoTo("replace") /\ snapshot' = snapshot
    BY <1>1, <1>4, GoesOn DEF GoTo, Preparing
  <1>5. QED
    BY <1>2, <1>3, <1>4 DEF CreateBackup

\* ensureTargetTable.
LEMMA EnsureTargetTableKeeps ==
    ASSUME MigrationInv, EnsureTargetTable
    PROVE  MigrationInv'
  <1>1. migrated = "running" /\ job.at = "ensure" /\ UNCHANGED <<tables, want, moved, snapshot>>
        /\ (GoTo("copyData") \/ GoTo("createTable"))
    BY DEF EnsureTargetTable, At, CallerKeeps
  <1>2. PastBackup
    BY <1>1 DEF PastBackup
  <1>3. CASE GoTo("copyData")
    BY <1>1, <1>2, <1>3, GoesOn DEF GoTo, Preparing
  <1>4. CASE GoTo("createTable")
    BY <1>1, <1>2, <1>4, GoesOn DEF GoTo, Preparing
  <1>5. QED
    BY <1>1, <1>3, <1>4

\* The caller gives up, or runs the migration again.
LEMMA AgainKeeps ==
    ASSUME MigrationInv, MigrationFails \/ MigrateAgain
    PROVE  MigrationInv'
  <1>1. CASE MigrationFails
    BY <1>1, FailsKeeps DEF MigrationFails, CallerKeeps
  <1>2. CASE MigrateAgain
    <2>1. job' = NewJob /\ migrated' = "running" /\ tables' = tables
      BY <1>2 DEF MigrateAgain
    <2>2. /\ job'.at = "backup" /\ job'.start = 0 /\ job'.last = FALSE /\ DOMAIN job'.items = {}
          /\ job'.dest = ""
      BY <2>1 DEF NewJob, NoRows
    <2>3. JobSound'
      <3>1. NewJob \in [at : {"backup"}, dest : {""}, start : Nat, last : BOOLEAN,
                        items : {NewJob.items}, batch : {NewJob.batch}, attempt : {NewJob.attempt}]
        BY DEF NewJob
      <3>2. QED
        BY <1>2, <2>1, <2>2, <3>1 DEF MigrateAgain, MigrationInv, JobSound, Preparing, Copying
    <2>4. StaysUp' /\ StartsFresh' /\ CopySound'
      BY <2>1, <2>2 DEF MigrationInv, StaysUp, StartsFresh, CopySound, Copying
    <2>5. BackupKept' /\ TargetFilled' /\ IndexesMatch'
      BY <2>1, <2>2 DEF BackupKept, PastBackup, TargetFilled, Succeeded, IndexesMatch, Copying
    <2>6. QED
      BY <2>3, <2>4, <2>5 DEF MigrationInv
  <1>3. QED
    BY <1>1, <1>2

\* The tables after one of them is altered.
LEMMA Altered ==
    ASSUME DOMAIN tables = TableNames, NEW t \in TableNames, NEW x, Alter(t, x)
    PROVE  DOMAIN tables' = TableNames /\ tables'[t] = x
           /\ \A u \in TableNames : u # t => tables'[u] = tables[u]
  BY DEF Alter

\* copyTable.
LEMMA CopyTableKeeps ==
    ASSUME MigrationInv, CopyTable
    PROVE  MigrationInv'
  <1>1. JobSound /\ StaysUp /\ StartsFresh /\ BackupKept
    BY DEF MigrationInv
  <1>2. migrated = "running" /\ job.at \in {"replace", "waitGone", "create"} /\ migrated' = migrated
        /\ UNCHANGED <<want, moved, snapshot>>
    BY DEF CopyTable, At, GoTo, CallerKeeps
  <1>3. CASE UNCHANGED tables /\ GoTo("create")
    BY <1>2, <1>3, GoesOn DEF GoTo, Preparing
  <1>4. CASE Becoming("backup", "deleting") /\ GoTo("waitGone")
    <2> DEFINE x == Table("deleting", tables["backup"].rows, tables["backup"].gsis)
    <2>1. Alter("backup", x)
      BY <1>4 DEF Becoming
    <2>2. DOMAIN tables' = TableNames /\ tables'["source"] = tables["source"]
          /\ tables'["target"] = tables["target"]
      BY <1>1, <2>1, Altered DEF JobSound, TableNames
    <2>3. job' = [job EXCEPT !.at = "waitGone"]
      BY <1>4 DEF GoTo
    <2>4. /\ job'.at = "waitGone" /\ job'.dest = job.dest /\ job'.start = job.start
          /\ job'.last = job.last /\ job'.items = job.items
      BY <1>1, <2>3, JobGoes
    <2>5. JobSound'
      BY <1>1, <1>2, <2>2, <2>3 DEF JobSound, Preparing, Copying
    <2>6. StaysUp' /\ StartsFresh' /\ CopySound'
      BY <1>1, <1>2, <2>2, <2>4 DEF StaysUp, StartsFresh, CopySound, Copying, Preparing
    <2>7. BackupKept' /\ TargetFilled' /\ IndexesMatch'
      BY <1>2, <2>4 DEF BackupKept, PastBackup, TargetFilled, Succeeded, IndexesMatch, Copying
    <2>8. QED
      BY <2>5, <2>6, <2>7 DEF MigrationInv
  <1>5. CASE /\ Alter("backup", Table("creating", NoRows, {}))
             /\ job' = [job EXCEPT !.at = "wait", !.dest = "backup"]
    <2>1. DOMAIN tables' = TableNames /\ tables'["source"] = tables["source"]
          /\ tables'["target"] = tables["target"] /\ tables'["backup"].status = "creating"
      <3>1. DOMAIN tables' = TableNames /\ tables'["source"] = tables["source"]
            /\ tables'["target"] = tables["target"]
            /\ tables'["backup"] = Table("creating", NoRows, {})
        BY <1>1, <1>5, Altered DEF JobSound, TableNames
      <3>2. QED
        BY <3>1 DEF Table
    <2>2. /\ job'.at = "wait" /\ job'.dest = "backup" /\ job'.start = job.start
          /\ job'.last = job.last /\ job'.items = job.items
      BY <1>1, <1>5 DEF JobSound
    <2>3. JobSound'
      BY <1>1, <1>2, <1>5, <2>1 DEF JobSound, Preparing, Copying, TableNames
    <2>4. StaysUp' /\ StartsFresh' /\ CopySound'
      BY <1>1, <1>2, <2>1, <2>2 DEF StaysUp, StartsFresh, CopySound, Copying, Preparing
    <2>5. BackupKept' /\ TargetFilled' /\ IndexesMatch'
      BY <1>2, <2>2 DEF BackupKept, PastBackup, TargetFilled, Succeeded, IndexesMatch, Copying
    <2>6. QED
      BY <2>3, <2>4, <2>5 DEF MigrationInv
  <1>6. QED
    BY <1>3, <1>4, <1>5 DEF CopyTable

\* The table of the target model is created: no table loses rows or starts to be deleted.
LEMMA TargetCreated ==
    ASSUME JobSound, StaysUp, ~Exists(want.target),
           Alter(want.target, Table("creating", NoRows, ModelGSIs))
    PROVE  /\ DOMAIN tables' = TableNames /\ tables'["backup"] = tables["backup"]
           /\ \A t \in TableNames : tables'[t].rows = tables[t].rows
           /\ tables'["source"].status # "deleting" /\ tables'["target"].status # "deleting"
  <1> DEFINE x == Table("creating", NoRows, ModelGSIs)
  <1>1. x.status = "creating" /\ x.rows = NoRows /\ tables[want.target].rows = NoRows
    BY DEF Table, Exists, NoTable
  <1>2. Alter(want.target, x) /\ want.target \in {"source", "target"} /\ DOMAIN tables = TableNames
    BY DEF JobSound
  <1> HIDE DEF x
  <1>3. DOMAIN tables' = TableNames /\ tables'[want.target] = x
        /\ \A u \in TableNames : u # want.target => tables'[u] = tables[u]
    BY <1>2, Altered DEF TableNames
  <1>4. QED
    BY <1>1, <1>2, <1>3 DEF StaysUp, TableNames

\* CreateTable.
LEMMA CreateTableKeeps ==
    ASSUME MigrationInv, CreateTable
    PROVE  MigrationInv'
  <1>1. JobSound /\ StaysUp /\ StartsFresh /\ BackupKept
    BY DEF MigrationInv
  <1>2. migrated = "running" /\ job.at = "createTable" /\ migrated' = migrated
        /\ UNCHANGED <<want, moved, snapshot>>
    BY DEF CreateTable, At, GoTo, CallerKeeps
  <1>3. PastBackup
    BY <1>2 DEF PastBackup
  <1>4. CASE UNCHANGED tables /\ GoTo("copyData")
    BY <1>2, <1>3, <1>4, GoesOn DEF GoTo, Preparing
  <1>5. CASE /\ ~Exists(want.target) /\ Alter(want.target, Table("creating", NoRows, ModelGSIs))
             /\ job' = [job EXCEPT !.at = "wait", !.dest = want.target]
    <2>1. DOMAIN tables' = TableNames /\ tables'["backup"] = tables["backup"]
          /\ (\A t \in TableNames : tables'[t].rows = tables[t].rows)
          /\ tables'["source"].status # "deleting" /\ tables'["target"].status # "deleting"
      BY <1>1, <1>5, TargetCreated
    <2>2. job'.at = "wait" /\ job'.dest = want.target /\ want.target \in {"source", "target"}
      BY <1>1, <1>5 DEF JobSound
    <2>3. JobSound'
      BY <1>1, <1>2, <1>5, <2>1, <2>2 DEF JobSound, Preparing, Copying, TableNames
    <2>4. StaysUp' /\ StartsFresh' /\ CopySound'
      BY <1>1, <1>2, <2>1, <2>2 DEF StaysUp, StartsFresh, CopySound, Copying, Preparing
    <2>5. BackupKept'
      BY <1>1, <1>2, <1>3, <2>1 DEF BackupKept, TableNames
    <2>6. TargetFilled' /\ IndexesMatch'
      BY <1>2 DEF TargetFilled, Succeeded, IndexesMatch
    <2>7. QED
      BY <2>3, <2>4, <2>5, <2>6 DEF MigrationInv
  <1>6. QED
    BY <1>4, <1>5 DEF CreateTable

\* Nothing is scanned yet: every row of the source is still to come.
LEMMA NothingScanned ==
    ASSUME NEW w, NEW t, NEW source, DOMAIN source \subseteq Nat \ {0}, NEW gone, NEW items,
           DOMAIN items = {}, NEW rows
    PROVE  Carried(w, t, source, gone, 0, items, rows)
  <1>1. \A k \in DOMAIN source : ~(k <= 0)
    OBVIOUS
  <1>2. QED
    BY <1>1 DEF Carried

\* The waiter: the copy to the backup starts, or the call goes on to the copy to the target.
LEMMA WaiterKeeps ==
    ASSUME MigrationInv, TableExistsWaiter
    PROVE  MigrationInv'
  <1>1. JobSound /\ StaysUp /\ StartsFresh /\ BackupKept
    BY DEF MigrationInv
  <1>2. migrated = "running" /\ job.at = "wait" /\ migrated' = migrated
        /\ UNCHANGED <<tables, want, moved, snapshot>>
    BY DEF TableExistsWaiter, At, GoTo, CallerKeeps
  <1>3. job.dest \in {"source", "target", "backup"}
    BY <1>1, <1>2 DEF JobSound
  <1>4. CASE job.dest # "backup"
    <2>1. PastBackup
      BY <1>2, <1>4 DEF PastBackup
    <2>2. GoTo("copyData")
      BY <1>4 DEF TableExistsWaiter
    <2>3. QED
      BY <1>2, <2>1, <2>2, GoesOn DEF GoTo, Preparing
  <1>5. CASE job.dest = "backup"
    <2>1. job' = [job EXCEPT !.at = "scan"]
      BY <1>5 DEF TableExistsWaiter, GoTo
    <2>2. /\ job'.at = "scan" /\ job'.dest = "backup" /\ job'.start = job.start
          /\ job'.last = job.last /\ job'.items = job.items
      BY <1>1, <1>5, <2>1, JobGoes
    <2>3. JobSound'
      BY <1>1, <1>2, <1>5, <2>1, JobStays DEF Copying
    <2>4. job'.start = 0 /\ job'.last = FALSE /\ DOMAIN job'.items = {}
      BY <1>1, <1>2, <1>5, <2>2 DEF StartsFresh
    <2>5. StaysUp' /\ StartsFresh'
      BY <1>1, <1>2, <1>5, <2>2, <2>4 DEF StaysUp, StartsFresh, Copying, Preparing
    <2>6. CopySound'
      <3>1. DOMAIN tables'["source"].rows \subseteq Nat \ {0}
        BY <2>3 DEF JobSound
      <3>2. Carried(want', job'.dest, tables'["source"].rows, moved', job'.start, job'.items,
                    tables'[job'.dest].rows)
        BY <2>4, <3>1, NothingScanned
      <3>3. QED
        BY <2>2, <2>4, <3>2 DEF CopySound
    <2>7. BackupKept' /\ TargetFilled' /\ IndexesMatch'
      BY <1>2, <2>2 DEF BackupKept, PastBackup, TargetFilled, Succeeded, IndexesMatch, Copying
    <2>8. QED
      BY <2>3, <2>5, <2>6, <2>7 DEF MigrationInv
  <1>6. QED
    BY <1>3, <1>4, <1>5

\* copyDataIfRequested.
LEMMA CopyDataIfRequestedKeeps ==
    ASSUME MigrationInv, CopyDataIfRequested
    PROVE  MigrationInv'
  <1>1. JobSound /\ StaysUp /\ StartsFresh /\ BackupKept
    BY DEF MigrationInv
  <1>2. migrated = "running" /\ job.at = "copyData" /\ UNCHANGED <<tables, want, moved, snapshot>>
    BY DEF CopyDataIfRequested, At, CallerKeeps
  <1>3. PastBackup
    BY <1>2 DEF PastBackup
  <1>4. BackupKept'
    BY <1>1, <1>2, <1>3 DEF BackupKept
  <1>5. CASE job' = [NewJob EXCEPT !.at = "scan", !.dest = "target"] /\ UNCHANGED migrated
    <2>1. /\ job' = [at |-> "scan", dest |-> "target", start |-> 0, last |-> FALSE, items |-> NoRows,
                     batch |-> {}, attempt |-> 0]
      BY <1>5 DEF NewJob
    <2>2. job'.at = "scan" /\ job'.dest = "target" /\ job'.start = 0 /\ job'.last = FALSE
          /\ DOMAIN job'.items = {}
      BY <2>1 DEF NoRows
    <2>3. JobSound'
      <3>1. job' \in [at : {"scan"}, dest : {"target"}, start : Nat, last : BOOLEAN,
                      items : {job'.items}, batch : {job'.batch}, attempt : {job'.attempt}]
        BY <2>1
      <3>2. QED
        BY <1>1, <1>2, <2>2, <3>1 DEF JobSound, Copying, TableNames
    <2>4. StaysUp' /\ StartsFresh'
      BY <1>1, <1>2, <2>2 DEF StaysUp, StartsFresh, Copying, Preparing
    <2>5. CopySound'
      <3>1. DOMAIN tables'["source"].rows \subseteq Nat \ {0}
        BY <2>3 DEF JobSound
      <3>2. Carried(want', job'.dest, tables'["source"].rows, moved', job'.start, job'.items,
                    tables'[job'.dest].rows)
        BY <2>2, <3>1, NothingScanned
      <3>3. QED
        BY <2>2, <3>2 DEF CopySound
    <2>6. TargetFilled' /\ IndexesMatch'
      BY <1>2, <1>5 DEF TargetFilled, Succeeded, IndexesMatch
    <2>7. QED
      BY <1>4, <2>3, <2>4, <2>5, <2>6 DEF MigrationInv
  <1>6. CASE ~(want.copy /\ want.target # "source") /\ migrated' = "nil" /\ UNCHANGED job
    <2>1. JobSound'
      BY <1>1, <1>2, <1>6 DEF JobSound
    <2>2. StaysUp' /\ StartsFresh' /\ CopySound'
      BY <1>1, <1>2, <1>6 DEF StaysUp, StartsFresh, CopySound
    <2>3. TargetFilled' /\ IndexesMatch'
      BY <1>2, <1>6 DEF TargetFilled, IndexesMatch
    <2>4. QED
      BY <1>4, <2>1, <2>2, <2>3 DEF MigrationInv
  <1>7. QED
    BY <1>5, <1>6 DEF CopyDataIfRequested

-----------------------------------------------------------------------------
(* The copies.                                                             *)

\* A row that has a put request is put as it is wanted.
LEMMA PutAsWanted ==
    ASSUME NEW v, PutRequest(v) # {}
    PROVE  (CHOOSE x \in PutRequest(v) : TRUE) = Wanted(want, job.dest, v)
  <1>1. PutRequest(v) = {Wanted(want, job.dest, v)}
    BY DEF PutRequest, TransformWithValidation, Wanted
  <1>2. QED
    BY <1>1

\* scanTablePage.
LEMMA ScanTablePageKeeps ==
    ASSUME MigrationInv, ScanTablePage
    PROVE  MigrationInv'
  <1>1. JobSound /\ StaysUp /\ StartsFresh /\ BackupKept /\ CopySound
    BY DEF MigrationInv
  <1>2. migrated = "running" /\ job.at = "scan" /\ UNCHANGED <<tables, want, moved, snapshot>>
    BY DEF ScanTablePage, At, CallerKeeps
  <1> DEFINE rows == tables["source"].rows
  <1>3. CASE Fails
    BY <1>2, <1>3, FailsKeeps
  <1>4. PICK n \in 0 .. ScanSize, last \in BOOLEAN :
          /\ Pages(n, last)
          /\ \/ Fails
             \/ /\ \A k \in FirstKeys(Ahead, n) : PutRequest(rows[k]) # {}
                /\ \E start \in FirstKeys(Ahead, n) \union {job.start} :
                     /\ \A k \in FirstKeys(Ahead, n) \union {job.start} : k <= start
                     /\ job' = [job EXCEPT !.at = "write", !.last = last, !.start = start,
                                  !.items = [k \in FirstKeys(Ahead, n) |->
                                                CHOOSE v \in PutRequest(rows[k]) : TRUE]]
                     /\ UNCHANGED migrated
    BY Zenon DEF ScanTablePage
  <1>5. CASE ~Fails
    <2> DEFINE keys == FirstKeys(Ahead, n)
    <2>1. n \in Nat
      OBVIOUS
    <2>2. PICK start \in keys \union {job.start} :
               /\ \A k \in keys \union {job.start} : k <= start
               /\ job' = [job EXCEPT !.at = "write", !.last = last, !.start = start,
                            !.items = [k \in keys |-> CHOOSE v \in PutRequest(rows[k]) : TRUE]]
               /\ UNCHANGED migrated
      BY <1>4, <1>5
    <2>3. Pages(n, last) /\ keys = FirstKeys(Ahead, n) /\ \A k \in keys : PutRequest(rows[k]) # {}
      BY <1>4, <1>5, Zenon
    <2> HIDE DEF keys
    <2> DEFINE items == [k \in keys |-> CHOOSE v \in PutRequest(rows[k]) : TRUE]
    <2>4. /\ start \in Nat
          /\ \A k \in DOMAIN rows : k <= start /\ k \notin keys => k <= job.start
          /\ n = Cardinality(Ahead) => \A k \in DOMAIN rows : k <= start
      <3>1. IsFiniteSet(DOMAIN rows) /\ DOMAIN rows \subseteq Nat /\ job.start \in Nat
        BY <1>1 DEF JobSound
      <3>2. Ahead = {k \in DOMAIN rows : k > job.start}
        BY DEF Ahead
      <3>3. keys = FirstKeys(Ahead, n) /\ start \in keys \union {job.start}
            /\ \A k \in keys \union {job.start} : k <= start
        BY <2>2, <2>3
      <3> DEFINE K == DOMAIN rows
                 from == job.start
                 ahead == Ahead
      <3>4. IsFiniteSet(K) /\ K \subseteq Nat /\ from \in Nat /\ n \in Nat /\ ahead = {k \in K : k > from}
            /\ keys = FirstKeys(ahead, n) /\ start \in keys \union {from}
            /\ \A k \in keys \union {from} : k <= start
        BY <2>1, <3>1, <3>2, <3>3
      <3> HIDE DEF K, from, ahead
      <3>5. /\ start \in Nat
            /\ \A k \in K : k <= start /\ k \notin keys => k <= from
            /\ n = Cardinality(ahead) => \A k \in K : k <= start
        <4>1. IsFiniteSet(ahead) /\ ahead \subseteq Nat /\ ahead \subseteq K
          BY <3>4, FS_Subset
        <4>2. /\ keys \subseteq ahead
              /\ \A a \in keys, b \in ahead : b <= a => b \in keys
              /\ n = Cardinality(ahead) => keys = ahead
          BY <3>4, <4>1, FirstKeysOf
        <4>3. start \in Nat
          BY <3>4, <4>1, <4>2
        <4>4. ASSUME NEW k \in K, k <= start, k \notin keys PROVE k <= from
          <5>1. CASE start = from
            BY <3>4, <4>4, <5>1
          <5>2. CASE start \in keys
            <6>1. k \notin ahead
              BY <4>2, <4>4, <5>2
            <6>2. QED
              BY <3>4, <6>1
          <5>3. QED
            BY <3>4, <5>1, <5>2
        <4>5. ASSUME n = Cardinality(ahead), NEW k \in K PROVE k <= start
          <5>1. CASE k \in ahead
            BY <3>4, <4>2, <4>5, <5>1
          <5>2. CASE k \notin ahead
            <6>1. k <= from /\ from <= start
              BY <3>4, <5>2
            <6>2. QED
              BY <3>4, <4>3, <4>5, <6>1
          <5>3. QED
            BY <5>1, <5>2
        <4>6. QED
          BY <4>3, <4>4, <4>5
      <3>6. QED
        BY <3>5 DEF K, from, ahead
    <2>5. DOMAIN items = keys /\ \A k \in keys : items[k] = Wanted(want, job.dest, rows[k])
      BY <2>3, PutAsWanted
    <2> HIDE DEF items
    <2>6. job' = [job EXCEPT !.at = "write", !.last = last, !.start = start, !.items = items]
      BY <2>2 DEF items
    <2>7. /\ job'.at = "write" /\ job'.dest = job.dest /\ job'.start = start
          /\ job'.last = last /\ job'.items = items
      BY <1>1, <2>6 DEF JobSound
    <2>8. job.dest \in {"target", "backup"}
      BY <1>1, <1>2 DEF JobSound, Copying
    <2>9. JobSound'
      <3>1. job' \in [at : {"write"}, dest : {job.dest}, start : Nat, last : BOOLEAN,
                      items : {items}, batch : {job.batch}, attempt : {job.attempt}]
        BY <1>1, <2>4, <2>6 DEF JobSound
      <3>2. QED
        BY <1>1, <1>2, <2>7, <2>8, <3>1 DEF JobSound, Copying
    <2>10. StaysUp' /\ StartsFresh'
      BY <1>1, <1>2, <2>7 DEF StaysUp, StartsFresh, Copying, Preparing
    <2>11. CopySound'
      <3>1. Carried(want, job.dest, rows, moved, job.start, job.items, tables[job.dest].rows)
            /\ DOMAIN job.items = {}
        BY <1>1, <1>2 DEF CopySound, Copying
      <3>2. Carried(want, job.dest, rows, moved, start, items, tables[job.dest].rows)
        BY <2>4, <2>5, <3>1 DEF Carried
      <3>3. last => \A k \in DOMAIN rows : k <= start
        BY <2>3, <2>4 DEF Pages
      <3>4. QED
        BY <1>2, <2>7, <3>2, <3>3 DEF CopySound
    <2>12. BackupKept' /\ TargetFilled' /\ IndexesMatch'
      BY <1>1, <1>2, <2>2, <2>7 DEF BackupKept, PastBackup, TargetFilled, Succeeded,
                                   IndexesMatch, Copying
    <2>13. QED
      BY <2>9, <2>10, <2>11, <2>12 DEF MigrationInv
  <1>6. QED
    BY <1>3, <1>5

\* The loop ends when every row of the source that nobody touched is in the destination.
LEMMA CopyDone ==
    ASSUME CopySound, migrated = "running", job.at = "write", CopyEnds
    PROVE  Complete(want, job.dest, tables["source"].rows, moved, tables[job.dest].rows)
  <1>1. DOMAIN job.items = {} /\ job.last
    BY DEF CopyEnds, NoRows
  <1>2. /\ Carried(want, job.dest, tables["source"].rows, moved, job.start, job.items,
                   tables[job.dest].rows)
        /\ \A k \in DOMAIN tables["source"].rows \ moved : k <= job.start
    BY <1>1 DEF CopySound, Copying
  <1>3. QED
    BY <1>1, <1>2 DEF Carried, Complete

\* writeRequestsBatched.
LEMMA WriteRequestsBatchedKeeps ==
    ASSUME MigrationInv, WriteRequestsBatched
    PROVE  MigrationInv'
  <1>1. JobSound /\ StaysUp /\ StartsFresh /\ BackupKept /\ CopySound
    BY DEF MigrationInv
  <1>2. migrated = "running" /\ job.at = "write" /\ UNCHANGED <<tables, want, moved, snapshot>>
    BY DEF WriteRequestsBatched, At, CallerKeeps
  <1>3. job.dest \in {"target", "backup"}
    BY <1>1, <1>2 DEF JobSound, Copying
  <1>4. /\ Carried(want, job.dest, tables["source"].rows, moved, job.start, job.items,
                   tables[job.dest].rows)
        /\ job.last => \A k \in DOMAIN tables["source"].rows \ moved : k <= job.start
    BY <1>1, <1>2 DEF CopySound, Copying
  <1>5. CASE /\ job' = [job EXCEPT !.at = "batch", !.batch = FirstKeys(DOMAIN job.items, MaxBatchSize),
                                   !.attempt = 1]
             /\ UNCHANGED migrated
    <2> DEFINE batch == FirstKeys(DOMAIN job.items, MaxBatchSize)
    <2>1. batch \subseteq DOMAIN job.items
      BY DEF FirstKeys
    <2> HIDE DEF batch
    <2>2. job' = [job EXCEPT !.at = "batch", !.batch = batch, !.attempt = 1]
      BY <1>5 DEF batch
    <2>3. /\ job'.at = "batch" /\ job'.dest = job.dest /\ job'.start = job.start
          /\ job'.last = job.last /\ job'.items = job.items /\ job'.batch = batch
      BY <1>1, <2>2 DEF JobSound
    <2>4. JobSound'
      <3>1. job' \in [at : {"batch"}, dest : {job.dest}, start : Nat, last : BOOLEAN,
                      items : {job.items}, batch : {batch}, attempt : {1}]
        BY <1>1, <2>2 DEF JobSound
      <3>2. job'.attempt = 1
        BY <3>1
      <3>3. QED
        BY <1>1, <1>2, <1>3, <2>3, <3>1, <3>2 DEF JobSound, Copying
    <2>5. StaysUp' /\ StartsFresh'
      BY <1>1, <1>2, <2>3 DEF StaysUp, StartsFresh, Copying, Preparing
    <2>6. CopySound'
      BY <1>2, <1>4, <2>1, <2>3 DEF CopySound
    <2>7. BackupKept' /\ TargetFilled' /\ IndexesMatch'
      BY <1>1, <1>2, <1>5, <2>3 DEF BackupKept, PastBackup, TargetFilled, Succeeded, IndexesMatch,
                                    Copying
    <2>8. QED
      BY <2>4, <2>5, <2>6, <2>7 DEF MigrationInv
  <1>6. CASE job.items = NoRows /\ GoTo("scan")
    <2>1. job' = [job EXCEPT !.at = "scan"] /\ migrated' = migrated
      BY <1>6 DEF GoTo
    <2>2. /\ job'.at = "scan" /\ job'.dest = job.dest /\ job'.start = job.start
          /\ job'.last = job.last /\ job'.items = job.items
      BY <1>1, <2>1, JobGoes
    <2>3. JobSound'
      BY <1>1, <1>2, <1>3, <2>1, JobStays DEF Copying
    <2>4. DOMAIN job.items = {}
      BY <1>6 DEF NoRows
    <2>5. StaysUp' /\ StartsFresh'
      BY <1>1, <1>2, <2>1, <2>2 DEF StaysUp, StartsFresh, Copying, Preparing
    <2>6. CopySound'
      BY <1>2, <1>4, <2>2, <2>4 DEF CopySound
    <2>7. BackupKept' /\ TargetFilled' /\ IndexesMatch'
      BY <1>1, <1>2, <2>1, <2>2 DEF BackupKept, PastBackup, TargetFilled, Succeeded, IndexesMatch,
                                    Copying
    <2>8. QED
      BY <2>3, <2>5, <2>6, <2>7 DEF MigrationInv
  <1>7. CASE CopyEnds /\ job.dest = "backup" /\ GoTo("ensure")
    <2>1. job' = [job EXCEPT !.at = "ensure"] /\ migrated' = migrated
      BY <1>7 DEF GoTo
    <2>2. job'.at = "ensure"
      BY <1>1, <2>1, JobGoes
    <2>3. JobSound'
      BY <1>1, <1>2, <1>3, <2>1, JobStays DEF Copying
    <2>4. StaysUp' /\ StartsFresh' /\ CopySound'
      BY <1>1, <1>2, <2>1, <2>2 DEF StaysUp, StartsFresh, CopySound, Copying, Preparing
    <2>5. BackupKept'
      <3>1. tables["backup"].status # "deleting"
        BY <1>1, <1>2, <1>7 DEF StaysUp, Copying
      <3>2. Complete(want, "backup", tables["source"].rows, moved, tables["backup"].rows)
        BY <1>1, <1>2, <1>7, CopyDone
      <3>3. QED
        BY <1>2, <3>1, <3>2 DEF BackupKept
    <2>6. TargetFilled' /\ IndexesMatch'
      BY <1>2, <2>1 DEF TargetFilled, Succeeded, IndexesMatch
    <2>7. QED
      BY <2>3, <2>4, <2>5, <2>6 DEF MigrationInv
  <1>8. CASE CopyEnds /\ job.dest = "target" /\ migrated' = "nil" /\ UNCHANGED job
    <2>1. PastBackup
      BY <1>2, <1>8 DEF PastBackup, Copying
    <2>2. BackupKept'
      BY <1>1, <1>2, <2>1 DEF BackupKept
    <2>3. TargetFilled'
      <3>1. Complete(want, "target", tables["source"].rows, moved, tables["target"].rows)
        BY <1>1, <1>2, <1>8, CopyDone
      <3>2. QED
        BY <1>2, <3>1 DEF TargetFilled
    <2>4. JobSound'
      BY <1>1, <1>2, <1>8 DEF JobSound
    <2>5. StaysUp' /\ StartsFresh' /\ CopySound' /\ IndexesMatch'
      BY <1>1, <1>2, <1>8 DEF StaysUp, StartsFresh, CopySound, IndexesMatch
    <2>6. QED
      BY <2>2, <2>3, <2>4, <2>5 DEF MigrationInv
  <1>9. QED
    BY <1>5, <1>6, <1>7, <1>8 DEF WriteRequestsBatched

\* Items that are put are in the table and no longer among the items.
LEMMA PutCarries ==
    ASSUME NEW w, NEW t, NEW source, NEW gone, NEW start, NEW items, NEW rows, NEW keys,
           keys \subseteq DOMAIN items, Carried(w, t, source, gone, start, items, rows)
    PROVE  Carried(w, t, source, gone, start, Rest(items, keys), Over([k \in keys |-> items[k]], rows))
  <1> DEFINE left == Rest(items, keys)
             over == Over([k \in keys |-> items[k]], rows)
  <1>1. DOMAIN left = DOMAIN items \ keys /\ \A k \in DOMAIN left : left[k] = items[k]
    BY DEF Rest
  <1>2. /\ DOMAIN over = keys \union DOMAIN rows
        /\ \A k \in keys : over[k] = items[k]
        /\ \A k \in DOMAIN rows \ keys : over[k] = rows[k]
    BY DEF Over
  <1> HIDE DEF left, over
  <1>3. Carried(w, t, source, gone, start, left, over)
    BY <1>1, <1>2 DEF Carried
  <1>4. QED
    BY <1>3 DEF left, over

\* Some items of the batch are put and the call goes on.
LEMMA PutKeeps ==
    ASSUME MigrationInv, migrated = "running", job.at \in {"batch", "individually"},
           NEW keys, keys \subseteq job.batch, Put(keys), NEW s \in {"write", "batch", "individually"},
           NEW attempt, Written(keys, s, attempt), UNCHANGED <<want, moved, snapshot>>
    PROVE  MigrationInv'
  <1>1. JobSound /\ StaysUp /\ StartsFresh /\ BackupKept /\ CopySound
    BY DEF MigrationInv
  <1>2. job.dest \in {"target", "backup"}
    BY <1>1 DEF JobSound, Copying
  <1> DEFINE rows == Over([k \in keys |-> job.items[k]], tables[job.dest].rows)
             items == Rest(job.items, keys)
             batch == job.batch \ keys
             x == Table(tables[job.dest].status, rows, tables[job.dest].gsis)
  <1>3. job.batch \subseteq DOMAIN job.items
        /\ Carried(want, job.dest, tables["source"].rows, moved, job.start, job.items,
                   tables[job.dest].rows)
        /\ (job.last => \A k \in DOMAIN tables["source"].rows \ moved : k <= job.start)
    BY <1>1 DEF CopySound, Copying
  <1>4. Carried(want, job.dest, tables["source"].rows, moved, job.start, items, rows)
    BY <1>3, PutCarries
  <1>5. batch \subseteq DOMAIN items
    BY <1>3 DEF Rest
  <1>6. Alter(job.dest, x)
    BY DEF Put, Holding
  <1>7. x.status = tables[job.dest].status /\ x.rows = rows
    BY DEF Table
  <1>8. migrated' = migrated
        /\ job' = [job EXCEPT !.at = s, !.attempt = attempt, !.items = items, !.batch = batch]
    BY DEF Written
  <1> HIDE DEF rows, items, batch, x
  <1>9. /\ job'.at = s /\ job'.dest = job.dest /\ job'.start = job.start /\ job'.last = job.last
        /\ job'.items = items /\ job'.batch = batch /\ job'.attempt = attempt
    BY <1>1, <1>8 DEF JobSound
  <1>10. DOMAIN tables' = TableNames /\ tables'["source"] = tables["source"]
         /\ tables'[job.dest].status = tables[job.dest].status /\ tables'[job.dest].rows = rows
         /\ \A u \in TableNames : u # job.dest => tables'[u] = tables[u]
    <2>1. DOMAIN tables = TableNames /\ job.dest \in TableNames
      BY <1>1, <1>2 DEF JobSound, TableNames
    <2>2. DOMAIN tables' = TableNames /\ tables'[job.dest] = x
          /\ \A u \in TableNames : u # job.dest => tables'[u] = tables[u]
      BY <1>6, <2>1, Altered
    <2>3. QED
      BY <1>2, <1>7, <2>2 DEF TableNames
  <1>11. JobSound'
    <2>1. job' \in [at : {s}, dest : {job.dest}, start : Nat, last : BOOLEAN,
                    items : {items}, batch : {batch}, attempt : {attempt}]
      BY <1>1, <1>8 DEF JobSound
    <2>2. QED
      BY <1>1, <1>2, <1>9, <1>10, <2>1 DEF JobSound, Copying
  <1>12. StaysUp'
    BY <1>1, <1>2, <1>8, <1>9, <1>10 DEF StaysUp, Copying, TableNames
  <1>13. StartsFresh'
    BY <1>9 DEF StartsFresh, Preparing
  <1>14. CopySound'
    BY <1>3, <1>4, <1>5, <1>9, <1>10 DEF CopySound
  <1>15. BackupKept'
    <2>1. CASE job.dest = "backup"
      BY <1>8, <1>9, <2>1 DEF BackupKept, PastBackup, Succeeded
    <2>2. CASE job.dest = "target"
      <3>1. PastBackup
        BY <2>2 DEF PastBackup, Copying
      <3>2. tables'["backup"] = tables["backup"]
        BY <1>10, <2>2 DEF TableNames
      <3>3. QED
        BY <1>1, <1>10, <3>1, <3>2 DEF BackupKept
    <2>3. QED
      BY <1>2, <2>1, <2>2
  <1>16. TargetFilled' /\ IndexesMatch'
    BY <1>8 DEF TargetFilled, Succeeded, IndexesMatch
  <1>17. QED
    BY <1>11, <1>12, <1>13, <1>14, <1>15, <1>16 DEF MigrationInv

\* batchWriteWithRetries.
LEMMA BatchWriteKeeps ==
    ASSUME MigrationInv, BatchWriteWithRetries
    PROVE  MigrationInv'
  <1>1. migrated = "running" /\ job.at = "batch" /\ UNCHANGED <<want, moved, snapshot>>
    BY DEF BatchWriteWithRetries, At, CallerKeeps
  <1>2. PICK left \in SUBSET job.batch :
          /\ Put(job.batch \ left)
          /\ IF AfterRetries(left) = "write"
             THEN Written(job.batch, "write", job.attempt)
             ELSE Written(job.batch \ left, AfterRetries(left), job.attempt + 1)
    BY DEF BatchWriteWithRetries
  <1>3. CASE left = {}
    <2>1. AfterRetries(left) = "write"
      BY <1>3 DEF AfterRetries
    <2>2. job.batch \ left = job.batch
      BY <1>3
    <2>3. Put(job.batch) /\ Written(job.batch, "write", job.attempt)
      BY <1>2, <2>1, <2>2
    <2>4. QED
      BY <1>1, <2>3, PutKeeps
  <1>4. CASE left # {}
    <2>1. AfterRetries(left) \in {"batch", "individually"}
      BY <1>4 DEF AfterRetries
    <2> DEFINE keys == job.batch \ left
    <2>2. keys \subseteq job.batch /\ Put(keys) /\ Written(keys, AfterRetries(left), job.attempt + 1)
      BY <1>2, <2>1
    <2> HIDE DEF keys
    <2>3. QED
      BY <1>1, <2>1, <2>2, PutKeeps
  <1>5. QED
    BY <1>3, <1>4

\* putWriteRequestsIndividually.
LEMMA PutIndividuallyKeeps ==
    ASSUME MigrationInv, PutWriteRequestsIndividually
    PROVE  MigrationInv'
  <1>1. migrated = "running" /\ job.at = "individually" /\ UNCHANGED <<want, moved, snapshot>>
    BY DEF PutWriteRequestsIndividually, At, CallerKeeps
  <1>2. PICK k \in job.batch :
          Put({k}) /\ Written({k}, IF job.batch = {k} THEN "write" ELSE "individually", job.attempt)
    BY DEF PutWriteRequestsIndividually
  <1>3. PICK s \in {"write", "individually"} : Written({k}, s, job.attempt)
    BY <1>2
  <1>4. {k} \subseteq job.batch
    OBVIOUS
  <1>5. QED
    BY <1>1, <1>2, <1>3, <1>4, PutKeeps

-----------------------------------------------------------------------------
(* UpdateTable, DynamoDB and the other processes.                          *)

\* The update of the indexes that DynamoDB accepts leaves those of the model.
LEMMA UpdateGivesModel ==
    ASSUME NEW gsis, NEW g \in ApplyGSIUpdates(gsis)
    PROVE  g = ModelGSIs
  <1>1. g = (gsis \union (ModelGSIs \ gsis)) \ (gsis \ ModelGSIs)
    BY DEF ApplyGSIUpdates, CalculateGSIUpdates
  <1>2. QED
    BY <1>1

\* BatchUpdateTable and UpdateTable.
LEMMA UpdateTableKeeps ==
    ASSUME MigrationInv, UpdateTable \/ \E n \in 1 .. 2 : BatchUpdateTable(n)
    PROVE  MigrationInv'
  <1>1. JobSound /\ StaysUp /\ BackupKept /\ TargetFilled /\ IndexesMatch
    BY DEF MigrationInv
  <1>2. migrated \in {"nil", "updating"} /\ migrated' \in {"updating", "updated", "updateFailed"}
        /\ UNCHANGED <<want, snapshot, job, moved>>
    BY DEF UpdateTable, BatchUpdateTable
  <1>3. PastBackup /\ Succeeded
    BY <1>2 DEF PastBackup, Succeeded
  <1>4. CASE UNCHANGED tables /\ migrated' # "updated"
    <2>1. JobSound' /\ StaysUp'
      BY <1>1, <1>2, <1>4 DEF JobSound, StaysUp
    <2>2. StartsFresh' /\ CopySound'
      BY <1>2 DEF StartsFresh, CopySound
    <2>3. BackupKept' /\ TargetFilled' /\ IndexesMatch'
      BY <1>1, <1>2, <1>3, <1>4 DEF BackupKept, TargetFilled, IndexesMatch
    <2>4. QED
      BY <2>1, <2>2, <2>3 DEF MigrationInv
  <1>5. CASE \E g \in ApplyGSIUpdates(tables[want.target].gsis) :
                Alter(want.target, Table("active", tables[want.target].rows, g))
    <2> DEFINE x == Table("active", tables[want.target].rows, ModelGSIs)
    <2>1. Alter(want.target, x)
      BY <1>5, UpdateGivesModel
    <2>2. x.status = "active" /\ x.rows = tables[want.target].rows /\ x.gsis = ModelGSIs
      BY DEF Table
    <2> HIDE DEF x
    <2>3. DOMAIN tables' = TableNames /\ tables'[want.target] = x
          /\ (\A u \in TableNames : u # want.target => tables'[u] = tables[u])
          /\ want.target \in {"source", "target"}
      <3>1. DOMAIN tables = TableNames /\ want.target \in TableNames
            /\ want.target \in {"source", "target"}
        BY <1>1 DEF JobSound, TableNames
      <3>2. QED
        BY <2>1, <3>1, Altered
    <2>4. /\ \A u \in TableNames : tables'[u].rows = tables[u].rows
          /\ tables'["backup"] = tables["backup"]
          /\ \A u \in TableNames : tables'[u].status = "deleting" => tables[u].status = "deleting"
      BY <2>2, <2>3 DEF TableNames
    <2>5. JobSound' /\ StaysUp'
      BY <1>1, <1>2, <2>3, <2>4 DEF JobSound, StaysUp, TableNames
    <2>6. StartsFresh' /\ CopySound'
      BY <1>2 DEF StartsFresh, CopySound
    <2>7. BackupKept' /\ TargetFilled' /\ IndexesMatch'
      BY <1>1, <1>2, <1>3, <2>2, <2>3, <2>4 DEF BackupKept, TargetFilled, IndexesMatch, TableNames
    <2>8. QED
      BY <2>5, <2>6, <2>7 DEF MigrationInv
  <1>6. QED
    <2>1. CASE UpdateTable
      BY <1>4, <1>5, <2>1 DEF UpdateTable
    <2>2. CASE \E n \in 1 .. 2 : BatchUpdateTable(n)
      BY <1>4, <2>2 DEF BatchUpdateTable
    <2>3. QED
      BY <2>1, <2>2

\* Tables that are altered while their rows and indexes stay as they are.
LEMMA RowsStay ==
    ASSUME MigrationInv, UNCHANGED <<want, snapshot, job, moved, migrated>>,
           DOMAIN tables' = TableNames,
           \A t \in TableNames : tables'[t].rows = tables[t].rows /\
                                 (tables'[t].status = "deleting" => tables[t].status = "deleting"),
           migrated # "running" => \A t \in TableNames : tables'[t].gsis = tables[t].gsis
    PROVE  MigrationInv'
  <1>1. JobSound /\ StaysUp /\ StartsFresh /\ CopySound /\ BackupKept /\ TargetFilled /\ IndexesMatch
    BY DEF MigrationInv
  <1>2. JobSound'
    BY <1>1 DEF JobSound, TableNames
  <1>3. StaysUp' /\ StartsFresh'
    BY <1>1 DEF StaysUp, StartsFresh, TableNames
  <1>4. CopySound'
    BY <1>1 DEF CopySound, JobSound, TableNames
  <1>5. BackupKept'
    BY <1>1 DEF BackupKept, PastBackup, Succeeded, TableNames
  <1>6. TargetFilled' /\ IndexesMatch'
    BY <1>1 DEF TargetFilled, Succeeded, IndexesMatch, JobSound, TableNames
  <1>7. QED
    BY <1>2, <1>3, <1>4, <1>5, <1>6 DEF MigrationInv

\* A table settles.
LEMMA TableSettlesKeeps ==
    ASSUME MigrationInv, NEW t \in TableNames, TableSettles(t)
    PROVE  MigrationInv'
  <1>1. JobSound /\ StaysUp /\ StartsFresh /\ CopySound /\ BackupKept /\ TargetFilled /\ IndexesMatch
    BY DEF MigrationInv
  <1>2. UNCHANGED <<want, snapshot, job, moved, migrated>> /\ DOMAIN tables = TableNames
    BY <1>1 DEF TableSettles, JobSound
  <1>3. CASE Becoming(t, "active")
    <2> DEFINE x == Table("active", tables[t].rows, tables[t].gsis)
    <2>1. Alter(t, x)
      BY <1>3 DEF Becoming
    <2>2. x.status = "active" /\ x.rows = tables[t].rows /\ x.gsis = tables[t].gsis
      BY DEF Table
    <2> HIDE DEF x
    <2>3. DOMAIN tables' = TableNames /\ tables'[t] = x
          /\ \A u \in TableNames : u # t => tables'[u] = tables[u]
      BY <1>2, <2>1, Altered
    <2>4. \A u \in TableNames : /\ tables'[u].rows = tables[u].rows
                                /\ tables'[u].gsis = tables[u].gsis
                                /\ tables'[u].status = "deleting" => tables[u].status = "deleting"
      BY <2>2, <2>3
    <2>5. QED
      BY <1>2, <2>3, <2>4, RowsStay DEF TableNames
  <1>4. CASE tables[t].status = "deleting" /\ Alter(t, NoTable)
    <2>1. t = "backup"
      BY <1>1, <1>4 DEF StaysUp, TableNames
    <2>2. DOMAIN tables' = TableNames /\ tables'["backup"] = NoTable
          /\ tables'["source"] = tables["source"] /\ tables'["target"] = tables["target"]
      BY <1>2, <1>4, <2>1, Altered DEF TableNames
    <2>3. NoTable.status = "none"
      BY DEF NoTable, Table
    <2>4. JobSound' /\ StaysUp' /\ StartsFresh'
      BY <1>1, <1>2, <2>2, <2>3 DEF JobSound, StaysUp, StartsFresh
    <2>5. CopySound'
      <3>1. migrated = "running" /\ job.at \in Copying => job.dest = "target"
        BY <1>1, <1>4, <2>1 DEF StaysUp, JobSound
      <3>2. QED
        BY <1>1, <1>2, <2>2, <3>1 DEF CopySound
    <2>6. BackupKept'
      <3>1. ~(PastBackup /\ want.backup /\ ~snapshot)
        BY <1>1, <1>4, <2>1 DEF BackupKept
      <3>2. QED
        BY <1>2, <3>1 DEF BackupKept, PastBackup, Succeeded
    <2>7. TargetFilled' /\ IndexesMatch'
      BY <1>1, <1>2, <2>2 DEF TargetFilled, Succeeded, IndexesMatch, JobSound
    <2>8. QED
      BY <2>4, <2>5, <2>6, <2>7 DEF MigrationInv
  <1>5. QED
    BY <1>3, <1>4 DEF TableSettles

\* Another process creates the target.
LEMMA OtherCreatesKeeps ==
    ASSUME MigrationInv, OtherCreates
    PROVE  MigrationInv'
  <1>1. UNCHANGED <<want, snapshot, job, moved, migrated>> /\ migrated = "running"
        /\ JobSound /\ StaysUp
    BY DEF OtherCreates, MigrationInv
  <1>2. DOMAIN tables' = TableNames /\ tables'["backup"] = tables["backup"]
        /\ (\A t \in TableNames : tables'[t].rows = tables[t].rows)
        /\ tables'["source"].status # "deleting" /\ tables'["target"].status # "deleting"
    BY <1>1, TargetCreated DEF OtherCreates
  <1>3. \A u \in TableNames : tables'[u].status = "deleting" => tables[u].status = "deleting"
    BY <1>2 DEF TableNames
  <1>4. QED
    BY <1>1, <1>2, <1>3, RowsStay

\* A row of the source that someone changes no longer counts.
LEMMA ChangeCarries ==
    ASSUME NEW w, NEW t, NEW source, NEW gone, NEW start, NEW items, NEW rows, NEW k, NEW changes,
           \A j \in DOMAIN changes : j # k => j \in DOMAIN source /\ changes[j] = source[j]
    PROVE  /\ Carried(w, t, source, gone, start, items, rows) =>
                Carried(w, t, changes, gone \union {k}, start, items, rows)
           /\ Complete(w, t, source, gone, rows) => Complete(w, t, changes, gone \union {k}, rows)
  <1>1. \A j \in DOMAIN changes \ (gone \union {k}) :
            j \in DOMAIN source \ gone /\ changes[j] = source[j]
    OBVIOUS
  <1>2. QED
    BY <1>1 DEF Carried, Complete

\* Others put or delete a row of the source.
LEMMA OtherChangesKeeps ==
    ASSUME MigrationInv, NEW k \in Nat \ {0}, OtherChanges(k)
    PROVE  MigrationInv'
  <1>1. JobSound /\ StaysUp /\ StartsFresh /\ CopySound /\ BackupKept
    BY DEF MigrationInv
  <1>2. migrated = "running" /\ moved' = moved \union {k}
        /\ UNCHANGED <<want, snapshot, job, migrated>> /\ DOMAIN tables = TableNames
    BY <1>1 DEF OtherChanges, JobSound
  <1> DEFINE rows == tables["source"].rows
  <1>3. PICK changes : /\ Holding("source", changes)
                       /\ DOMAIN changes \subseteq DOMAIN rows \union {k}
                       /\ \A j \in DOMAIN changes : j # k => j \in DOMAIN rows /\ changes[j] = rows[j]
    <2>1. CASE \E v \in NewValues : Holding("source", Over([j \in {k} |-> v], rows))
      <3>1. PICK v \in NewValues : Holding("source", Over([j \in {k} |-> v], rows))
        BY <2>1
      <3> DEFINE changes == Over([j \in {k} |-> v], rows)
      <3>2. DOMAIN changes = {k} \union DOMAIN rows
            /\ \A j \in DOMAIN changes : j # k => changes[j] = rows[j]
        BY DEF Over
      <3>3. Holding("source", changes)
        BY <3>1
      <3> HIDE DEF changes
      <3>4. QED
        BY <3>2, <3>3
    <2>2. CASE Holding("source", Rest(rows, {k}))
      <3> DEFINE changes == Rest(rows, {k})
      <3>1. DOMAIN changes = DOMAIN rows \ {k}
            /\ \A j \in DOMAIN changes : j # k => changes[j] = rows[j]
        BY DEF Rest
      <3>2. Holding("source", changes)
        BY <2>2
      <3> HIDE DEF changes
      <3>3. QED
        BY <3>1, <3>2
    <2>3. QED
      BY <2>1, <2>2 DEF OtherChanges
  <1> DEFINE x == Table(tables["source"].status, changes, tables["source"].gsis)
  <1>4. Alter("source", x)
    BY <1>3 DEF Holding
  <1>5. x.status = tables["source"].status /\ x.rows = changes
    BY DEF Table
  <1> HIDE DEF x
  <1>6. DOMAIN tables' = TableNames /\ tables'["source"] = x
        /\ tables'["target"] = tables["target"] /\ tables'["backup"] = tables["backup"]
    BY <1>2, <1>4, Altered DEF TableNames
  <1>7. JobSound'
    <2>1. IsFiniteSet(DOMAIN changes) /\ DOMAIN changes \subseteq Nat \ {0}
      <3>1. IsFiniteSet(DOMAIN rows) /\ DOMAIN rows \subseteq Nat \ {0}
        BY <1>1 DEF JobSound
      <3> DEFINE K == DOMAIN rows
                 L == K \union {k}
                 M == DOMAIN changes
      <3>2. IsFiniteSet(K) /\ M \subseteq L
        BY <1>3, <3>1
      <3> HIDE DEF K, M
      <3>3. IsFiniteSet(L)
        BY <3>2, FS_AddElement
      <3> HIDE DEF L
      <3>4. IsFiniteSet(M)
        BY <3>2, <3>3, FS_Subset
      <3>5. QED
        BY <1>3, <3>1, <3>4 DEF M
    <2>2. QED
      BY <1>1, <1>2, <1>5, <1>6, <2>1 DEF JobSound
  <1>8. StaysUp' /\ StartsFresh'
    BY <1>1, <1>2, <1>5, <1>6 DEF StaysUp, StartsFresh
  <1>9. CopySound'
    <2>1. SUFFICES ASSUME job.at \in Copying
                   PROVE  CopySound'
      BY <1>2 DEF CopySound
    <2>2. tables'[job.dest] = tables[job.dest]
      BY <1>1, <1>6, <2>1 DEF JobSound
    <2>3. Carried(want, job.dest, changes, moved \union {k}, job.start, job.items,
                  tables[job.dest].rows)
      <3>1. Carried(want, job.dest, rows, moved, job.start, job.items, tables[job.dest].rows)
        BY <1>1, <1>2, <2>1 DEF CopySound
      <3>2. QED
        BY <1>3, <3>1, ChangeCarries
    <2>4. job.last => \A j \in DOMAIN changes \ (moved \union {k}) : j <= job.start
      BY <1>1, <1>2, <1>3, <2>1 DEF CopySound
    <2>5. /\ job.at = "scan" => DOMAIN job.items = {}
          /\ job.at \in {"batch", "individually"} => job.batch \subseteq DOMAIN job.items
      BY <1>1, <1>2, <2>1 DEF CopySound
    <2>6. QED
      BY <1>2, <1>5, <1>6, <2>2, <2>3, <2>4, <2>5 DEF CopySound
  <1>10. BackupKept'
    <2>1. SUFFICES ASSUME PastBackup, want.backup, ~snapshot
                   PROVE  BackupKept'
      BY <1>2 DEF BackupKept, PastBackup, Succeeded
    <2>2. tables["backup"].status # "deleting"
          /\ Complete(want, "backup", rows, moved, tables["backup"].rows)
      BY <1>1, <2>1 DEF BackupKept
    <2>3. Complete(want, "backup", changes, moved \union {k}, tables["backup"].rows)
      BY <1>3, <2>2, ChangeCarries
    <2>4. QED
      BY <1>2, <1>5, <1>6, <2>2, <2>3 DEF BackupKept
  <1>11. TargetFilled' /\ IndexesMatch'
    BY <1>2 DEF TargetFilled, Succeeded, IndexesMatch
  <1>12. QED
    BY <1>7, <1>8, <1>9, <1>10, <1>11 DEF MigrationInv

-----------------------------------------------------------------------------
(* The theorem.                                                            *)

\* The invariant holds when the call begins.
LEMMA MigrationInvInit ==
    ASSUME MigrationInit
    PROVE  MigrationInv
  <1>0. PICK g \in TargetGSIs :
          \E source \in {NoTable} \union {Table("active", rows, g) : rows \in SourceRows},
             target \in {NoTable} \union {Table("active", NoRows, gsis) : gsis \in TargetGSIs},
             backup \in {NoTable, Table("active", [k \in {1} |-> 0], {})} :
                tables = TablesOf(source, target, backup)
    BY DEF MigrationInit
  <1>1. PICK source \in {NoTable} \union {Table("active", rows, g) : rows \in SourceRows},
             target \in {NoTable} \union {Table("active", NoRows, gsis) : gsis \in TargetGSIs},
             backup \in {NoTable, Table("active", [k \in {1} |-> 0], {})} :
                tables = TablesOf(source, target, backup)
    BY <1>0
  <1>2. job = NewJob /\ migrated = "running" /\ want.target \in {"source", "target"}
    BY DEF MigrationInit
  <1>3. DOMAIN tables = TableNames /\ tables["source"] = source /\ tables["target"] = target
    BY <1>1 DEF TablesOf, TableNames
  <1>4. /\ job.at = "backup" /\ job.start = 0 /\ job.last = FALSE /\ DOMAIN job.items = {}
        /\ job.dest = ""
    BY <1>2 DEF NewJob, NoRows
  <1>5. source.status # "deleting" /\ target.status # "deleting"
    BY DEF NoTable, Table
  <1>6. IsFiniteSet(DOMAIN source.rows) /\ DOMAIN source.rows \subseteq Nat \ {0}
    <2>1. CASE source = NoTable
      <3>1. DOMAIN source.rows = {}
        BY <2>1 DEF NoTable, Table, NoRows
      <3>2. QED
        BY <3>1, FS_EmptySet
    <2>2. CASE source # NoTable
      <3>1. PICK rows \in SourceRows : source = Table("active", rows, g)
        BY <2>2
      <3>2. source.rows = rows
        BY <3>1 DEF Table
      <3>3. QED
        BY <3>2, RowsAssumption
    <2>3. QED
      BY <2>1, <2>2
  <1>7. JobSound
    <2>1. job \in [at : {"backup"}, dest : {""}, start : Nat, last : BOOLEAN,
                   items : {job.items}, batch : {job.batch}, attempt : {job.attempt}]
      BY <1>2 DEF NewJob
    <2>2. QED
      BY <1>2, <1>3, <1>4, <1>6, <2>1 DEF JobSound, Preparing, Copying
  <1>8. StaysUp /\ StartsFresh /\ CopySound
    BY <1>3, <1>4, <1>5 DEF StaysUp, StartsFresh, CopySound, Copying
  <1>9. BackupKept /\ TargetFilled /\ IndexesMatch
    BY <1>2, <1>4 DEF BackupKept, PastBackup, TargetFilled, Succeeded, IndexesMatch, Copying
  <1>10. QED
    BY <1>7, <1>8, <1>9 DEF MigrationInv

\* Every step keeps the invariant.
LEMMA MigrationInvStep ==
    ASSUME MigrationInv, [MigrationNext]_migrationVars
    PROVE  MigrationInv'
  <1>1. CASE \E t \in {"source", "target", "backup"} : TableSettles(t)
    BY <1>1, TableSettlesKeeps DEF TableNames
  <1>2. CASE OtherCreates
    BY <1>2, OtherCreatesKeeps
  <1>3. CASE \E rows \in SourceRows : \E k \in DOMAIN rows : OtherChanges(k)
    BY <1>3, RowsAssumption, OtherChangesKeeps
  <1>4. CASE CreateBackup \/ CopyTable \/ EnsureTargetTable \/ CreateTable \/ TableExistsWaiter
             \/ CopyDataIfRequested
    BY <1>4, CreateBackupKeeps, CopyTableKeeps, EnsureTargetTableKeeps, CreateTableKeeps,
       WaiterKeeps, CopyDataIfRequestedKeeps
  <1>5. CASE ScanTablePage \/ WriteRequestsBatched \/ BatchWriteWithRetries
             \/ PutWriteRequestsIndividually
    BY <1>5, ScanTablePageKeeps, WriteRequestsBatchedKeeps, BatchWriteKeeps, PutIndividuallyKeeps
  <1>6. CASE MigrationFails \/ MigrateAgain
    BY <1>6, AgainKeeps
  <1>7. CASE UpdateTable \/ \E n \in 1 .. 2 : BatchUpdateTable(n)
    BY <1>7, UpdateTableKeeps
  <1>8. CASE UNCHANGED migrationVars
    <2>1. /\ want' = want /\ tables' = tables /\ snapshot' = snapshot /\ job' = job
          /\ moved' = moved /\ migrated' = migrated
      BY <1>8 DEF migrationVars
    <2>2. JobSound'
      BY <2>1 DEF MigrationInv, JobSound
    <2>3. StaysUp' /\ StartsFresh'
      BY <2>1 DEF MigrationInv, StaysUp, StartsFresh
    <2>4. CopySound'
      BY <2>1 DEF MigrationInv, CopySound
    <2>5. BackupKept'
      BY <2>1 DEF MigrationInv, BackupKept, PastBackup, Succeeded
    <2>6. TargetFilled' /\ IndexesMatch'
      BY <2>1 DEF MigrationInv, TargetFilled, Succeeded, IndexesMatch
    <2>7. QED
      BY <2>2, <2>3, <2>4, <2>5, <2>6 DEF MigrationInv
  <1>9. QED
    BY <1>1, <1>2, <1>3, <1>4, <1>5, <1>6, <1>7, <1>8 DEF MigrationNext

\* The invariant is what the schema manager reports.
LEMMA MigrationInvHonest ==
    ASSUME MigrationInv
    PROVE  MigrationHonest
  <1>1. BackupKept /\ TargetFilled /\ IndexesMatch
    BY DEF MigrationInv
  <1>2. /\ DOMAIN Untouched = DOMAIN tables["source"].rows \ moved
        /\ \A k \in DOMAIN Untouched : Untouched[k] = tables["source"].rows[k]
    BY DEF Untouched
  <1>3. ASSUME Succeeded, want.copy, want.target # "source"
        PROVE  Holds(tables["target"].rows, LAMBDA v : IF want.transform THEN Transformed(v) ELSE v)
    <2>1. Complete(want, "target", tables["source"].rows, moved, tables["target"].rows)
      BY <1>1, <1>3 DEF TargetFilled
    <2>2. QED
      BY <1>2, <2>1 DEF Complete, Wanted, Holds
  <1>4. ASSUME Succeeded, want.backup, ~snapshot
        PROVE  Holds(tables["backup"].rows, LAMBDA v : v)
    <2>1. Complete(want, "backup", tables["source"].rows, moved, tables["backup"].rows)
      BY <1>1, <1>4 DEF BackupKept, PastBackup
    <2>2. QED
      BY <1>2, <2>1 DEF Complete, Wanted, Holds
  <1>5. CopyComplete
    BY <1>3, <1>4 DEF CopyComplete, Succeeded
  <1>6. QED
    BY <1>1, <1>5 DEF MigrationHonest

\* AutoMigrateWithOptions, UpdateTable and BatchUpdateTable report as done only what is
\* done: whatever rows there are, however DynamoDB pages them and refuses items of a
\* batch, however often calls fail and are repeated, and whatever other processes write
\* or create meanwhile, a call that returns nil has copied every row nobody else touched
\* to the target, transformed, and to the backup, and an update that succeeds leaves the
\* model's indexes.
THEOREM MigrationIsHonest == MigrationSpec => []MigrationHonest
  <1>1. MigrationInit => MigrationInv
    BY MigrationInvInit
  <1>2. MigrationInv /\ [MigrationNext]_migrationVars => MigrationInv'
    BY MigrationInvStep
  <1>3. MigrationInv => MigrationHonest
    BY MigrationInvHonest
  <1>4. QED
    BY <1>1, <1>2, <1>3, PTL DEF MigrationSpec
=============================================================================
