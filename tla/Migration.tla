------------------------------- MODULE Migration -------------------------------
(***************************************************************************)
(* The schema manager, pkg/schema: AutoMigrateWithOptions backs a table    *)
(* up, creates the table of the new model and copies the rows, while other *)
(* processes write to the source and may create the same table; the caller *)
(* runs it again when it fails.  UpdateTable then brings the indexes up to *)
(* date.                                                                   *)
(*                                                                         *)
(* A row is a key with a value; DynamoDB scans keys in increasing order.   *)
(***************************************************************************)
EXTENDS Integers, FiniteSets

CONSTANTS
    SourceRows,     \* functions from keys to values: what the source may hold
    NewValues,      \* what others write
    Unfit,          \* values whose transform fails, or gives an item without its key
    ModelGSIs,      \* names of the model's global indexes
    TargetGSIs,     \* sets of indexes of a target table that exists already
    ScanSize,       \* opts.BatchSize: rows of a page
    MaxBatchSize,   \* rows of a batch write
    CopyRetries,    \* maxRetries
    MaxRuns,        \* bound on the calls of AutoMigrateWithOptions
    MaxChanges      \* bound on the writes of others

\* Keys come after 0, which stands for the start of a scan.
ASSUME RowsAssumption ==
    \A rows \in SourceRows : IsFiniteSet(DOMAIN rows) /\ DOMAIN rows \subseteq Nat \ {0}

VARIABLES
    want,       \* options: backup, copy, transform; and the table of the target model
    tables,     \* "source", "target" and "backup", the table named by WithBackupTable
    snapshot,   \* whether DynamoDB made the backup
    job,        \* where the call is, and the page and the batch it is writing
    moved,      \* keys of the source that others changed during the call
    runs, changed,
    toUpdate,   \* updates BatchUpdateTable has left
    migrated    \* "running", "nil", "error", "updating", "updated", "updateFailed" or "unused"

migrationVars == <<want, tables, snapshot, job, moved, runs, changed, toUpdate, migrated>>

NoRows == [k \in {} |-> 0]
Table(status, rows, gsis) == [status |-> status, rows |-> rows, gsis |-> gsis]
NoTable == Table("none", NoRows, {})

TableNames == {"source", "target", "backup"}
TablesOf(source, target, backup) ==
    [t \in TableNames |-> IF t = "source" THEN source ELSE IF t = "target" THEN target ELSE backup]

\* Rows without some keys, and with new rows over them.
Rest(rows, keys) == [k \in DOMAIN rows \ keys |-> rows[k]]
Over(new, rows) ==
    [k \in DOMAIN new \union DOMAIN rows |-> IF k \in DOMAIN new THEN new[k] ELSE rows[k]]

\* copyData and copyTableData: the destination, the last key that was scanned (0 before
\* the first page), whether the page was the last, its items and the batch in flight.
NewJob == [at |-> "backup", dest |-> "", start |-> 0, last |-> FALSE, items |-> NoRows,
           batch |-> {}, attempt |-> 0]

MigrationInit ==
    /\ want \in {w \in [backup : BOOLEAN, copy : BOOLEAN, transform : BOOLEAN,
                          target : {"source", "target"}] : w.transform => w.copy}
    /\ \E g \in TargetGSIs :
         \E source \in {NoTable} \union {Table("active", rows, g) : rows \in SourceRows},
            target \in {NoTable} \union {Table("active", NoRows, gsis) : gsis \in TargetGSIs},
            backup \in {NoTable, Table("active", [k \in {1} |-> 0], {})} :
               /\ tables = TablesOf(source, target, backup)
               /\ want.target = "source" => target = NoTable
    /\ snapshot = FALSE /\ job = NewJob /\ moved = {}
    /\ runs = 1 /\ changed = 0 /\ toUpdate = 0 /\ migrated = "running"

\* Nothing is migrated: for modules that compose this one with others.
MigrationUnused ==
    /\ want = [backup |-> FALSE, copy |-> FALSE, transform |-> FALSE, target |-> "target"]
    /\ tables = TablesOf(NoTable, NoTable, NoTable)
    /\ snapshot = FALSE /\ job = NewJob /\ moved = {}
    /\ runs = 0 /\ changed = 0 /\ toUpdate = 0 /\ migrated = "unused"

-----------------------------------------------------------------------------
(* DynamoDB and other processes.                                           *)

\* TableExists: any table DynamoDB can describe, also one that is being created.
Exists(t) == tables[t] # NoTable
Alter(t, table) == tables' = [tables EXCEPT ![t] = table]

\* A table in another state, or with other rows.
Becoming(t, status) == Alter(t, Table(status, tables[t].rows, tables[t].gsis))
Holding(t, rows) == Alter(t, Table(tables[t].status, rows, tables[t].gsis))

\* A table that is being created becomes usable, one that is being deleted goes away.
TableSettles(t) ==
    /\ migrated # "unused"
    /\ \/ tables[t].status = "creating" /\ Becoming(t, "active")
       \/ tables[t].status = "deleting" /\ Alter(t, NoTable)
    /\ UNCHANGED <<want, snapshot, job, moved, runs, changed, toUpdate, migrated>>

\* Another process that runs AutoMigrate creates the table first.
OtherCreates ==
    /\ migrated = "running" /\ ~Exists(want.target)
    /\ Alter(want.target, Table("creating", NoRows, ModelGSIs))
    /\ UNCHANGED <<want, snapshot, job, moved, runs, changed, toUpdate, migrated>>

\* Others put and delete rows of the source.
OtherChanges(k) ==
    /\ migrated = "running" /\ tables["source"].status = "active" /\ changed < MaxChanges
    /\ LET rows == tables["source"].rows
       IN  \/ \E v \in NewValues : Holding("source", Over([j \in {k} |-> v], rows))
           \/ k \in DOMAIN rows /\ Holding("source", Rest(rows, {k}))
    /\ changed' = changed + 1 /\ moved' = moved \union {k}
    /\ UNCHANGED <<want, snapshot, job, runs, toUpdate, migrated>>

-----------------------------------------------------------------------------
(* AutoMigrateWithOptions.                                                 *)

At(step) == migrated = "running" /\ job.at = step
GoTo(step) == job' = [job EXCEPT !.at = step] /\ UNCHANGED migrated
Fails == migrated' = "error" /\ UNCHANGED job
CallerKeeps == UNCHANGED <<want, moved, runs, changed, toUpdate>>

\* createBackupIfRequested and createBackup.
CreateBackup ==
    /\ At("backup")
    /\ \/ ~want.backup /\ GoTo("ensure") /\ UNCHANGED snapshot
       \/ want.backup /\ ~Exists("source") /\ Fails /\ UNCHANGED snapshot
       \/ want.backup /\ Exists("source") /\ GoTo("ensure") /\ snapshot' = TRUE
       \/ want.backup /\ Exists("source") /\ GoTo("replace") /\ UNCHANGED snapshot
    /\ UNCHANGED tables /\ CallerKeeps

\* copyTable, when DynamoDB refuses: a table with the backup's name is deleted first.
CopyTable ==
    /\ \/ /\ At("replace") /\ ~Exists("backup") /\ GoTo("create") /\ UNCHANGED tables
       \/ /\ At("replace") /\ tables["backup"].status = "active"
          /\ Becoming("backup", "deleting") /\ GoTo("waitGone")
       \/ /\ At("waitGone") /\ ~Exists("backup") /\ GoTo("create") /\ UNCHANGED tables
       \/ /\ At("create") /\ ~Exists("backup")
          /\ Alter("backup", Table("creating", NoRows, {}))
          /\ job' = [job EXCEPT !.at = "wait", !.dest = "backup"] /\ UNCHANGED migrated
    /\ UNCHANGED snapshot /\ CallerKeeps

\* ensureTargetTable, for the source itself when no target model is given.
EnsureTargetTable ==
    /\ At("ensure")
    /\ GoTo(IF Exists(want.target) THEN "copyData" ELSE "createTable")
    /\ UNCHANGED <<tables, snapshot>> /\ CallerKeeps

\* CreateTable: a table someone else has created is fine.
CreateTable ==
    /\ At("createTable")
    /\ IF Exists(want.target) THEN GoTo("copyData") /\ UNCHANGED tables
       ELSE /\ Alter(want.target, Table("creating", NoRows, ModelGSIs))
            /\ job' = [job EXCEPT !.at = "wait", !.dest = want.target] /\ UNCHANGED migrated
    /\ UNCHANGED snapshot /\ CallerKeeps

\* The waiter, and what comes after the table is there.
TableExistsWaiter ==
    /\ At("wait") /\ tables[job.dest].status = "active"
    /\ GoTo(IF job.dest = "backup" THEN "scan" ELSE "copyData")
    /\ UNCHANGED <<tables, snapshot>> /\ CallerKeeps

\* copyDataIfRequested: a table is not copied to itself.
CopyDataIfRequested ==
    /\ At("copyData")
    /\ IF want.copy /\ want.target # "source"
       THEN job' = [NewJob EXCEPT !.at = "scan", !.dest = "target"] /\ UNCHANGED migrated
       ELSE migrated' = "nil" /\ UNCHANGED job
    /\ UNCHANGED <<tables, snapshot>> /\ CallerKeeps

\* The transform of a model or of an item, and TransformWithValidation, which refuses
\* what it fails on or takes the key from.  A transform may change the value of the key;
\* the ones considered here keep it.
Transformed(v) == 10 + v
TransformWithValidation(v) == IF v \in Unfit THEN {} ELSE {Transformed(v)}

\* buildPutWriteRequestsWithTransform: what a row is in the destination, if anything;
\* only rows of the target are transformed.
PutRequest(v) ==
    IF want.transform /\ job.dest = "target" THEN TransformWithValidation(v) ELSE {v}

FirstKeys(keys, n) == {k \in keys : Cardinality({j \in keys : j < k}) < n}

\* The keys a scan has not come to.  DynamoDB may answer with the first n of them, as
\* the last page or with a key to go on from.
Ahead == {k \in DOMAIN tables["source"].rows : k > job.start}
Pages(n, last) ==
    /\ n <= Cardinality(Ahead) /\ (n = 0 => last /\ Ahead = {})
    /\ last => n = Cardinality(Ahead) /\ (n > 0 => n < ScanSize)

\* scanTablePage and the write requests of a page, which fail with any of its rows.
ScanTablePage ==
    /\ At("scan") /\ tables["source"].status = "active"
    /\ \E n \in 0 .. ScanSize, last \in BOOLEAN :
         /\ Pages(n, last)
         /\ LET keys == FirstKeys(Ahead, n)
                rows == tables["source"].rows
            IN  IF \E k \in keys : PutRequest(rows[k]) = {} THEN Fails
                ELSE \E start \in keys \union {job.start} :
                       /\ \A k \in keys \union {job.start} : k <= start
                       /\ job' = [job EXCEPT !.at = "write", !.last = last, !.start = start,
                                    !.items = [k \in keys |-> CHOOSE v \in PutRequest(rows[k]) : TRUE]]
                       /\ UNCHANGED migrated
    /\ UNCHANGED <<tables, snapshot>> /\ CallerKeeps

\* The loops of copyData and copyTableData end with the page that has no last key.
CopyEnds == job.items = NoRows /\ job.last

\* writeRequestsBatched: the next batch of the page, the next page, or the end.
WriteRequestsBatched ==
    /\ At("write")
    /\ \/ /\ job.items # NoRows
          /\ job' = [job EXCEPT !.at = "batch", !.batch = FirstKeys(DOMAIN job.items, MaxBatchSize),
                                !.attempt = 1]
          /\ UNCHANGED migrated
       \/ job.items = NoRows /\ ~job.last /\ GoTo("scan")
       \/ CopyEnds /\ job.dest = "backup" /\ GoTo("ensure")
       \/ CopyEnds /\ job.dest = "target" /\ migrated' = "nil" /\ UNCHANGED job
    /\ UNCHANGED <<tables, snapshot>> /\ CallerKeeps

Put(keys) == Holding(job.dest, Over([k \in keys |-> job.items[k]], tables[job.dest].rows))

\* unprocessedRequestsForTable: what is left of the items and of the batch.
Written(keys, step, attempt) ==
    /\ job' = [job EXCEPT !.at = step, !.attempt = attempt, !.items = Rest(job.items, keys),
                          !.batch = job.batch \ keys]
    /\ UNCHANGED migrated

\* Mutant of AfterRetries: what is left after the last attempt is forgotten.
AfterRetriesNone(left) == "write"

\* batchWriteWithRetries: what the last attempt left is put item by item.
AfterRetries(left) ==
    IF left = {} THEN "write" ELSE IF job.attempt < CopyRetries THEN "batch" ELSE "individually"

BatchWriteWithRetries ==
    /\ At("batch") /\ tables[job.dest].status = "active"
    /\ \E left \in SUBSET job.batch :
         /\ Put(job.batch \ left)
         /\ IF AfterRetries(left) = "write"
            THEN Written(job.batch, "write", job.attempt)
            ELSE Written(job.batch \ left, AfterRetries(left), job.attempt + 1)
    /\ UNCHANGED snapshot /\ CallerKeeps

PutWriteRequestsIndividually ==
    /\ At("individually") /\ tables[job.dest].status = "active"
    /\ \E k \in job.batch :
         Put({k}) /\ Written({k}, IF job.batch = {k} THEN "write" ELSE "individually", job.attempt)
    /\ UNCHANGED snapshot /\ CallerKeeps

\* A model cannot be registered, a call to DynamoDB fails, a waiter times out, or the context is cancelled.
MigrationFails ==
    /\ migrated = "running" /\ job.at \notin {"copyData", "write"}
    /\ Fails /\ UNCHANGED <<tables, snapshot>> /\ CallerKeeps

\* The caller runs the migration again.
MigrateAgain ==
    /\ migrated = "error" /\ runs < MaxRuns
    /\ runs' = runs + 1 /\ job' = NewJob /\ moved' = {} /\ snapshot' = FALSE
    /\ migrated' = "running"
    /\ UNCHANGED <<want, tables, changed, toUpdate>>

-----------------------------------------------------------------------------
(* UpdateTable and BatchUpdateTable.                                       *)

\* calculateGSIUpdates, by name.
CalculateGSIUpdates(gsis) == [toCreate |-> ModelGSIs \ gsis, toDelete |-> gsis \ ModelGSIs]

\* applyGSIUpdates: the indexes after the update; none when it needs more than one change.
ApplyGSIUpdates(gsis) ==
    LET plan == CalculateGSIUpdates(gsis)
    IN  IF Cardinality(plan.toCreate) + Cardinality(plan.toDelete) > 1 THEN {}
        ELSE {(gsis \union plan.toCreate) \ plan.toDelete}

\* BatchUpdateTable with n updates; UpdateTable is one with a single update.
BatchUpdateTable(n) ==
    /\ migrated = "nil" /\ migrated' = "updating" /\ toUpdate' = n
    /\ UNCHANGED <<want, tables, snapshot, job, moved, runs, changed>>

UpdateTable ==
    /\ migrated = "updating"
    /\ LET gsis == ApplyGSIUpdates(tables[want.target].gsis)
       IN  \/ migrated' = "updateFailed" /\ UNCHANGED <<tables, toUpdate>>
           \/ /\ tables[want.target].status = "active" /\ gsis # {}
              /\ \E g \in gsis :
                    Alter(want.target, Table("active", tables[want.target].rows, g))
              /\ toUpdate' = toUpdate - 1
              /\ migrated' = IF toUpdate = 1 THEN "updated" ELSE "updating"
    /\ UNCHANGED <<want, snapshot, job, moved, runs, changed>>

MigrationNext ==
    \/ \E t \in {"source", "target", "backup"} : TableSettles(t)
    \/ OtherCreates \/ \E rows \in SourceRows : \E k \in DOMAIN rows : OtherChanges(k)
    \/ CreateBackup \/ CopyTable \/ EnsureTargetTable \/ CreateTable \/ TableExistsWaiter
    \/ CopyDataIfRequested \/ ScanTablePage \/ WriteRequestsBatched \/ BatchWriteWithRetries
    \/ PutWriteRequestsIndividually \/ MigrationFails \/ MigrateAgain
    \/ \E n \in 1 .. 2 : BatchUpdateTable(n)
    \/ UpdateTable

MigrationSpec == MigrationInit /\ [][MigrationNext]_migrationVars

-----------------------------------------------------------------------------
(* Properties.                                                             *)

\* The rows of the source that nobody else has touched during the call.
Untouched == [k \in DOMAIN tables["source"].rows \ moved |-> tables["source"].rows[k]]
Holds(rows, F(_)) == \A k \in DOMAIN Untouched : k \in DOMAIN rows /\ rows[k] = F(Untouched[k])

\* AutoMigrateWithOptions over failures, unprocessed items, tables that come and go and
\* repeated calls: when it returns nil, the target, if it is another table than the
\* source, has every row of the source, as the transform makes it, and so has the backup,
\* unless DynamoDB made it, in both cases but for rows that others changed meanwhile.
CopyComplete ==
    migrated \in {"nil", "updating", "updated"} =>
        /\ want.copy /\ want.target # "source" =>
              Holds(tables["target"].rows, LAMBDA v : IF want.transform THEN Transformed(v) ELSE v)
        /\ (want.backup /\ ~snapshot) => Holds(tables["backup"].rows, LAMBDA v : v)

\* UpdateTable and BatchUpdateTable after any migration: they report success only when
\* the table has the model's indexes.
IndexesMatch == migrated = "updated" => tables[want.target].gsis = ModelGSIs

\* What the schema manager reports as done is done.
MigrationHonest == CopyComplete /\ IndexesMatch
=============================================================================
