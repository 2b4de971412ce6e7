# TableTheory: a verification of its protocols

TableTheory is a DynamoDB ORM in Go (with TypeScript and Python siblings). Part of
its code shapes data: conditions, expressions, pages, attributes. What makes it correct
under load is in the places where several callers, goroutines or repeated requests
meet: the lease, optimistic locking, transactions, batches, admission control,
connection caches, migrations. This directory holds TLA+ models of both, TLC
configurations that check them on small instances, and TLAPS proofs of the main
results for every instance.

Paths below are relative to the repository root unless they end in `.tla` or `.cfg`.
`PROJECT.json` lists the components, the runs, the source lines each definition
translates (`map`), the hazards and the theorems.

- [1. Inventory](#1-inventory)
- [2. The models and the code](#2-the-models-and-the-code)
- [3. The runs](#3-the-runs)
- [4. The proofs](#4-the-proofs)
- [5. Where the code and its documentation disagree](#5-where-the-code-and-its-documentation-disagree)
- [6. Not modelled](#6-not-modelled)
- [7. Plan](#7-plan)
- [8. How to run it](#8-how-to-run-it)

## 1. Inventory

| Component | State | Operations | What is hard | What makes it correct |
|---|---|---|---|---|
| Lease manager, `pkg/lease/lease.go` | none in memory; one row `(token, lease_expires_at, ttl)` per lock, a `Lease` value in each caller | `AcquireKey`, `Refresh`, `Release`, each one conditional write | skewed clocks, whole-second rounding, TTL deletion, lost answers and SDK retries, holders that crash or stall | at most one caller relies on a lease; a stale caller takes nothing away; a dead holder is replaced in bounded time |
| Versioned writes, `pkg/query/query.go`, `update_builder.go`, executors in `internal/theorydb/query_executor.go` | the item; a version number in each caller's struct | `First`, `Create` (with and without `IfNotExists`), `CreateOrUpdate`, `Update`, `Delete`, `UpdateBuilder` with `ConditionVersion` | stale structs, retries after lost answers, delete and re-create, version 0 | no update overwrites an edit its caller had not seen; a write reported as done stays |
| Transaction builder, `pkg/transaction/builder.go` | operations and first error of one `Builder` | `Put` ... `ConditionCheck`, `Execute`; retry schedule; error translation | two nested retry loops, one token per execution, reuse of a builder | committed at most once, in whole, and reported truthfully |
| Transaction context, `pkg/transaction/transaction.go`, `query_support.go` | queued writes and reads | `Create`, `Update`, `Delete`, `Get`, `Commit`, `Rollback` | two requests, writes then reads | nothing is committed after an error; reads are of a state no older than the writes |
| Batch writes, `pkg/query/batch_operations.go` | chunks, unprocessed items, first error, progress | `BatchCreate`, `BatchWrite`, `BatchUpdateWithOptions`, ... | parallel chunks, partial answers, bounded retries | every item is written or reported; nothing is written after the call returned; completion is reported |
| Batch get, `pkg/query/batch_get.go` | chunks, unprocessed keys | `BatchGetWithOptions`, `BatchGetBuilder` | parallel chunks, reordering | item *i* answers key *i* |
| Pages, scans and cursors, `pkg/query/query.go`, `pagination.go`, `cursor.go` | last evaluated key | `All`, `AllPaginated`, `Cursor`, `ScanAllSegments`, aggregates | the table changes between pages; parallel segments | an item present throughout is returned exactly once |
| Index selection and compilation, `pkg/index/selector.go`, `pkg/query`, `optimizer.go` | cached plans | `SelectOptimal`, `Compile`, `OptimizeQuery` | many cases | whatever index is chosen, the rows returned are those asked for |
| Expressions, `internal/expr` | placeholders and clauses of one builder | `Add*Condition`, `Build`, update expressions | mixing AND and OR | placeholders never clash; the expression says what was asked |
| Attribute encryption, `internal/encryption` | none | encrypt and decrypt of tagged attributes | repeated application | encrypted once, decrypted once, never stored in the clear |
| Memory monitor, `pkg/protection/resource_limiter.go` | RWMutex, WaitGroup, flag, channel | `Start`, `Stop`, the monitor goroutine | restart while the old goroutine runs | one goroutine, the flag tells the truth, callers return |
| Resource protector, same file | two semaphores, counters, high-water marks | `SecureBodyReader`, `AcquireBatch`, `ReleaseBatch`, statistics | separate atomics, timeouts | slots are neither leaked nor given back twice |
| Rate limiter, `pkg/protection/simple_rate_limiter.go` | tokens, time of last refill | `Allow` | integer division of time | the rate holds in every window and callers are not starved |
| Multi-account connections, `internal/theorydb/multiaccount.go` | partner cache, account map, refresh goroutine | `Partner`, `AddPartner`, `RemovePartner`, `WithContext`, `Close` | refresh racing removal | a removed partner stays removed; a cached connection is renewed before it expires |
| Lambda handle, `internal/theorydb/lambda.go`, `theorydb.go` | global handle behind `sync.Once`; deadline | `LambdaInit`, `WithLambdaTimeout`, ... | failing initialisation | a nil error comes with a handle |
| Read-after-write helpers, `pkg/consistency` | attempts and delay | `RetryQuery`, `ReadAfterWrite` | index lag | an answer taken for fresh is fresh |
| AutoMigrate, `pkg/schema` | target table, copied pages, backup | `AutoMigrateWithOptions`, `CreateTable`, ... | stops in the middle, writers meanwhile | no item lost, a finished copy is complete |
| Model registry, `pkg/model/registry.go` | models by type and by table | `Register`, `GetMetadata` | many tag combinations | roles of fields are unambiguous |
| Marshalling, `pkg/marshal`, `pkg/types` | cache of compiled marshallers, converters | `MarshalItem`, `ClearCache`, `RegisterConverter` | three writers and three readers; cache cleared while it is filled | what is written is what is read |
| Session, errors, naming, validation, DMS, streams | configuration, none | pure functions | none | none that needs a model |
| Mocks, test kit, contract tests, examples, scripts | none | not part of the running system | | |
| TypeScript and Python SDKs, `ts/src`, `py/src` | as the Go parts | the same contract implemented twice more | agreement | the Go models describe them too |

**How they interact.** Callers hold structs and `Lease` values and share nothing but
the table. A `Query` compiles conditions (index selection, expressions), an executor
of `internal/theorydb` encrypts what is tagged and sends the request through the AWS
SDK, which repeats it after a timeout or a server error; so every write may be
applied although its caller is told that it failed, and may reach the table after its
caller has gone. The transaction builder adds a retry loop of its own above the SDK's.
The lease manager bypasses the query layer and talks to the SDK directly. The
protection package guards callers in the same process and shares memory with them.

**What is external.** DynamoDB is modelled from how the code uses it: a conditional
write of one item is atomic, `TransactWriteItems` applies everything or nothing, remembers
a request token, answers a cancellation with one reason for every operation and
rejects two operations on one item; eventually consistent reads may return an earlier
state. The SDK repeats a request and may lose an answer.

## 2. The models and the code

| Module | Models | Composes |
|---|---|---|
| `Lease` | `pkg/lease/lease.go` | refines `LeaseMutex` |
| `LeaseMutex` | the promise: an abstract lock | |
| `VersionedItem` | CRUD with a version field | |
| `TransactBuilder` | `pkg/transaction/builder.go`, `DB.Transact` | |
| `MemoryMonitor`, `ResourceProtector`, `SimpleLimiter` | `pkg/protection` | `ResourceProtector` uses the limiter as a nondeterministic answer |
| `ExprBuilder` | `internal/expr/builder.go` | operators |
| `QueryPlan` | `Where` to `All` of `pkg/query/query.go`, `pkg/index/selector.go` | `ExprBuilder` |
| `UpdateExpr` | `update_builder.go`, the write items of `pkg/transaction/builder.go`, `internal/encryption/update_expression.go` | `ExprBuilder` |
| `PagedRead` | `pagination.go`, the pagers of both executors, `ScanAllSegments`, `allWithRetry` | `CursorCodec`, `Aggregates` |
| `CursorCodec`, `Aggregates` | `cursor.go`, `aggregates.go` | operators |
| `BatchGet`, `BatchWrite` | `batch_get.go`, `batch_operations.go` and the executors under them | |
| `ItemCodec` | `pkg/marshal`, `pkg/types`, `internal/expr/converter.go`, `internal/encryption`, the readers of both executors | `CursorCodec` |
| `MultiAccount` | `internal/theorydb/multiaccount.go` | |
| `Migration` | `pkg/schema` | |
| `LeaseProofs`, `VersionedItemProofs`, `TransactBuilderProofs`, `MigrationProofs` | theorems | each extends its module |
| `ProcessProofs` | theorems | `MemoryMonitor`, `ResourceProtector`, `SimpleLimiter`, `MultiAccount` |
| `BatchProofs` | theorems | `BatchWrite`, `BatchGet` |
| `ReadProofs` | theorems | `PagedRead`, with `CursorCodec` and `Aggregates` |
| `ExpressionProofs` | theorems | `UpdateExpr`, `QueryPlan`, with `ExprBuilder` |
| `MCLease`, `MCVersionedItem`, `MCTransactBuilder`, `MCMemoryMonitor`, `MCBatchWrite`, `MCUpdateExpr`, `MCMultiAccount` | model values, per-instance constants and symmetry sets | each its module |
| `MCCallers` | callers that contend for a lease, or write a versioned item | `Lease`, `VersionedItem` |
| `MCProcess` | one process: limiter, admission, monitor | the three modules of `pkg/protection` |
| `MCDataPath` | one connection and one call over it | `QueryPlan`, `PagedRead`, `UpdateExpr`, `BatchGet`, `BatchWrite`, `ItemCodec`, `MultiAccount`, `Migration` |

A behaviour of `MCCallers`, `MCProcess` and `MCDataPath` is one of a single part, chosen in the initial state; the
variables of the others keep an unused or their initial value. The parts share no memory in the code either: a
call of the library owns its builder, its chunks and its pages.

A definition whose comment starts "Mutant of X" is X as a plausible mistake would have
it. No specification uses it; it is there to show that a property would notice.

### Lease

`AcquireKey(p)`, `Refresh(p)` and `Release(p)` are the code up to the request: validate the
duration, read the clock, compute `ExpiresAt`, build the condition. `Serve(p)` is the
conditional write; `ReturnAcquire`, `ReturnRefresh` and `ReturnRelease` are what the code
makes of the answer (`LeaseHeldError`, `LeaseNotOwnedError`, and a refused release is not an
error). `Resend`, `Fail`, `Crash` and `ServeLate` are the SDK's retry, an error of unknown
outcome, the loss of the process and a request that outlives its call. `ExpireTTL` is
DynamoDB's TTL deletion, which may happen at any time after the `ttl` attribute has passed.

Time runs in ticks, `TicksPerSecond` to a second, because the code keeps whole Unix seconds
while clocks and durations are finer. A caller's clock shows any value of `Clocks`. `Holds(p)`
says when a caller may rely on its lease: no clock of the system has reached the
`ExpiresAt` it was given.

Two constants state what callers must respect. With `ExtendOnly` a refresh never asks
for an earlier expiry; with `LateRefresh = FALSE` no refresh reaches the table after
its call returned. `Refresh` compares only the token and `lease_expires_at > :now`, never the
old expiry, so a shortening or delayed refresh moves the row backwards under a
caller that relies on more: `Exclusion` is claimed under these two assumptions and not without.
What holds without them is checked in run `any_callers`; section 5 tells how a late refresh breaks `Exclusion`.

### VersionedItem

The data of the item is the set of edits it contains, so that "overwritten" means
"an edit has left the set". `Carrying` is what a request takes from the struct, `PutCondition`, `UpdateCondition` and `DeleteCondition` the
conditions the code sends, `VersionStep` whether the write advances the version.
`Delete` takes version 0 for no version and then sends no condition.
`Returned` is what the code leaves in the struct (`Update` does not advance the caller's
own version field, so a struct is good for one update; `ExecuteWithResult` of the builder
hands out the written item). Two spellings of the builder matter: `builderAdd` is `ConditionVersion(v)` together with `Add("Version", 1)`,
`builder` is `ConditionVersion(v)` alone.

A *life* is what lies between two whole-item puts; versions start over with each life.

### TransactBuilder

`Ask` is one call of a builder method: `AddOperation` checks the limit, the model and the kind,
and keeps the first error. `Execute` returns that error, or builds the input and draws a
new `ClientRequestToken`. `Serve` is DynamoDB, `Lose` a broken connection, `Resend` the
SDK's repetition with the same token. `Succeed`, `Canceled`, `Retry`, `ContextDone`, `NoClient` and
`Fail` are the branches of `executeWithRetry` and of the error translation; a success
empties the builder, every other outcome keeps its operations. How one operation is turned into
expression text is abstracted to its key, its conditions and whether building it fails.
`log` and `ambiguous` are bookkeeping: what was committed by which execution, and which
executions got no answer.

### MemoryMonitor, ResourceProtector, SimpleLimiter

Each step of `MemoryMonitor` lies between two points where another goroutine can interfere:
taking `mu`, waiting for `wg`, the select, the check of `running`, the read of the callback.
`pressure` decides per behaviour whether memory usage reaches the threshold.
In `ResourceProtector` each atomic operation is a step, including the load and the
compare-and-swap of the high-water mark and the reader goroutine of `SecureBodyReader` that
may still be reading when its request has timed out.
`SimpleLimiter.Allow` runs under a mutex and is one step; its integer division is kept.

### ExprBuilder, QueryPlan, UpdateExpr

A builder is a record: the placeholders for names and values with their counters, and the key conditions,
filters, conditions and updates that refer to them. An expression is a sequence of references, each with the
AND or OR before it, and DynamoDB evaluates what the *references* stand for: a placeholder that is overwritten, or
numbered twice, changes what a condition means. The properties compare that with what the caller passed.
The placeholder of a reserved word is its upper case (`UpperCase`); `ReservedAssumption` says that no two reserved attribute names of a
request differ in case only, because they would share one.

`QueryPlan` has `Where`, `Filter`, `OrFilter`, groups and `Index` as actions, `SelectOptimal` with its scores,
the two ways of splitting conditions (by field for an index the selector chose, by field and operator for one the
caller named), the key that turns `First` into a GetItem, and `All`, `First` and `Scan`. `AddPart` runs over the conditions twice, first for the
key conditions and then for the filters, because that is the order in which the code draws placeholders. An answer is `rows`, one `row` of `First`, `notFound` or
`error`. `UpdateExpr` has one action for each call
that changes an update or adds a condition, and one for each write it may end in: `Execute`, `ExecuteWithResult`, and
put, delete, check, field update and update function of a transaction. There two builders number the placeholders
of one request, and raw conditions bring their own. `expr` is the builder that the update calls go into while they are made, and `changes` what the caller passed;
the conditions are added when the write is compiled. A sealed value is a number above `SealBase`.

A condition reaches a write along one of four ways, and each treats an encrypted field differently. `Condition` of the update builder sets `buildErr`, which stops
`Execute`. `WithCondition` of the query leaves the condition out and sets `queryErr`, which stops no update. `TransactCondition`, a condition of an operation of a transaction
(`inTransaction`), is kept, and refused when an update function is compiled. `WithConditionExpression` is text. `demands` is what the code kept, `given` what the
caller passed: the properties speak of `given`.

### PagedRead, CursorCodec, Aggregates

A read is a request (its mode, executor and limit) and a page per segment. `FetchPage` is one request with everything
the code does with the answer: append, cut to the limit, remember the key, encode it as a cursor. DynamoDB
evaluates up to `PageRows` rows, filters them, and may stop anywhere; `OtherWrites` puts and deletes rows between two pages. `ever` and
`steady` remember which rows were there at some time and all the time. The cursor of `AllPaginated` goes through
`EncodeCursor` and `DecodeCursor` with a key whose type JSON cannot express by itself. A key attribute is a string, a number or bytes, so the lists and
maps of `cursor.go`, which would recurse, are left out. The segments of `ScanAllSegments` run side by side; `CollectSegment` takes their results from the channel in the
order in which they come. `Aggregates` has the loops of `aggregates.go` as recursive functions over the positions of the items; the items of a group are a set of positions. An average is a quotient, kept as its two
numbers and compared without dividing; `HAVING` looks at `COUNT(*)`, or at the first field of the aggregate's result that is set.

### BatchGet, BatchWrite

A chunk is a record with the place its goroutine has reached. In `BatchGet` a chunk takes its place in the semaphore,
reads, reads again for unprocessed keys, aligns the items with the keys and reports progress; `OnChunkError` may swallow
its error. Keys are duplicated, not stored, not convertible, or come back in a form `attributeValuesEqual` does not recognise (`Odd`).
`BatchWrite` covers seven operations that share the steps: `createOld` is `BatchCreate` over an executor without `ExecuteBatchWriteItem`. `BatchWriteItem`
carries out any subset of a request. Items are numbers in the order they were passed, and a chunk is the set of requests whose `Place` falls into it; `layers` counts how often an item in memory was encrypted, `stored` how often it had been when it was written, up to `MaxLayers`, which is one more than there should be.

### ItemCodec

One attribute, from a Go value to an attribute value, through encryption, into the table and back. The put is the session executor's, which encrypts, or the
main executor's, which stores what was marshalled (`writer`). The marshallers are
the safe and the unsafe marshaller, and the reflection fall-back with the converter or the expression converter; the readers
are those of the session executor, of the main executor and of updates. Values are of every kind (string, number, boolean,
time, bytes, slices, maps, pointers, structs) with the tags `omitempty`, `set`, `ttl`, `encrypted` and the roles. Strings and numbers are numbers; their
printed form is a tag (`Rfc3339`, `Unix`, text), because readers tell forms apart.

### MultiAccount

`Partner` looks into the cache, `Lookup` takes the account under the read lock, and a *build* is a call of `createPartnerDB` under
way, with the configuration it was given; it ends by storing its entry or failing. `RemovePartner` deletes the account and then,
in a step of its own, the entry. The refresh visits the entries one by one and starts a build for each that is due. Time
is what is left of every entry, in ticks. `missed`, `removed` and `overlapped` are bookkeeping for the properties.

### Migration

A table is a status, a function from keys to values and a set of indexes. A run is a job with the step it has reached: backup (a DynamoDB backup, or a copy through a new table), target
table, copy. Tables are absent, creating, active or deleting and settle by themselves. The copy scans pages, transforms and validates rows, writes
batches, repeats what is unprocessed up to `CopyRetries` times and then puts rows one by one. Any call may fail, which ends the run; the caller may
start another. Others write rows of the source and may create the target at the same time. After a migration
`UpdateTable` or `BatchUpdateTable` brings the indexes up to date. Without a target model source and target are one table (`want.target`): it is not created when it exists, and nothing is
copied. The transforms considered keep the key of a row.

## 3. The runs

| Run | Question | Instance |
|---|---|---|
| `orderly_callers` | Is the lease exclusive, and an abstract lock? Are updates lost? | lease: 2 processes, 2 ticks per second, duration 3, skew 1, TTL, time to 5, 2 acquires, 1 retry per call, 1 late request; item: 2 writers, 4 edits, `IfNotExists` creates, updates of what was read, 1 retry, 1 late request |
| `any_callers` | What holds of a lease if refreshes are late or shorten, and what does a version identify if callers do anything? | lease: durations 2 and 3, TTL buffer below a second, no skew, time to 4; item: 2 writers, 3 edits, every operation except the builder without `Add`, blind updates |
| `lease_subsecond` | Is a granted lease held? (violated) | duration of half a second |
| `versioned_builder` | Is `ConditionVersion` enough? (violated) | 2 writers, 3 edits |
| `transact` | Once, whole, honest, finite? | 2 builders, 2 keys, at most 2 operations (25 in the code), 1 builder retry (4 in the code), 1 resend; the first goroutine makes 3 calls of builder methods and 2 of `Execute`, the second 1 and 1 |
| `transact_index` | Does the error name the failed operation? (violated) | as `transact` |
| `process` | Rate, slots, one monitor, and does everything end? | limiter: burst 2, refill every 3 ticks, time to 10; admission: 3 goroutines, 1 request slot, 2 batch slots, 2 bodies; monitor: 3 callers, 2 starts, with and without pressure |
| `monitor_restart` | Does `Start` return? (violated) | 2 callers, 2 starts, pressure |
| `data_path` | Does each kind of call do what it was asked, tell what it did not do, and return? | see below |
| `batch_sealing` | Is a stored item encrypted once? (violated) | 3 items in chunks of 2, 2 attempts |
| `update_conditions` | Does an update happen just if the conditions of its caller hold? (violated) | 2 rows, updates of up to 3 calls out of a change, 2 conditions and 1 on an encrypted field |
| `partner_removed` | Does a removed partner stay out of the cache, whatever is under way? (violated) | 2 goroutines, 1 partner, 2 builds |

The instance of `data_path`: queries of up to 3 calls out of 13 conditions and filters on a table of 4 rows with three sparse indexes;
reads of 4 rows in pages of at most 3, limit 2 or none, 2 segments, 1 retry, 2 writes by others; updates of up to 3 calls out
of 13 changes and 7 conditions, in and outside a transaction; batch gets of 2 or 3 keys in chunks of 1 or 2, 2 workers, 1 retry; batch writes of 3 items in chunks of
1 or 2, 2 workers, 2 attempts (5 in the code); 26 typed values with and without each tag, 2 executors and 2 keys; 2 goroutines, 1 partner, a ticker
of 2 and sessions of 6 ticks; migrations of 2 rows in pages and batches of at most 2, 2 retries, 2 runs, 1 change by others.

**Why these bounds.** A lease race needs two contenders, an expiry and a second acquire, which
duration 3 and time 5 allow at every half-second phase; odd durations and skew of a tick make
rounding matter. A lost update needs two structs of one version, a third edit shows what the loser
does next, and a fourth lets a request left behind by the second meet a later version. A builder limit of 2 is
reached and exceeded by 3 calls; one retry, one resend and one re-execution are each one more than
none, and the code treats a second one as the first. Three goroutines give a semaphore of 2 a
loser. Ten ticks are three refills and a remainder. In a batch, three items make two chunks of which one is short, and
two attempts make a first and a last. A read of four rows has two full pages, or one cut by a limit; two
writes let one row go and another come. Three calls of an update are enough for two builders to number
the same placeholders. A session of three ticker periods is the shortest STS grants. What a larger instance could still break is
covered by the proofs of section 4 wherever there is one.

**Deadlock.** `CHECK_DEADLOCK FALSE` stands wherever bounds on time, calls or tokens let a
behaviour end, or where callers may simply stop. Every call of `data_path` ends, and then
nothing is left to do. The one deadlock of interest, of `Start`, is a liveness property.

**Fairness.** Safety runs assume none. `MemoryMonitor` assumes strong fairness of every
step inside a call and of the monitor's steps, because Go's `RWMutex` starves neither readers
nor writers and a select with two ready cases picks each of them sooner or later; it assumes weak
fairness of the ticker and nothing about callers making calls. `ResourceProtector` assumes
weak fairness of each goroutine's next step, timeouts included (they are the code's own
timers), and nothing about a body ever ending or a caller ever releasing its batch.
`TransactBuilder` assumes weak fairness of the steps of a call in progress: it is one
goroutine's loop over a request that the SDK ends. `PagedRead`, `BatchGet` and `BatchWrite` assume weak fairness of the
caller's goroutine and of each worker's next step (a request ends, in one way or another), nothing about the
outcome of a request, and nothing about other writers.

### What the properties say

- `Exclusion`: at most one caller relies on the lease. `ImplementsMutex`: `Lease` refines `LeaseMutex` with the holders as its state.
- `BoundedHold`: no row outlives the longest duration asked for, so crashed holders are replaced.
- `NoStealing`: an unexpired row changes owner only through a release with its own token.
- `GrantedLeaseIsHeld`: holds for durations of a second or more (section 5 for shorter ones).
- `NoLostUpdate`, `AckedEditsPersist`, `OneWinnerPerVersion`: guarded callers lose nothing.
- `VersionNamesState`, `SafeToApply`: whatever callers do, a version names one state of a
  life, and a guarded write of the present life overwrites nothing unseen. Across lives, and for a
  delete at version 0, the code gives no such guarantee, and the property excludes them.
- `AtMostOnce`, `WholeTransaction`, `HonestResult`, `NoDoubleCommit`, `ExecuteReturns`: an
  execution commits at most once, everything that was asked or nothing, the error agrees with what
  happened unless there was no answer, re-executing commits twice only after such an error, and
  `Execute` ends.
- `OneMonitor`, `RunningIsLive`, `CalmRestart`: there is one monitor goroutine and the flag does not lie; without
  memory alerts a stopped monitor exits and `Start` returns. With alerts see section 5.
- `ReportedWithinLimit`, `HighWaterCovers`, `RequestsEnd`: counters never report more than
  the limit, the high-water mark is never lowered below a count that was reported, and a
  request whose body never ends still gives its slot back.
- `WindowBound`, `NotStarved`: in any window of length *t* at most `burst + t \div interval + 1` calls
  pass (the 1 for the part of an interval that had passed when the window began), and a call is refused only within one interval of an allowed one.
- `ReturnsMatching`: a read returns the rows of the chosen index that satisfy the conditions. The index matters: a
  global index scores ten points more than the table, so a sparse one may be chosen and rows without its key are
  not found. An OR before a condition that follows with AND is excluded, and so are filter groups (section 5).
- `EachRowOnce`, `ReadEnds`, `AggregatesAgree`: no row twice, none that does not match, none missed that was there
  throughout, unless a limit ended the read; reads end; extremes, groups and `HAVING` (of sums, averages, extremes and counts) agree with the
  items. Zero values count as missing for everything but sums and averages, as the code and its tests have it.
- `UpdateMeansItsCalls`, `UpdatesAreSealed`: a write that succeeds did each call with its own value to its own field and nothing else, and any other
  leaves the item alone. If the conditions are joined by AND, or by AND and OR in `ExecuteWithResult`, and the query left none out (`Heard`), it succeeds only if the item met them as the caller gave them,
  and fails on a condition only if it did not. `ConditionsHonoured` is the last part without these two provisos, and is violated (section 5). No update stores an encrypted field in the clear.
- `EachItemInPlace`, `GetReturns`: each stored item is at the place of its key, whatever the order of chunks and retries, unless its
  key is not among the attributes read or does not come back as it was written.
- `NothingDropped`, `CompletionReported`, `QuietAfterReturn`, `BatchReturns`: every item is written or named to the handler, the
  last progress is reported, nothing is written and no callback is called after the call returned, and it returns (`createOld` excepted: its loop has no bound).
- `ReadBack`, `SealedAtRest`: every writer with every reader gives back the value, through encryption too when the reader has the key. Excluded are the names of nested fields where
  writer and reader differ, and a time used as TTL. An encrypted attribute that the session's executor wrote is an envelope, and whoever cannot read it (`Barred`: no key, another
  key, the main executor before an envelope, the session's before a value the main executor stored in the clear) gets an error and not another value.
- `RemovedStaysOut`, `RenewedInTime`: a partner removed while no build for it was under way stays out of the cache (`RemovedForGood`, without that condition, is violated); an entry is
  renewed before it expires, as long as renewals succeed. A build takes at most one period of the ticker.
- `MigrationHonest`: a migration that returns nil has copied every row that nobody else touched to the target, if that is another table, and
  to the backup, and an index update that returns nil has left the model's indexes.

## 4. The proofs

| Module | Theorems | Assumptions beyond the named constants' types |
|---|---|---|
| `LeaseProofs` | `TypeCorrect`, `NeverStolen`, `HoldsAreBounded`; `MutualExclusion`, `RowOwnership`, `Refinement`; `GrantsAreHeld` | the next three: `ExtendOnly` and `~LateRefresh`; the last: input is validated and no duration is below a second |
| `VersionedItemProofs` | `TypeCorrect`; `VersionIdentifies`, `OneWinner`, `GuardedWritesSafe`; `UpdatesNotLost`, `AckedEditsStay` | the next three: no `builder` update; the last two: `Guarded` |
| `TransactBuilderProofs` | `Inductive`, `TypeCorrect`, `ExecuteOnce`, `AllOrNothing`, `ResultsHonest`, `CommittedOnce` | none |
| `ProcessProofs` | `RateKept`, `NoStarvation`; `AtMostOneMonitor`, `RunningMeansLive`; `SlotsConserved`, `WithinLimit`, `MarkCovers`; `Removed`, `Renewed` | a positive burst and interval; finitely many callers and workers; a session lasts three periods of the ticker or more |
| `BatchProofs` | `NoItemDropped`, `CompletionIsReported`, `QuietOnceReturned`; `ItemsInPlace` | a batch write has an item; the limits on batches and chunks are positive |
| `ReadProofs` | `EachRowReadOnce`, `AggregatesOfReadAgree` | rows are finitely many and ordered by their key, amounts and teams are numbers, a key attribute is a string, a number or bytes |
| `ExpressionProofs` | `UpdatesMeanTheirCalls`, `UpdatesStaySealed`; `QueriesReturnMatching` | encrypted fields are sealed when the item is first stored; reserved names have different upper cases; rows have their keys, indexes have names of their own |
| `MigrationProofs` | `MigrationIsHonest` | the source has finitely many rows; keys are numbered from 1 |

They hold for any number of callers, keys, retries, late requests and any bound on time.

**Lease.** `Exclusion` is not inductive: it says nothing about requests that are under way.
`IInv` adds that tokens in use were issued and are private to one process, that a request never
carries a later time than now (so a condition that passes proves expiry for every clock), that the
ttl is not before the expiry, that requests left behind are harmless, and that a grant the caller
has not yet seen is still good (`GrantsStand`). `HolderOwnsRow` (theorem `RowOwnership`) follows from the last one when the
answer arrives, `Exclusion` from `HolderOwnsRow` because tokens are private. The refinement maps every
step to a grant, a lapse or a stutter.

`HoldsAreBounded` and `GrantsAreHeld` are about expiries. Lemma `RequestOrigin` says where they come from: a call keeps its request or
builds a new one from a clock and a duration, a request left behind was one of a call, and a row is written with the expiry of a request. So every
expiry is within the longest duration of the latest clock, and stays so because time only grows. A duration of a second or more moves `Unix` to a later
second; with a shorter one it need not, which is what the run `lease_subsecond` shows and why `GrantsAreHeld` assumes it.

**VersionedItem.** `ItemInv` remembers in `past` every state the item had and says that every struct
and every request is based on one of them; since a version names one of them per life, a passed
condition means the caller saw the state it replaces. `GInv` adds, for guarded callers, that there
is one life and that every update in flight carries what it was based on.

**TransactBuilder.** `TInv` relates the log to what DynamoDB remembers of tokens (`LogServed`), the
builder to what was asked of it (`BuilderWhole`), a call to its input and token (`CallSound`), the
pending answer to the log (`CallFate`), results and operation identities to their goroutine
(`ResultOwn`, `IdsOwn`), and says that operations committed with an answer are no longer in a builder
(`CommittedGone`).

**SimpleLimiter.** `LInv` is a budget: the calls allowed since any time *a* plus the tokens left stay
within the burst and the refills since *a*, counted up to `lastRefill`; the fraction of an interval that
`lastRefill = now` forgets only helps. An empty bucket was emptied after the last refill, which gives
`NotStarved`.

**MemoryMonitor.** `MonitorInv` says that a live goroutine is the one started last (`LatestLives`), that only channels that were made are
closed, that whoever waits in `Start` holds `mu` and finds the flag clear, and that the starts under way stay within `MaxStarts`. The flag tells the truth because
it is set and cleared under `mu` by the caller that makes, or closes, the channel of the latest goroutine.

**ResourceProtector.** `SlotsAccounted` (theorem `SlotsConserved`) counts: the semaphore has as many elements as there are workers between taking and giving back a
slot, and the counter as many as there are workers between its increment and its decrement. Each step moves one worker across one of these
borders, so one lemma on the cardinality of a set with one element more or less serves all of them. Workers that are counted have a slot, hence
`ReportedWithinLimit`; `MarksSound` says what a worker in the compare-and-swap loop has read, hence `HighWaterCovers`.

**BatchWrite.** `BatchInv` follows the items. The chunks are a partition: every request has a place, every place falls into one chunk
(`PartHolds`, `PartsDisjoint`, which are about division). An item of a chunk that is being written is pending or stored; of a chunk that is through, and no error being
kept, it is stored or was named to the handler; a nil result means that all chunks are through without an error. For `CompletionReported` the number
*processed* is the number of items of the chunks that have counted, and the latest number has been reported or its goroutine is about to report it: the last to count is the one that
reports the total, in whatever order the reports come. `QuietAfterReturn` needs only that a call that is not running has no chunk in flight: writes and callbacks are steps of a chunk.

**BatchGet.** `GetInv` says of each chunk that its collected items and its remaining keys account for every stored key of its window, and of each place
of a window that it holds nothing before `Align` and what `Expected` says after it, unless an error was kept or swallowed. Windows partition the places as chunks do.

**MultiAccount.** `RemovedStaysOut` says nothing about what could store an entry later; `OutInv` adds that a removed partner has no
account to build from and no build under way. `RenewedInTime` rests on `TimeInv`: an entry in use is about to be
visited with one period left, or outlives the next firing of the ticker by one period, or has a renewal under way that
ends before it does. Each step moves an entry from one case to the next: time from the second to the first, a visit from the
first to the third or back to the second, a finished build to the second. A new entry starts in the second because a session of three
periods leaves two after the margin of one.

**Migration.** `CopyComplete` speaks of a call that has returned; `MigrationInv` says how it gets there. While rows are copied, those up to the last key
scanned that nobody else touched are in the destination or among the items still to be written, as the transform makes them (`Carried`); the last page leaves no key ahead. A copy
starts at the beginning (`StartsFresh`), which a repeated call or the second copy of one call could get wrong. Once the backup is
complete it stays so (`BackupKept`), also while the target is written and the source changes, because only a call that is still preparing deletes a table, and that table is only ever the backup
(`StaysUp`). A copy goes to a table other than the source, and that one has been created before (`TargetCreated`). The lemma on pages, `FirstKeysOf`, is that the first *n* keys are closed downwards, and all keys if there are *n*. A row that others change
leaves the claim, a retry or an individual put moves a row from the items to the table, and nothing else moves.

**PagedRead.** `EachRowOnce` speaks of a read that has returned. `ReadInv` follows each segment (`PageSound`): its rows are different, wanted and were there once; while there
are pages left, they lie up to the start key, and every wanted row up to it that was there all the time is among them; a segment that is
through has all of those, unless it stopped at its limit. A page moves the start key by at most what it evaluated (`InOrder`, `Answers`), and the cursor that carries it
is read back as it was written (`CursorReadBack`). `CollectedSound` says that the result of `ScanAllSegments` so far is made of whole segments, which are disjoint
because a row falls into one of them.

**Aggregates.** `AggregatesRight` holds for every list of rows and uses nothing of the read but that. The loops are recursive functions on positions; `CountUp`, induction on the natural numbers
for a set instead of a predicate, shows that such a function exists and what it computes. An extreme is a value that no value seen before beats. The sums of the groups add up
because the sum over positions and the sum over groups may be exchanged (`SumsSwap`): each grouped position is in one group. `HAVING` with a sum above a bound needs an item
that is positive, since a sum of numbers that are not is not.

**ExprBuilder.** Both proofs that follow rest on one description of a builder. `BuilderOK`: the placeholders for values are the numbers up to the counter,
and one for a name is a reserved word's own or a number up to the counter, so the next number is free. `Extends(c, b)`: everything b binds, c binds to the same. `Refers(b, e, c, low)`: entry e of an expression, looked up in
b, is what the caller passed as c, with a value number above *low*. Each operation on a builder yields one that is sound, extends the old one and refers to its argument; by `CountUp`
so does a list of them. A reserved word's own placeholder stands for that word only because of `ReservedAssumption`. `Clone` matters there: a copy with counters of its own would not extend the original.

**UpdateExpr.** `UpdateMeansItsCalls` is about a write that is over. `UpdateInv` adds that the builder is sound and that its updates, looked up, are the calls one by one (`DoesAll`). Compiling extends the builder by
the conditions of the update, a clone of it by those of the query, and the raw conditions by placeholders that are not taken, so in the merged request each part still means what it did (`Asks`, `Demands`, `RawsBound`).
Conditions have value numbers above those of the updates, raw ones are apart from both: encryption changes the values of the updates of encrypted fields and no condition. What is applied
is therefore `Called`, and an encrypted field is removed, or set to something sealed. For the conditions `UpdateInv` says that `demands` and `given` are the same as long as
`queryErr` is not set: a success or a failure then speaks of the conditions the caller gave. `Stands` is what a list of conditions with its operators says of a row; the service accepts a request just if its lists stand
(`LinksStand`), `ExecuteWithResult` sends the list as it was given (`LinksStandSame`), and for lists without OR it means that all conditions are met (`StandsOfAnd`), whatever lists they are put into.

**QueryPlan.** `QueryInv` says that without groups the filters in the builder, looked up, are those that were asked for. `AddPart` puts each condition into exactly one of the two
parts, so a row satisfies key conditions and filters just if it satisfies the conditions and the filters that were asked for (`PlanMeans`); with an AND before each condition this needs that the
OR of a filter does not reach it, which is what `PlainFilters` excludes. Whatever index the scores choose is one of the table's (`ChosenIndex`), and a request DynamoDB refuses is an error. A GetItem takes the last
condition on each key field, and a conflict with an earlier one is excluded by `Contradictory`.

The inductive invariants were also checked by TLC on the instances of section 3 before they were proved, except `UpdateInv` and `QueryInv`, whose unbounded
quantifiers TLC cannot evaluate; of those it checked the properties that follow.

**Model-checked only.** Liveness (`ExecuteReturns`, `CalmRestart`, `RequestsEnd`, `ReadEnds`, `GetReturns`, `BatchReturns`), which would need `ENABLED`; and `ReadBack` and `SealedAtRest`, because
the marshallers and readers of `ItemCodec` recurse on the structure of Go types and values. Induction on numbers, over the positions of a list, is within reach through `CountUp`; recursive operators on nested
values are not. Their instances are listed in section 3.

## 5. Where the code and its documentation disagree

Seven runs are expected to end in a violation; each shows one disagreement.

- **`lease_subsecond` / `GrantedLeaseIsHeld`.** `AcquireKey` accepts every duration above zero and
  keeps whole seconds (`pkg/lease/lease.go:200`): a duration below one second can yield
  `ExpiresAt = now`. By the documented rule ("held iff `lease_expires_at > now`",
  `docs/facetheory/isr-cache-schema.md:65`) the granted lease is not held, and the next contender gets it.
- **`versioned_builder` / `NoLostUpdate`.** `UpdateBuilder.ConditionVersion`
  (`pkg/query/update_builder.go:237`) adds the condition and not the increment: two updates guarded by
  the same version both succeed. `pkg/core/interfaces.go:277` promises optimistic locking. With
  `Add("Version", 1)` (`builderAdd`) the property holds and is proved.
- **`monitor_restart` / `StartReturns`.** `Start` waits for the old monitor goroutine while it holds
  `mm.mu` (`pkg/protection/resource_limiter.go:293`), and that goroutine may be about to take
  `mm.mu.RLock()` to read the alert callback: neither proceeds. The schedule needs memory usage above
  the threshold, a `Stop` and a `Start` within one check; without alerts `CalmRestart` holds.
- **`transact_index` / `OperationIndexFailed`.** `buildTransactionError`
  (`pkg/transaction/builder.go:853`) reports the first reason with a code, and DynamoDB gives the
  operations that did not fail the code `None`; the reported index is always that of the first
  operation (`docs/api-reference.md:359`: "The index of the operation that failed"). For the same reason a
  conflict on one of several operations is not retried.
- **`batch_sealing` / `EncryptedOnce`.** `ExecuteBatchWriteItem` encrypts the items of a request in place
  (`internal/theorydb/query_executor.go:1131`), and its caller sends the unprocessed ones through it again: an item that was throttled once is
  stored in two envelopes, and a read opens one. `docs/development/planning/theorydb-spec-dms-v0.1.md:35` has one envelope as the stored
  representation, and the roadmap next to it asks for a round trip.
- **`update_conditions` / `ConditionsHonoured`.** `Query.WithCondition` on an encrypted field (`pkg/query/query.go:2306`) keeps the error in the query and drops the condition;
  `UpdateBuilder.Execute` and `ExecuteWithResult` check only their own error (`update_builder.go:322`, `:418`). The update is carried out although the item does not meet the condition, and returns nil, where
  `docs/struct-definition-guide.md:77` says that such attempts are rejected and `pkg/core/interfaces.go:141` that `WithCondition` adds a condition for write operations.
- **`partner_removed` / `RemovedForGood`.** `createPartnerDB` stores its entry (`internal/theorydb/multiaccount.go:194`) whether or not the partner still has an
  account: a build, or a refresh, that is under way during `RemovePartner` brings the connection back, and the routine then renews it for ever. `multiaccount.go:104`: "RemovePartner
  removes a partner and clears its cached connection".

Further observations that no run is about; where a property would fail it excludes the case and says so.

- The condition of `Refresh` (`pkg/lease/lease.go:300`) checks the token and that the lease has not expired, not that the new expiry
  is later than the old one. A refresh that was given up without an answer and arrives after a second, successful one takes the expiry back: the
  holder relies on the later time, and another process acquires before it (`docs/facetheory/isr-idempotency.md:47`: "the lock prevents concurrent regeneration for a cache key"). TLC finds
  this violation of `Exclusion` in the lease of `MCCallers_orderly.cfg` with `LateRefresh = TRUE` and `MaxSkew = 0`.
- `UpdateBuilder.Execute` joins all conditions with AND (`update_builder.go:338`); `ExecuteWithResult` honours the
  operator. `pkg/core/interfaces.go:268`: "OrCondition adds a condition with OR logic". An update is refused although one of its alternatives holds. Without conditions on encrypted fields
  this is how TLC violates `ConditionsHonoured`.
- `AddGroupFilter` (`internal/expr/builder.go:208`) copies the placeholders of a group, numbered from one, over those of the
  query: a filter before the group then compares with the group's field and value (`pkg/query/query.go:2282`: "FilterGroup adds a grouped AND filter condition"). This is why
  `ReturnsMatching` excludes groups.
- `docs/api-reference.md:239` speaks of up to 100 operations where `maxTransactOperations` is 25, and the publish recipe of
  `docs/facetheory/isr-transaction-recipes.md:20-36` puts a condition check and a delete of the same lease row
  into one transaction, which DynamoDB rejects (`OneOpPerItem`).
- A condition appended with AND to a filter with OR binds tighter than the OR. In a transaction the conditions of the operation do not outlive an
  OR of the update function.
- Two reserved attribute names that differ in case only share a placeholder (`internal/expr/builder.go:670`).
- A struct read before its item was deleted and created again may meet the version condition of the new item; a delete at version 0 has no condition.
- `ExecuteBatchWrite` of the session's executor repeats unprocessed items without a bound (`query_executor.go:1088`).
- The reader goroutines of requests that timed out are not bounded by the request slots.
- The main executor stores an encrypted attribute as it was marshalled (`pkg/query/executor.go:410`); the session's executor then refuses to read it.
- `ConsistentRead` is dropped when the selector prefers a global index; `Offset` is never applied; `ScanAllSegments` applies the limit
  to every segment; a cursor's index and order are not compared with the query's.
- Names of nested struct fields differ between the marshallers and the session's reader; a `time.Time` with the tag `ttl` is written as a
  number that no reader turns into a time; with `omitempty` a pointer to a zero value is lost in some writers.
- `AddPartner` leaves the cached connection of the old configuration in use.
- `BatchUpdateTable` is "useful for multiple GSI changes" (`pkg/schema/manager.go:567`), while `applyGSIUpdates` refuses more than one. `copyTable` deletes
  whatever table has the name of the backup.
- After a failed `LambdaInit` every later call returns a nil handle and a nil error (`lambda.go:85`).

## 6. Not modelled

- Session, errors, naming, validation, DMS, streams: no state; checks and conversions of strings and
  records.
- The text of expressions, printed numbers and dates, checks of names: character by character. What they decide (a converter
  is used, an attribute is encrypted, conditions are joined, a form is recognised) is modelled.
- The cost estimates of `pkg/query/optimizer.go`: nothing on the query path consults them.
- The cache of compiled marshallers and `RegisterConverter`; `WithContext` of the multi-account handle, which shares a map under
  another mutex: data races on Go's memory, which a model of the program's steps does not reach.
- The transaction context (`TransactionFunc`, `Tx`), the Lambda handle and the read-after-write helpers: thin layers over requests that
  other modules model; their hazards are listed in `PROJECT.json` or section 5.
- The model registry: one mutex around a parser of tags. Its result, the metadata of a model, is a constant of the other modules.
- The TypeScript and Python SDKs: other implementations of the same contract; every definition here is translated from the Go code.
- Mocks, test kit, contract tests, scripts, examples: not part of the running system.
- Cryptography, TLS, STS and the SDK's own retry policy: external.
- In the modelled parts: statistics that are only read (`GetStats`, `HealthCheck`), totals and
  rejection counters of the resource protector, callbacks of users beyond "may call Stop", and
  wrapping and wording of errors.

## 7. Plan

The modules were written in the order of what they protect: lease, versioned writes and transactions first, then the protection
package, then the data path (batches, pages, queries and updates, attributes), then connections and migrations. What is left, in order:

1. Proofs about `ItemCodec`: a form of the marshallers that recurses on the depth of a type, for which `ReadBack` could be proved by induction on numbers.
2. An abstract batch write (every item is written, or named in the error) with `BatchWrite` as its refinement.
3. `LeasePublish`: `Lease` and `TransactBuilder` composed as the publish recipe does, to ask whether a stale holder can
   publish.
4. `TransactionContext`: `Tx` as a variant of `TransactBuilder` (two requests, no retries).
5. The cache of marshallers as a protocol of its own, if the data race is repaired.

Properties are kept few, one per question, and the runs of small parts are joined (`orderly_callers`, `any_callers`, `process`, `data_path`) so that one instance
shows what callers, a process and a connection do.

## 8. How to run it

```
tlc -workers 2 -config MCCallers_orderly.cfg MCCallers    # any pair listed in PROJECT.json "runs"
tlapm LeaseProofs.tla                                     # any *Proofs module
```
Distinct states of the larger runs: `any_callers` 4,268,324, `orderly_callers` 1,112,757, `data_path` 796,125, `transact` 460,958,
`process` 58,269. With two workers `any_callers`, `data_path`, `transact` and `process` take one to three minutes (the last three for their liveness
properties), `orderly_callers` one, the others a few seconds.
