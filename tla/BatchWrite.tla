------------------------------ MODULE BatchWrite ------------------------------
(***************************************************************************)
(* Batch writes, pkg/query/batch_operations.go and the executors under it: *)
(* the items are split into chunks, a chunk is sent, sent again for what   *)
(* DynamoDB left unprocessed, and its failure goes to the caller's         *)
(* ErrorHandler or ends the call.  Parallel updates run a goroutine per    *)
(* chunk behind a semaphore.                                               *)
(*                                                                         *)
(* Items are numbers, in the order in which they are passed.  A write of   *)
(* an item is abstracted to how often its encrypted attributes were        *)
(* encrypted when it was stored.                                           *)
(***************************************************************************)
EXTENDS Integers, FiniteSets, FiniteSetsExt

CONSTANTS
    NItems,          \* items the caller passes
    Invalids,        \* sets of items that do not marshal, or have no key
    Encrypted,       \* the model has encrypted fields
    Sizes,           \* MaxBatchSize options
    BatchLimit,      \* 25 in the code
    MaxConcurrency,  \* goroutines of a parallel update
    MaxAttempts,     \* maxAttempts: 5 in the code
    UpdateRetries    \* RetryPolicy.MaxRetries

BatchItems == 1 .. NItems

\* A call without items returns at once.
ASSUME ItemsAssumption == NItems \in Nat \ {0} /\ Invalids \subseteq SUBSET BatchItems

ASSUME SizeAssumption == Sizes \subseteq Int /\ BatchLimit \in Nat \ {0}

VARIABLES
    op,         \* the batch operation called
    handler,    \* ErrorHandler: none, one that returns nil, one that returns an error
    size,       \* opts.MaxBatchSize
    invalid,    \* the items that do not marshal, or have no key
    requests,   \* the items to send
    chunk,      \* chunk[c]: how far chunk c is
    layers,     \* layers[i]: encryptions of the request of item i
    stored,     \* stored[i]: the same of the stored item; NotStored when not written
    processed,  \* *processed
    reports,    \* arguments of the ProgressCallback
    told,       \* items named to the ErrorHandler
    failures,   \* errors in errChan
    counts,     \* Succeeded and Failed of a BatchDeleteResult
    result      \* "start", "running", "nil" or "error"

batchVars == <<op, handler, size, invalid, requests, chunk, layers, stored, processed, reports,
          told, failures, counts, result>>
callVars == <<op, handler, size, invalid>>

NotStored == -1

\* As many encryptions as are told apart: an item may be sent again without end.
MaxLayers == 2

BatchOps == {"create", "createOld", "write", "delete", "deleteWithResult", "update",
             "updateParallel"}
Handled  == {"write", "delete", "update", "updateParallel"}
Itemwise == {"update", "updateParallel"}
Convert1st == {"createOld", "write"}

BatchInit ==
    /\ op \in BatchOps
    /\ handler \in {"none", "continue", "stop"}
    /\ op \notin Handled => handler = "none"
    /\ size \in Sizes /\ invalid \in Invalids
    /\ requests = {} /\ chunk = <<>>
    /\ layers = [i \in BatchItems |-> 0]
    /\ stored = [i \in BatchItems |-> NotStored]
    /\ processed = 0 /\ reports = {} /\ told = {} /\ failures = 0
    /\ counts = [succeeded |-> 0, failed |-> 0]
    /\ result = "start"

\* No batch is written: for modules that compose this one with others.
BatchUnused ==
    /\ op = "" /\ handler = "none" /\ size = 0 /\ invalid = {}
    /\ requests = {} /\ chunk = <<>>
    /\ layers = [i \in BatchItems |-> 0]
    /\ stored = [i \in BatchItems |-> NotStored]
    /\ processed = 0 /\ reports = {} /\ told = {} /\ failures = 0
    /\ counts = [succeeded |-> 0, failed |-> 0]
    /\ result = "unused"

-----------------------------------------------------------------------------
(* Splitting.                                                              *)

\* The size a batch really has: prepareBatches, prepareKeyBatches and
\* splitWriteRequests correct the option, the other operations ignore it.
BatchSize == IF op \in Handled /\ size > 0 /\ size <= BatchLimit THEN size ELSE BatchLimit

NumBatches(reqs) == (Cardinality(reqs) + BatchSize - 1) \div BatchSize

\* The place of an item among the requests, and the requests of chunk c.
Place(i) == Cardinality({j \in requests : j <= i})
Batch(c) == {i \in requests : Place(i) > (c - 1) * BatchSize /\ Place(i) <= c * BatchSize}

Waiting == [at |-> "todo", pending |-> {}, attempt |-> 0, seen |-> 0]

\* The call up to its first chunk.  BatchWrite and the older BatchCreate convert
\* every item first; the ErrorHandler may let an item be skipped.
Prepare ==
    /\ result = "start"
    /\ LET bad == op \in Convert1st /\ invalid # {}
           reqs == IF bad THEN BatchItems \ invalid ELSE BatchItems
       IN  IF bad /\ handler # "continue"
           THEN /\ result' = "error"
                /\ told' = IF handler = "stop" THEN {Min(invalid)} ELSE {}
                /\ UNCHANGED <<requests, chunk>>
           ELSE /\ requests' = reqs
                /\ chunk' = [c \in 1 .. NumBatches(reqs) |-> Waiting]
                /\ result' = "running"
                /\ told' = IF bad THEN invalid ELSE {}
    /\ UNCHANGED <<callVars, layers, stored, processed, reports, failures, counts>>

-----------------------------------------------------------------------------
(* One chunk.                                                              *)

\* Chunk c is x, or goes on to a place.
Becomes(c, x) == chunk' = [chunk EXCEPT ![c] = x]
Goes(c, place) == Becomes(c, [chunk[c] EXCEPT !.at = place])

\* Mutant of InFlight: a goroutine keeps its place in the semaphore when it ends.
InFlightForever == {c \in DOMAIN chunk : chunk[c].at # "todo"}

InFlight == {c \in DOMAIN chunk : chunk[c].at \notin {"todo", "done"}}

\* executeDeleteBatch and BatchCreate convert a chunk before they send any of it.
Unusable(c) == op \in {"create", "delete"} /\ Batch(c) \cap invalid # {}

\* Chunks are taken in order: one after the other, or while the semaphore has room.
Start(c) ==
    /\ result = "running" /\ chunk[c].at = "todo"
    /\ \A d \in 1 .. (c - 1) : chunk[d].at # "todo"
    /\ IF op = "updateParallel" THEN Cardinality(InFlight) < MaxConcurrency ELSE InFlight = {}
    /\ Becomes(c, [chunk[c] EXCEPT !.pending = Batch(c),
                                   !.at = IF Unusable(c) THEN "failed" ELSE "writing"])
    /\ UNCHANGED <<callVars, requests, layers, stored, processed, reports, told, failures,
                   counts, result>>

IsPut(i) == op \in {"create", "createOld"} \/ (op = "write" /\ i # NItems)

\* ExecuteBatchWriteItem encrypts the items of the request in place.
Encrypting(c) ==
    [i \in BatchItems |-> IF Encrypted /\ IsPut(i) /\ i \in chunk[c].pending /\ layers[i] < MaxLayers
                     THEN layers[i] + 1 ELSE layers[i]]

Storing(S) == [i \in BatchItems |-> IF i \in S THEN layers'[i] ELSE stored[i]]

\* BatchWriteItem: some requests are carried out, or the call fails with no word of
\* what was.
BatchWriteItem(c, written) ==
    /\ chunk[c].at = "writing" /\ op \notin Itemwise
    /\ written \subseteq chunk[c].pending
    /\ layers' = Encrypting(c)
    /\ stored' = Storing(written)

WriteFails(c) ==
    /\ \E written \in SUBSET chunk[c].pending : BatchWriteItem(c, written)
    /\ Goes(c, "failed")
    /\ UNCHANGED <<callVars, requests, processed, reports, told, failures, counts, result>>

\* Mutant of AfterLastAttempt: what is left after the last attempt is dropped.
AfterLastAttemptDrop == "succeeded"

AfterLastAttempt == "failed"

\* executeBatchWriteWithRetries: one attempt, the report on what is left, and the
\* decision to go on.
Attempt(c) ==
    /\ op \notin {"deleteWithResult", "createOld"}
    /\ \E written \in SUBSET chunk[c].pending :
          /\ BatchWriteItem(c, written)
          /\ LET rest == chunk[c].pending \ written
                 last == chunk[c].attempt + 1 = MaxAttempts
                 total == Cardinality(Batch(c))
             IN  /\ Becomes(c, [chunk[c] EXCEPT
                        !.at = IF rest = {} THEN "succeeded"
                               ELSE IF last THEN AfterLastAttempt ELSE "writing",
                        !.pending = rest,
                        !.attempt = chunk[c].attempt + 1])
                 /\ reports' = IF rest = {} \/ op \notin {"write", "delete"} THEN reports
                               ELSE reports \union {<<total - Cardinality(rest), total>>}
    /\ UNCHANGED <<callVars, requests, processed, told, failures, counts, result>>

\* ExecuteBatchWrite sends what is left again and again.
AttemptUnbounded(c) ==
    /\ op = "createOld"
    /\ \E written \in SUBSET chunk[c].pending :
          /\ BatchWriteItem(c, written)
          /\ LET rest == chunk[c].pending \ written
             IN  Becomes(c, [chunk[c] EXCEPT !.pending = rest,
                               !.at = IF rest = {} THEN "succeeded" ELSE "writing"])
    /\ UNCHANGED <<callVars, requests, processed, reports, told, failures, counts, result>>

\* BatchDeleteWithResult sends each batch once and counts.
AttemptCounted(c) ==
    /\ op = "deleteWithResult"
    /\ \E written \in SUBSET chunk[c].pending :
          /\ BatchWriteItem(c, written)
          /\ counts' = [succeeded |-> counts.succeeded + Cardinality(written),
                        failed |-> counts.failed + Cardinality(chunk[c].pending) - Cardinality(written)]
    /\ Goes(c, "done")
    /\ UNCHANGED <<callVars, requests, processed, reports, told, failures, result>>

FailCounted(c) ==
    /\ op = "deleteWithResult" /\ chunk[c].at = "failed"
    /\ counts' = [succeeded |-> counts.succeeded, failed |-> counts.failed + Cardinality(Batch(c))]
    /\ Goes(c, "done")
    /\ UNCHANGED <<callVars, requests, layers, stored, processed, reports, told, failures,
                   result>>

\* executeWithRetry: whether the update of an item is tried again if its error is a
\* retryable one.
MayRetry(c) == chunk[c].attempt < UpdateRetries

\* executeUpdateBatch: the next item of the batch.
UpdateNextItem(c) ==
    /\ chunk[c].at = "writing" /\ op \in Itemwise
    /\ \E i \in chunk[c].pending :
          /\ \A j \in chunk[c].pending : i <= j
          /\ LET rest == chunk[c].pending \ {i}
             IN  \/ i \in invalid /\ Goes(c, "failed") /\ UNCHANGED stored
                 \/ /\ i \notin invalid
                    /\ stored' = [stored EXCEPT ![i] = 0]
                    /\ Becomes(c, [chunk[c] EXCEPT !.pending = rest, !.attempt = 0,
                                     !.at = IF rest = {} THEN "succeeded" ELSE "writing"])
                 \/ /\ i \notin invalid
                    /\ stored' \in {stored, [stored EXCEPT ![i] = 0]}
                    /\ \/ /\ MayRetry(c)
                          /\ Becomes(c, [chunk[c] EXCEPT !.attempt = chunk[c].attempt + 1])
                       \/ Goes(c, "failed")
    /\ UNCHANGED <<callVars, requests, layers, processed, reports, told, failures, counts, result>>

-----------------------------------------------------------------------------
(* The end of a chunk and of the call.                                     *)

\* The handler's verdict on a failed chunk; without one the error stands.
HandleError(c) ==
    /\ chunk[c].at = "failed" /\ op # "deleteWithResult"
    /\ told' = IF handler = "none" THEN told ELSE told \union Batch(c)
    /\ IF handler = "continue"
       THEN Goes(c, "count") /\ UNCHANGED <<failures, result>>
       ELSE /\ Goes(c, "done")
            /\ failures' = failures + 1
            /\ result' = IF op = "updateParallel" THEN result ELSE "error"
    /\ UNCHANGED <<callVars, requests, layers, stored, processed, reports, counts>>

Succeed(c) ==
    /\ chunk[c].at = "succeeded"
    /\ Goes(c, IF op \in Handled THEN "count" ELSE "done")
    /\ UNCHANGED <<callVars, requests, layers, stored, processed, reports, told, failures,
                   counts, result>>

\* Mutant of Count: a goroutine that reads the total before it adds its own batch.
CountLate(c) ==
    /\ chunk[c].at = "count"
    /\ processed' = processed + Cardinality(Batch(c))
    /\ Becomes(c, [chunk[c] EXCEPT !.at = "report", !.seen = processed])
    /\ UNCHANGED <<callVars, requests, layers, stored, reports, told, failures, counts, result>>

\* Under progressMutex.
Count(c) ==
    /\ chunk[c].at = "count"
    /\ processed' = processed + Cardinality(Batch(c))
    /\ Becomes(c, [chunk[c] EXCEPT !.at = "report", !.seen = processed'])
    /\ UNCHANGED <<callVars, requests, layers, stored, reports, told, failures, counts, result>>

\* After the mutex is released.
Report(c) ==
    /\ chunk[c].at = "report"
    /\ reports' = reports \union {<<chunk[c].seen, NItems>>}
    /\ Goes(c, "done")
    /\ UNCHANGED <<callVars, requests, layers, stored, processed, told, failures, counts, result>>

\* Mutant of ReturnBatch: executeBatchesParallel without wg.Wait.
ReturnBatchEarly ==
    /\ result = "running"
    /\ \A c \in DOMAIN chunk : chunk[c].at # "todo"
    /\ result' = IF failures = 0 THEN "nil" ELSE "error"
    /\ UNCHANGED <<callVars, requests, chunk, layers, stored, processed, reports, told,
                   failures, counts>>

ReturnBatch ==
    /\ result = "running"
    /\ \A c \in DOMAIN chunk : chunk[c].at = "done"
    /\ result' = IF failures = 0 THEN "nil" ELSE "error"
    /\ UNCHANGED <<callVars, requests, chunk, layers, stored, processed, reports, told,
                   failures, counts>>

Step(c) ==
    \/ Start(c) \/ WriteFails(c) \/ Attempt(c) \/ AttemptUnbounded(c) \/ AttemptCounted(c)
    \/ FailCounted(c) \/ UpdateNextItem(c) \/ HandleError(c) \/ Succeed(c) \/ Count(c) \/ Report(c)

BatchNext == Prepare \/ ReturnBatch \/ \E c \in DOMAIN chunk : Step(c)

\* The caller's goroutine and the workers go on until they end.
BatchFairness ==
    /\ WF_batchVars(Prepare \/ ReturnBatch)
    /\ \A c \in BatchItems : WF_batchVars(c \in DOMAIN chunk /\ Step(c))

BatchSpec == BatchInit /\ [][BatchNext]_batchVars /\ BatchFairness

-----------------------------------------------------------------------------
(* Properties.                                                             *)

\* A batch operation that returns nil has written every item, or has named the
\* others to the ErrorHandler: nothing is dropped between chunks, attempts and
\* goroutines.  BatchDeleteWithResult accounts for every key instead.
NothingDropped ==
    result = "nil" =>
        IF op = "deleteWithResult"
        THEN /\ counts.succeeded + counts.failed = NItems
             /\ counts.succeeded <= Cardinality({i \in BatchItems : stored[i] # NotStored})
        ELSE \A i \in BatchItems : stored[i] # NotStored \/ i \in told

\* Once the call has returned nothing is written any more and no callback is called: the
\* parallel update waits for its goroutines, also after the first error.
QuietAfterReturn ==
    [][(result \in {"nil", "error"}) => UNCHANGED <<stored, reports, told>>]_batchVars

\* A call with a ProgressCallback that returns nil and skipped no item has reported
\* total of total, in whatever order the goroutines' reports arrive.
CompletionReported ==
    result = "nil" /\ op \in Handled /\ requests = BatchItems =>
        <<NItems, NItems>> \in reports

\* Every batch operation but the older BatchCreate, which resends without a bound,
\* returns even if DynamoDB leaves something unprocessed each time.
BatchReturns == (result = "start" /\ op # "createOld") ~> (result \in {"nil", "error"})

\* docs/development/planning/theorydb-spec-dms-v0.1.md:35: what is stored for an
\* encrypted attribute is one envelope.
EncryptedOnce ==
    \A i \in BatchItems : Encrypted /\ IsPut(i) /\ stored[i] # NotStored => stored[i] = 1
=============================================================================
