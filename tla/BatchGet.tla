------------------------------- MODULE BatchGet -------------------------------
(***************************************************************************)
(* BatchGet, pkg/query/batch_get.go: the keys are split into chunks, each  *)
(* chunk is read, read again for its unprocessed keys, and its items are   *)
(* put at the places of their keys.  Chunks are read one after the other   *)
(* or by goroutines behind a semaphore.                                    *)
(*                                                                         *)
(* A key and the item it names are the same value.                         *)
(***************************************************************************)
EXTENDS Integers, Sequences, FiniteSets, FiniteSetsExt, SequencesExt

CONSTANTS
    KeyLists,      \* lists of keys to get
    StoredKeys,          \* keys with an item in the table
    Unconvertible, \* keys that buildBatchGetKey refuses
    Odd,           \* keys written otherwise than in the stored item (1.0 for 1)
    ChunkSizes, ChunkLimit,   \* ChunkSize options and their limit, 100 in the code
    GetConcurrency, GetRetries

ASSUME GetAssumption ==
    KeyLists \subseteq Seq(Nat) /\ ChunkSizes \subseteq Int /\ ChunkLimit \in Nat \ {0}

VARIABLES
    call,      \* the keys and the options of the call
    reading,   \* reading[c]: how far chunk c is
    ordered,   \* ordered[i]: the item put at the place of key i
    swallowed, \* chunks whose error OnChunkError did not return
    retrieved, \* the progress reporter's count
    shown,     \* counts given to ProgressCallback
    getErrors, \* errors in errCh
    got        \* "start", "running", "nil" or "error"

getVars == <<call, reading, ordered, swallowed, retrieved, shown, getErrors, got>>

Missing == 0

Idle(keys) ==
    /\ reading = <<>> /\ ordered = [i \in DOMAIN keys |-> Missing]
    /\ swallowed = {} /\ retrieved = 0 /\ shown = {} /\ getErrors = 0

GetInit ==
    /\ call \in [keys : KeyLists, size : ChunkSizes, parallel : BOOLEAN,
                 handler : {"none", "swallow", "return"}, policy : BOOLEAN,
                 projectsKey : BOOLEAN]
    /\ Idle(call.keys) /\ got = "start"

\* No BatchGet is called: for modules that compose this one with others.
GetUnused == call = [keys |-> <<>>] /\ Idle(<<>>) /\ got = "unused"

-----------------------------------------------------------------------------
(* normalizeBatchGetOptions, the conversion of the keys and the chunks.    *)

ChunkSize == IF call.size <= 0 \/ call.size > ChunkLimit THEN ChunkLimit ELSE call.size
Concurrency == IF call.parallel THEN GetConcurrency ELSE 1

\* The places of the keys of chunk c.
Window(c) == {i \in DOMAIN call.keys : i > (c - 1) * ChunkSize /\ i <= c * ChunkSize}

WindowKeys(c) == {call.keys[i] : i \in Window(c)}

Unread == [at |-> "todo", keys |-> {}, collected |-> {}, attempt |-> 0]

Plan ==
    /\ got = "start"
    /\ IF ToSet(call.keys) \cap Unconvertible # {} \/ call.keys = <<>>
       THEN got' = "error" /\ UNCHANGED reading
       ELSE /\ reading' = [c \in 1 .. ((Len(call.keys) + ChunkSize - 1) \div ChunkSize) |-> Unread]
            /\ got' = "running"
    /\ UNCHANGED <<call, ordered, swallowed, retrieved, shown, getErrors>>

-----------------------------------------------------------------------------
(* One chunk.                                                              *)

\* Chunk c is x, or passes on to a place.
Turns(c, x) == reading' = [reading EXCEPT ![c] = x]
Passes(c, place) == Turns(c, [reading[c] EXCEPT !.at = place])

\* Mutant of Busy: a goroutine keeps its place in the semaphore when it ends.
BusyForever == {c \in DOMAIN reading : reading[c].at # "todo"}

Busy == {c \in DOMAIN reading : reading[c].at \notin {"todo", "done"}}

\* A goroutine takes its place in the semaphore; without Parallel the chunks are taken
\* in order.
Begin(c) ==
    /\ got = "running" /\ reading[c].at = "todo" /\ Cardinality(Busy) < Concurrency
    /\ Concurrency = 1 => \A d \in 1 .. (c - 1) : reading[d].at = "done"
    /\ Turns(c, [reading[c] EXCEPT !.at = "reading", !.keys = WindowKeys(c)])
    /\ UNCHANGED <<call, ordered, swallowed, retrieved, shown, getErrors, got>>

RetriesAllowed == IF call.policy THEN GetRetries ELSE 0

\* Mutant of Retry: what the last attempt left unprocessed is forgotten.
RetryForgets(c, unprocessed) == IF unprocessed = {} \/ reading[c].attempt >= RetriesAllowed
                                THEN "align" ELSE "reading"

\* What follows an answer.
Retry(c, unprocessed) ==
    IF unprocessed = {} THEN "align"
    ELSE IF reading[c].attempt >= RetriesAllowed THEN "failed" ELSE "reading"

\* BatchGetItem, the decryption of its items, and the keys it did not process.
\* DynamoDB refuses a request that names a key twice.
BatchGetItem(c) ==
    /\ reading[c].at = "reading"
    /\ Cardinality(WindowKeys(c)) = Cardinality(Window(c))
    /\ \E unprocessed \in SUBSET reading[c].keys :
          LET answered == (reading[c].keys \ unprocessed) \cap StoredKeys
          IN  Turns(c, [reading[c] EXCEPT !.collected = reading[c].collected \union answered,
                                          !.keys = unprocessed,
                                          !.attempt = reading[c].attempt + 1,
                                          !.at = Retry(c, unprocessed)])
    /\ UNCHANGED <<call, ordered, swallowed, retrieved, shown, getErrors, got>>

ReadFails(c) ==
    /\ reading[c].at = "reading"
    /\ Passes(c, "failed")
    /\ UNCHANGED <<call, ordered, swallowed, retrieved, shown, getErrors, got>>

\* keyMatchesItem: the attributes of the key as the caller wrote them against those
\* of the item, which a projection may have left out.
KeyMatchesItem(key, item) == key = item /\ call.projectsKey /\ key \notin Odd

Matches(c, i) == {item \in reading[c].collected : KeyMatchesItem(call.keys[i], item)}

\* alignChunkResults, and the count under the reporter's mutex.
Align(c) ==
    /\ reading[c].at = "align"
    /\ LET found == {i \in Window(c) : Matches(c, i) # {}}
       IN  /\ ordered' = [i \in DOMAIN ordered |->
                            IF i \in found THEN CHOOSE item \in Matches(c, i) : TRUE
                            ELSE ordered[i]]
           /\ retrieved' = retrieved + Cardinality(found)
    /\ Turns(c, [reading[c] EXCEPT !.at = "report", !.attempt = retrieved'])
    /\ UNCHANGED <<call, swallowed, shown, getErrors, got>>

ShowProgress(c) ==
    /\ reading[c].at = "report"
    /\ shown' = shown \union {reading[c].attempt}
    /\ Passes(c, "done")
    /\ UNCHANGED <<call, ordered, swallowed, retrieved, getErrors, got>>

\* An error goes to OnChunkError, which may return nil; otherwise it ends a sequential
\* call and is kept by a parallel one.
ChunkError(c) ==
    /\ reading[c].at = "failed"
    /\ Passes(c, "done")
    /\ IF call.handler = "swallow"
       THEN swallowed' = swallowed \union {c} /\ UNCHANGED <<getErrors, got>>
       ELSE /\ getErrors' = getErrors + 1
            /\ got' = IF Concurrency = 1 THEN "error" ELSE got
            /\ UNCHANGED swallowed
    /\ UNCHANGED <<call, ordered, retrieved, shown>>

\* All chunks are through: wg.Wait, or the end of the loop.
Collect ==
    /\ got = "running" /\ \A c \in DOMAIN reading : reading[c].at = "done"
    /\ got' = IF getErrors = 0 THEN "nil" ELSE "error"
    /\ UNCHANGED <<call, reading, ordered, swallowed, retrieved, shown, getErrors>>

Chunk(c) == Begin(c) \/ BatchGetItem(c) \/ ReadFails(c) \/ Align(c) \/ ShowProgress(c) \/ ChunkError(c)

GetNext == Plan \/ Collect \/ \E c \in DOMAIN reading : Chunk(c)

\* The caller and every goroutine go on until they end.
GetFairness ==
    /\ WF_getVars(Plan \/ Collect)
    /\ \A c \in 1 .. Max({Len(keys) : keys \in KeyLists}) : WF_getVars(c \in DOMAIN reading /\ Chunk(c))

GetSpec == GetInit /\ [][GetNext]_getVars /\ GetFairness

-----------------------------------------------------------------------------
(* Properties.                                                             *)

\* batch_get.go, alignChunkResults under parallel chunks and partial answers: a call
\* that returns nil has each stored item at the place of its key, and none at another
\* place, unless OnChunkError took its chunk or its key cannot be recognised in the item.
EachItemInPlace ==
    got = "nil" => \A i \in DOMAIN ordered :
        LET k == call.keys[i]
            taken == \E c \in swallowed : i \in Window(c)
        IN  ordered[i] = IF k \in StoredKeys /\ ~taken /\ call.projectsKey /\ k \notin Odd
                         THEN k ELSE Missing

\* Under throttling that never ends, errors and handlers, a BatchGet returns.
GetReturns == (got = "start") ~> (got \in {"nil", "error"})
=============================================================================
