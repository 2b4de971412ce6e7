-------------------------- MODULE ResourceProtector --------------------------
(***************************************************************************)
(* Admission control of pkg/protection/resource_limiter.go: goroutines     *)
(* pass batch operations (AcquireBatch ... ReleaseBatch) and HTTP bodies   *)
(* (SecureBodyReader) through a rate limiter, a semaphore and counters     *)
(* that are updated with separate atomic operations.                       *)
(*                                                                         *)
(* Each step is one atomic operation on shared state.  The rate limiter is *)
(* the one of module SimpleLimiter; here it answers either way.            *)
(***************************************************************************)
EXTENDS Integers, FiniteSets

CONSTANTS
    Worker,          \* goroutines
    MaxConcurrent,   \* MaxConcurrentReq, MaxConcurrentBatch
    MaxBodies        \* bound: bodies read

Kind == {"request", "batch"}

ASSUME ProtectorAssumption ==
    /\ MaxConcurrent \in [Kind -> Nat]
    /\ MaxBodies \in Nat
    /\ IsFiniteSet(Worker)

VARIABLES
    work,        \* work[w]: where worker w is, for what, with which local values
    semaphore,   \* semaphore[k]: elements in the channel
    concurrent,  \* ConcurrentRequests, ConcurrentBatchOps
    highWater,   \* MaxConcurrentReq, MaxConcurrentBatch of the statistics
    reading,     \* bodies that a reader goroutine is in
    done,        \* bodies whose done channel is closed
    bodies       \* number of bodies so far

admissionVars == <<work, semaphore, concurrent, highWater, reading, done, bodies>>

Idle == [at |-> "idle", kind |-> "batch", current |-> 0, seen |-> 0, body |-> 0]

AdmissionInit ==
    /\ work = [w \in Worker |-> Idle]
    /\ semaphore = [k \in Kind |-> 0]
    /\ concurrent = [k \in Kind |-> 0]
    /\ highWater = [k \in Kind |-> 0]
    /\ reading = {}
    /\ done = {}
    /\ bodies = 0

\* w goes on to state s.
Go(w, s) == [work EXCEPT ![w] = [work[w] EXCEPT !.at = s]]

-----------------------------------------------------------------------------
(* Admission, the same for both kinds.                                     *)

\* Requests that have not started to read (for the bound on bodies).
Unread == {w \in Worker : work[w].at # "idle" /\ work[w].kind = "request" /\ work[w].body = 0}

\* The size check and the rate limiter let the call pass; a call they reject
\* changes nothing but a counter.
Admit(w, k) ==
    /\ work[w].at = "idle"
    /\ k = "request" => bodies + Cardinality(Unread) < MaxBodies
    /\ work' = [work EXCEPT ![w] = [Idle EXCEPT !.at = "admitted", !.kind = k]]
    /\ UNCHANGED <<semaphore, concurrent, highWater, reading, done, bodies>>

\* select with default: a slot, or a ConcurrencyLimitExceeded error at once.
TakeSlot(w) ==
    LET k == work[w].kind
    IN  /\ work[w].at = "admitted"
        /\ IF semaphore[k] < MaxConcurrent[k]
           THEN /\ semaphore' = [semaphore EXCEPT ![k] = @ + 1]
                /\ work' = Go(w, "slot")
           ELSE /\ work' = [work EXCEPT ![w] = Idle]
                /\ UNCHANGED semaphore
        /\ UNCHANGED <<concurrent, highWater, reading, done, bodies>>

\* AcquireBatch's select may take the case <-ctx.Done() although a slot is free.
Cancelled(w) ==
    /\ work[w].at = "admitted"
    /\ work[w].kind = "batch"
    /\ work' = [work EXCEPT ![w] = Idle]
    /\ UNCHANGED <<semaphore, concurrent, highWater, reading, done, bodies>>

\* current := atomic.AddInt64(&ConcurrentX, 1)
Count(w) ==
    LET k == work[w].kind
    IN  /\ work[w].at = "slot"
        /\ concurrent' = [concurrent EXCEPT ![k] = @ + 1]
        /\ work' = [work EXCEPT ![w] =
                       [work[w] EXCEPT !.at = "load", !.current = concurrent[k] + 1]]
        /\ UNCHANGED <<semaphore, highWater, reading, done, bodies>>

\* maxConcurrent := atomic.LoadInt64(&MaxConcurrentX); done if it is enough.
LoadHighWater(w) ==
    LET k == work[w].kind
    IN  /\ work[w].at = "load"
        /\ work' = [work EXCEPT ![w] =
              [work[w] EXCEPT !.seen = highWater[k],
                              !.at = IF work[w].current <= highWater[k]
                                     THEN "inside" ELSE "swap"]]
        /\ UNCHANGED <<semaphore, concurrent, highWater, reading, done, bodies>>

\* Mutant of SwapHighWater: a plain store instead of compare-and-swap.
StoreHighWater(w) ==
    LET k == work[w].kind
    IN  /\ work[w].at = "swap"
        /\ highWater' = [highWater EXCEPT ![k] = work[w].current]
        /\ work' = Go(w, "inside")
        /\ UNCHANGED <<semaphore, concurrent, reading, done, bodies>>

\* CompareAndSwapInt64; on failure the loop starts over.
SwapHighWater(w) ==
    LET k == work[w].kind
    IN  /\ work[w].at = "swap"
        /\ IF highWater[k] = work[w].seen
           THEN /\ highWater' = [highWater EXCEPT ![k] = work[w].current]
                /\ work' = Go(w, "inside")
           ELSE /\ work' = Go(w, "load")
                /\ UNCHANGED highWater
        /\ UNCHANGED <<semaphore, concurrent, reading, done, bodies>>

-----------------------------------------------------------------------------
(* Inside.                                                                 *)

\* SecureBodyReader starts a goroutine that reads the body and closes done.
StartReader(w) ==
    /\ work[w].at = "inside"
    /\ work[w].kind = "request"
    /\ work[w].body = 0
    /\ bodies' = bodies + 1
    /\ reading' = reading \union {bodies + 1}
    /\ work' = [work EXCEPT ![w] = [work[w] EXCEPT !.body = bodies + 1]]
    /\ UNCHANGED <<semaphore, concurrent, highWater, done>>

\* The reader goroutine ends: the body was read, or it failed.
FinishReader(b) ==
    /\ b \in reading
    /\ reading' = reading \ {b}
    /\ done' = done \union {b}
    /\ UNCHANGED <<work, semaphore, concurrent, highWater, bodies>>

\* Mutant of Leave: the counter is not lowered.
LeaveUncounted(w) ==
    /\ work' = Go(w, "leaving")
    /\ UNCHANGED <<semaphore, concurrent, highWater, reading, done, bodies>>

\* Both ways out of SecureBodyReader's select run the deferred calls, in
\* reverse order: the counter first, then the semaphore.
Leave(w) ==
    LET k == work[w].kind
    IN  /\ concurrent' = [concurrent EXCEPT ![k] = @ - 1]
        /\ work' = Go(w, "leaving")
        /\ UNCHANGED <<semaphore, highWater, reading, done, bodies>>

BodyDone(w) == work[w].at = "inside" /\ work[w].body \in done /\ Leave(w)

\* Mutant of BodyTimeout: secureBodyReader without the timeout.
BodyTimeoutNever(w) == FALSE /\ Leave(w)

\* case <-ctx.Done(): the reader goroutine is left behind.
BodyTimeout(w) ==
    work[w].at = "inside" /\ work[w].body # 0 /\ Leave(w)

\* The first half of ReleaseBatch.
ReleaseBatch(w) ==
    work[w].at = "inside" /\ work[w].kind = "batch" /\ Leave(w)

\* <-semaphore
FreeSlot(w) ==
    /\ work[w].at = "leaving"
    /\ semaphore' = [semaphore EXCEPT ![work[w].kind] = @ - 1]
    /\ work' = [work EXCEPT ![w] = Idle]
    /\ UNCHANGED <<concurrent, highWater, reading, done, bodies>>

-----------------------------------------------------------------------------

Step(w) ==
    \/ TakeSlot(w) \/ Count(w) \/ LoadHighWater(w) \/ SwapHighWater(w)
    \/ StartReader(w) \/ BodyDone(w) \/ BodyTimeout(w) \/ FreeSlot(w)

AdmissionNext ==
    \/ \E w \in Worker : \E k \in Kind : Admit(w, k)
    \/ \E w \in Worker : Cancelled(w) \/ ReleaseBatch(w) \/ Step(w)
    \/ \E b \in reading : FinishReader(b)

\* Goroutines run, and the timeout of a body read expires.  Nothing makes a
\* reader goroutine finish, and nothing makes a caller release its batch.
AdmissionFairness == \A w \in Worker : WF_admissionVars(Step(w))

AdmissionSpec == AdmissionInit /\ [][AdmissionNext]_admissionVars /\ AdmissionFairness

-----------------------------------------------------------------------------
(* Properties.                                                             *)

\* The statistics never report more concurrent operations than the semaphore
\* admits, at any moment and in the high-water mark: the counter is raised
\* after the slot is taken and lowered before it is given back.
ReportedWithinLimit ==
    \A k \in Kind : concurrent[k] <= MaxConcurrent[k] /\ highWater[k] <= MaxConcurrent[k]

\* No update of the high-water mark is lost in the compare-and-swap loop: it
\* covers every operation that has got through its admission.
HighWaterCovers ==
    \A w \in Worker : work[w].at \in {"inside", "leaving"} =>
        work[w].current <= highWater[work[w].kind]

\* A body that never ends does not keep its slot: SecureBodyReader returns.
RequestsEnd ==
    \A w \in Worker :
        (work[w].at # "idle" /\ work[w].kind = "request") ~> (work[w].at = "idle")
=============================================================================
