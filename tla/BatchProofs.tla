------------------------------ MODULE BatchProofs ------------------------------
(* Proofs about modules BatchWrite and BatchGet, for any number of items,  *)
(* any size of batches and any number of goroutines.                       *)
EXTENDS BatchWrite, BatchGet, FiniteSetTheorems, TLAPS

-----------------------------------------------------------------------------
(* Splitting a list into consecutive parts of b places.                    *)

\* The part of place n.
PartOf(n, b) == (n + b - 1) \div b

\* Quotients are bounded by what they divide.
LEMMA Quotient ==
    ASSUME NEW a \in Nat, NEW b \in Nat \ {0}
    PROVE  a \div b \in Nat /\ (a \div b) * b <= a /\ a < (a \div b) * b + b
  OBVIOUS

\* Products grow with their factors.
LEMMA Products ==
    ASSUME NEW c \in Int, NEW d \in Int, NEW b \in Nat \ {0}
    PROVE  c <= d => c * b <= d * b
  OBVIOUS

\* Every place is in the part PartOf gives, one of as many as the list needs.
LEMMA PartHolds ==
    ASSUME NEW b \in Nat \ {0}, NEW n \in Nat \ {0}, NEW len \in Nat, n <= len
    PROVE  /\ PartOf(n, b) \in 1 .. PartOf(len, b)
           /\ (PartOf(n, b) - 1) * b < n /\ n <= PartOf(n, b) * b
  <1> DEFINE c == PartOf(n, b)
             m == PartOf(len, b)
  <1>1. n + b - 1 \in Nat /\ len + b - 1 \in Nat
    OBVIOUS
  <1>2. c \in Nat /\ m \in Nat /\ c * b <= n + b - 1 /\ n + b - 1 < c * b + b
        /\ len + b - 1 < m * b + b
    BY <1>1, Quotient DEF PartOf
  <1> HIDE DEF c, m
  <1>3. c * b \in Nat /\ m * b \in Nat
    BY <1>2
  <1>4. n <= c * b
    BY <1>2, <1>3
  <1>5. c # 0
    BY <1>2, <1>3, <1>4
  <1>6. (c - 1) * b = c * b - b
    BY <1>2
  <1>7. c <= m
    <2>1. SUFFICES ASSUME m + 1 <= c PROVE FALSE
      BY <1>2
    <2>2. (m + 1) * b <= c * b
      BY <1>2, <2>1, Products
    <2>3. (m + 1) * b = m * b + b
      BY <1>2
    <2>4. QED
      BY <1>2, <1>3, <2>2, <2>3
  <1>8. QED
    BY <1>2, <1>3, <1>4, <1>5, <1>6, <1>7 DEF c, m

\* No place is in two parts.
LEMMA PartsDisjoint ==
    ASSUME NEW b \in Nat \ {0}, NEW n \in Nat, NEW c \in Nat, NEW d \in Nat,
           (c - 1) * b < n, n <= c * b, (d - 1) * b < n, n <= d * b
    PROVE  c = d
  <1>1. ASSUME NEW x \in Nat, NEW y \in Nat, (x - 1) * b < n, n <= y * b PROVE x <= y
    <2>1. SUFFICES ASSUME y <= x - 1 PROVE FALSE
      OBVIOUS
    <2>2. y * b <= (x - 1) * b
      BY <2>1, Products
    <2>3. y * b \in Int /\ (x - 1) * b \in Int
      OBVIOUS
    <2>4. QED
      BY <1>1, <2>2, <2>3
  <1>2. QED
    BY <1>1

-----------------------------------------------------------------------------
(* Batch writes: the state of a call.                                      *)

ChunkPlaces == {"todo", "writing", "failed", "succeeded", "count", "report", "done"}
ChunkState == [at : ChunkPlaces, pending : SUBSET BatchItems, attempt : Nat, seen : Nat]

BatchTypeOK ==
    /\ op \in BatchOps /\ size \in Int /\ invalid \subseteq BatchItems
    /\ requests \subseteq BatchItems
    /\ DOMAIN chunk \subseteq Nat /\ chunk \in [DOMAIN chunk -> ChunkState]
    /\ layers \in [BatchItems -> Nat]
    /\ stored \in [BatchItems -> Int]
    /\ processed \in Nat /\ failures \in Nat
    /\ counts \in [succeeded : Nat, failed : Nat]
    /\ result \in {"start", "running", "nil", "error"}

\* Before and after the chunks run, no chunk is in flight, and only a parallel update
\* has more than one.
QuietInv ==
    /\ result # "running" => InFlight = {}
    /\ op # "updateParallel" => \A c, d \in InFlight : c = d

\* The call has a chunk for every place, and named the items it leaves out.
SplitSound ==
    /\ result \in {"running", "nil"} =>
          /\ DOMAIN chunk = 1 .. NumBatches(requests)
          /\ BatchItems \ requests \subseteq told
    /\ op = "deleteWithResult" /\ result # "start" => requests = BatchItems

\* The items of a chunk that are neither pending nor stored: none while it is written.
PendingSound ==
    \A c \in DOMAIN chunk : chunk[c].at = "writing" =>
        /\ chunk[c].pending \subseteq Batch(c)
        /\ \A i \in Batch(c) : i \in chunk[c].pending \/ stored[i] # NotStored
        /\ op = "deleteWithResult" => chunk[c].pending = Batch(c)

\* As long as no error is kept, the items of a chunk that is through are stored or named.
Settled ==
    failures = 0 /\ op # "deleteWithResult" =>
        \A c \in DOMAIN chunk : chunk[c].at \in {"succeeded", "count", "report", "done"} =>
            \A i \in Batch(c) : stored[i] # NotStored \/ i \in told

\* A call returns nil only when all chunks are through without an error.
NilMeansDone ==
    result = "nil" => failures = 0 /\ \A c \in DOMAIN chunk : chunk[c].at = "done"

\* The items whose chunk is at one of the places.
ItemsAt(places) ==
    {i \in BatchItems : \E c \in DOMAIN chunk : i \in Batch(c) /\ chunk[c].at \in places}

\* BatchDeleteWithResult has counted the keys of the batches that are done.
CountsSound ==
    op = "deleteWithResult" =>
        /\ \A c \in DOMAIN chunk : chunk[c].at \in {"todo", "writing", "failed", "done"}
        /\ counts.succeeded + counts.failed = Cardinality(ItemsAt({"done"}))
        /\ counts.succeeded <=
              Cardinality({i \in ItemsAt({"done"}) : stored[i] # NotStored})

\* As long as no error is kept, *processed counts the items of the chunks that have
\* added theirs.
ProgressSound ==
    failures = 0 /\ op \in Handled => processed = Cardinality(ItemsAt({"report", "done"}))

\* The latest total has been reported, or is about to be.
LatestReported ==
    processed > 0 =>
        \/ <<processed, NItems>> \in reports
        \/ \E c \in DOMAIN chunk : chunk[c].at = "report" /\ chunk[c].seen = processed

\* Nothing is counted before the call has its chunks.
StartClean ==
    result = "start" =>
        DOMAIN chunk = {} /\ processed = 0 /\ counts.succeeded = 0 /\ counts.failed = 0

BatchInv ==
    /\ BatchTypeOK /\ QuietInv /\ SplitSound /\ PendingSound /\ Settled /\ NilMeansDone
    /\ StartClean /\ CountsSound /\ ProgressSound /\ LatestReported

-----------------------------------------------------------------------------
(* Batches partition the requests.                                         *)

\* A batch has a positive size.
LEMMA BatchSizeType ==
    ASSUME size \in Int
    PROVE  BatchSize \in Nat \ {0}
  BY SizeAssumption DEF BatchSize

\* Sets of items are finite.
LEMMA ItemsFinite ==
    ASSUME NEW S, S \subseteq BatchItems
    PROVE  IsFiniteSet(S) /\ Cardinality(S) \in Nat
  <1>1. IsFiniteSet(BatchItems)
    BY ItemsAssumption, FS_Interval DEF BatchItems
  <1>2. QED
    BY <1>1, FS_Subset, FS_CardinalityType

\* Disjoint sets of items are counted apart.
LEMMA DisjointCount ==
    ASSUME NEW S, NEW T, S \subseteq BatchItems, T \subseteq BatchItems, S \cap T = {}
    PROVE  Cardinality(S \union T) = Cardinality(S) + Cardinality(T)
  <1>1. IsFiniteSet(S) /\ IsFiniteSet(T) /\ Cardinality(S) \in Nat /\ Cardinality(T) \in Nat
    BY ItemsFinite
  <1>2. Cardinality(S \cap T) = 0
    BY FS_EmptySet
  <1>3. Cardinality(S \union T) = Cardinality(S) + Cardinality(T) - Cardinality(S \cap T)
    BY <1>1, FS_Union
  <1>4. QED
    BY <1>1, <1>2, <1>3

\* A request has one of the places of the list.
LEMMA PlaceType ==
    ASSUME requests \subseteq BatchItems, NEW i \in requests
    PROVE  Place(i) \in Nat \ {0} /\ Place(i) <= Cardinality(requests) /\ Cardinality(requests) \in Nat
  <1> DEFINE S == {j \in requests : j <= i}
  <1>1. IsFiniteSet(S) /\ Cardinality(S) \in Nat /\ IsFiniteSet(requests) /\ Cardinality(requests) \in Nat
    BY ItemsFinite
  <1>2. i \in S
    BY ItemsAssumption DEF BatchItems
  <1>3. Cardinality(S) # 0
    BY <1>1, <1>2, FS_EmptySet
  <1>4. Cardinality(S) <= Cardinality(requests)
    BY <1>1, FS_Subset
  <1>5. QED
    BY <1>1, <1>3, <1>4 DEF Place

\* Every request is in a batch.
LEMMA BatchesCover ==
    ASSUME requests \subseteq BatchItems, size \in Int, NEW i \in requests
    PROVE  \E c \in 1 .. NumBatches(requests) : i \in Batch(c)
  <1>1. BatchSize \in Nat \ {0}
    BY BatchSizeType
  <1>2. Place(i) \in Nat \ {0} /\ Place(i) <= Cardinality(requests) /\ Cardinality(requests) \in Nat
    BY PlaceType
  <1> DEFINE c == PartOf(Place(i), BatchSize)
  <1>3. c \in 1 .. PartOf(Cardinality(requests), BatchSize)
        /\ (c - 1) * BatchSize < Place(i) /\ Place(i) <= c * BatchSize
    BY <1>1, <1>2, PartHolds
  <1>4. NumBatches(requests) = PartOf(Cardinality(requests), BatchSize)
    BY DEF NumBatches, PartOf
  <1> HIDE DEF c
  <1>5. c \in Int /\ (c - 1) * BatchSize \in Int
    BY <1>1, <1>3
  <1>6. i \in Batch(c)
    BY <1>2, <1>3, <1>5 DEF Batch
  <1>7. QED
    BY <1>3, <1>4, <1>6

\* No request is in two batches.
LEMMA BatchesDisjoint ==
    ASSUME requests \subseteq BatchItems, size \in Int, NEW c \in Nat, NEW d \in Nat, NEW i,
           i \in Batch(c), i \in Batch(d)
    PROVE  c = d
  <1>1. BatchSize \in Nat \ {0}
    BY BatchSizeType
  <1>2. i \in requests /\ Place(i) \in Nat
    BY PlaceType DEF Batch
  <1>3. (c - 1) * BatchSize \in Int /\ (d - 1) * BatchSize \in Int
    BY <1>1
  <1>4. /\ (c - 1) * BatchSize < Place(i) /\ Place(i) <= c * BatchSize
        /\ (d - 1) * BatchSize < Place(i) /\ Place(i) <= d * BatchSize
    BY <1>2, <1>3 DEF Batch
  <1>5. QED
    BY <1>1, <1>2, <1>4, PartsDisjoint

-----------------------------------------------------------------------------
(* A step of one chunk.                                                    *)

\* Chunk c becomes x; what the call was given stays.
Frame(c, x) ==
    /\ c \in DOMAIN chunk /\ x \in ChunkState
    /\ chunk' = [chunk EXCEPT ![c] = x]
    /\ UNCHANGED <<op, handler, size, invalid, requests>>

StepTypes ==
    /\ layers' \in [BatchItems -> Nat] /\ stored' \in [BatchItems -> Int]
    /\ processed' \in Nat /\ failures' \in Nat
    /\ counts' \in [succeeded : Nat, failed : Nat]

\* Nothing that is stored, named, reported or kept as an error is taken back.
Grows ==
    /\ \A i \in BatchItems : stored[i] # NotStored => stored'[i] # NotStored
    /\ told \subseteq told' /\ reports \subseteq reports' /\ failures <= failures'

\* A chunk is started when no other one runs, and only the end of a chunk ends the call.
Ordered(c, x) ==
    /\ result = "running" /\ chunk[c].at # "done" /\ x.at # "todo"
    /\ chunk[c].at = "todo" /\ op # "updateParallel" => InFlight = {}
    /\ \/ result' = result
       \/ /\ result' = "error" /\ op # "updateParallel"
          /\ chunk[c].at # "todo" /\ x.at = "done"

Moves(c, x) == Frame(c, x) /\ StepTypes /\ Grows /\ Ordered(c, x)

\* What the chunk has pending covers what is not stored.
Pends(c, x) ==
    x.at = "writing" =>
        /\ x.pending \subseteq Batch(c)
        /\ \A i \in Batch(c) : i \in x.pending \/ stored'[i] # NotStored
        /\ op = "deleteWithResult" => x.pending = Batch(c)

\* A chunk that is through leaves its items stored or named.
Settles(c, x) ==
    failures' = 0 /\ op # "deleteWithResult"
        /\ x.at \in {"succeeded", "count", "report", "done"} =>
            \A i \in Batch(c) : stored'[i] # NotStored \/ i \in told'

\* A batch of BatchDeleteWithResult that is done is counted.
Counts(c, x) ==
    op = "deleteWithResult" =>
        /\ x.at \in {"writing", "failed", "done"}
        /\ x.at # "done" => counts' = counts
        /\ x.at = "done" => \E W \in SUBSET Batch(c) :
              /\ counts'.succeeded = counts.succeeded + Cardinality(W)
              /\ counts'.succeeded + counts'.failed
                    = counts.succeeded + counts.failed + Cardinality(Batch(c))
              /\ \A i \in W : stored'[i] # NotStored

\* A chunk adds its items to *processed once.
Adds(c, x) ==
    failures' = 0 /\ op \in Handled =>
        IF x.at \in {"report", "done"} /\ chunk[c].at \notin {"report", "done"}
        THEN processed' = processed + Cardinality(Batch(c))
        ELSE /\ processed' = processed
             /\ chunk[c].at \in {"report", "done"} => x.at \in {"report", "done"}

\* Who changes *processed reports it.
Shows(c, x) ==
    \/ processed' = processed /\ (chunk[c].at = "report" => <<chunk[c].seen, NItems>> \in reports')
    \/ x.at = "report" /\ x.seen = processed'

\* The other chunks, and what is in the batches, stay.
LEMMA FrameKeeps ==
    ASSUME BatchTypeOK, NEW c, NEW x, Frame(c, x)
    PROVE  /\ DOMAIN chunk' = DOMAIN chunk /\ chunk'[c] = x
           /\ \A d \in DOMAIN chunk : d # c => chunk'[d] = chunk[d]
           /\ \A d : Batch(d)' = Batch(d)
           /\ NumBatches(requests)' = NumBatches(requests)
  BY DEF BatchTypeOK, Frame, Batch, Place, BatchSize, NumBatches

\* Types, and the chunks in flight.
LEMMA MovesQuiet ==
    ASSUME BatchInv, NEW c, NEW x, Moves(c, x)
    PROVE  BatchTypeOK' /\ QuietInv' /\ SplitSound' /\ NilMeansDone' /\ StartClean'
  <1>1. BatchTypeOK /\ QuietInv /\ SplitSound /\ NilMeansDone
    BY DEF BatchInv
  <1>2. Frame(c, x) /\ StepTypes /\ Grows /\ Ordered(c, x)
    BY DEF Moves
  <1>3. DOMAIN chunk' = DOMAIN chunk /\ chunk'[c] = x
        /\ (\A d \in DOMAIN chunk : d # c => chunk'[d] = chunk[d])
        /\ NumBatches(requests)' = NumBatches(requests)
    BY <1>1, <1>2, FrameKeeps
  <1>4. BatchTypeOK'
    <2>1. chunk' \in [DOMAIN chunk' -> ChunkState]
      BY <1>1, <1>2 DEF Frame, BatchTypeOK
    <2>2. QED
      BY <1>1, <1>2, <1>3, <2>1 DEF Frame, StepTypes, Ordered, BatchTypeOK
  <1>5. SplitSound'
    BY <1>1, <1>2, <1>3 DEF SplitSound, Frame, Grows, Ordered
  <1>6. NilMeansDone'
    BY <1>2 DEF NilMeansDone, Ordered
  <1>7. InFlight' \subseteq InFlight \union {c}
    BY <1>3 DEF InFlight
  <1>8. c \in DOMAIN chunk /\ (chunk[c].at # "todo" => c \in InFlight)
        /\ (x.at = "done" => c \notin InFlight')
    BY <1>2, <1>3 DEF InFlight, Ordered, Frame
  <1>9. QuietInv'
    BY <1>1, <1>2, <1>7, <1>8 DEF QuietInv, Ordered, Frame
  <1>10. StartClean'
    BY <1>2 DEF StartClean, Ordered
  <1>11. QED
    BY <1>4, <1>5, <1>6, <1>9, <1>10

\* What is pending, and what is settled.
LEMMA MovesSettled ==
    ASSUME BatchInv, NEW c, NEW x, Moves(c, x), Pends(c, x), Settles(c, x)
    PROVE  PendingSound' /\ Settled'
  <1>1. BatchTypeOK /\ PendingSound /\ Settled
    BY DEF BatchInv
  <1>2. Frame(c, x) /\ StepTypes /\ Grows /\ op' = op
    BY DEF Moves, Frame
  <1>3. DOMAIN chunk' = DOMAIN chunk /\ chunk'[c] = x
        /\ (\A d \in DOMAIN chunk : d # c => chunk'[d] = chunk[d])
        /\ (\A d : Batch(d)' = Batch(d))
    BY <1>1, <1>2, FrameKeeps
  <1>4. \A d : Batch(d) \subseteq BatchItems
    BY <1>1 DEF Batch, BatchTypeOK
  <1>5. PendingSound'
    BY <1>1, <1>2, <1>3, <1>4 DEF PendingSound, Pends, Grows
  <1>6. failures' = 0 => failures = 0
    BY <1>1, <1>2 DEF Grows, BatchTypeOK, StepTypes
  <1>7. Settled'
    BY <1>1, <1>2, <1>3, <1>4, <1>6 DEF Settled, Settles, Grows
  <1>8. QED
    BY <1>5, <1>7

\* The items at some places, when a chunk stays there or comes there.
LEMMA ItemsMove ==
    ASSUME BatchTypeOK, NEW c, NEW x, Frame(c, x), NEW P
    PROVE  /\ (x.at \in P <=> chunk[c].at \in P) => ItemsAt(P)' = ItemsAt(P)
           /\ x.at \in P /\ chunk[c].at \notin P =>
                 /\ ItemsAt(P)' = ItemsAt(P) \union Batch(c)
                 /\ ItemsAt(P) \cap Batch(c) = {}
  <1>1. DOMAIN chunk' = DOMAIN chunk /\ chunk'[c] = x /\ c \in DOMAIN chunk
        /\ (\A d \in DOMAIN chunk : d # c => chunk'[d] = chunk[d])
        /\ (\A d : Batch(d)' = Batch(d))
    BY FrameKeeps DEF Frame
  <1>2. \A d : Batch(d) \subseteq BatchItems
    BY DEF Batch, BatchTypeOK
  <1>3. (x.at \in P <=> chunk[c].at \in P) => ItemsAt(P)' = ItemsAt(P)
    BY <1>1 DEF ItemsAt
  <1>4. ASSUME x.at \in P, chunk[c].at \notin P
        PROVE  ItemsAt(P)' = ItemsAt(P) \union Batch(c) /\ ItemsAt(P) \cap Batch(c) = {}
    <2>1. ItemsAt(P)' = ItemsAt(P) \union Batch(c)
      BY <1>1, <1>2, <1>4 DEF ItemsAt
    <2>2. \A d \in DOMAIN chunk : \A i : i \in Batch(c) /\ i \in Batch(d) => c = d
      BY <1>1, BatchesDisjoint DEF BatchTypeOK
    <2>3. ItemsAt(P) \cap Batch(c) = {}
      BY <1>4, <2>2 DEF ItemsAt
    <2>4. QED
      BY <2>1, <2>3
  <1>5. QED
    BY <1>3, <1>4

\* Counting the items that come.
LEMMA CountsMove ==
    ASSUME BatchTypeOK, NEW c, NEW x, Frame(c, x), NEW P,
           x.at \in P, chunk[c].at \notin P
    PROVE  Cardinality(ItemsAt(P)') = Cardinality(ItemsAt(P)) + Cardinality(Batch(c))
  <1>1. ItemsAt(P)' = ItemsAt(P) \union Batch(c) /\ ItemsAt(P) \cap Batch(c) = {}
    BY ItemsMove
  <1>2. ItemsAt(P) \subseteq BatchItems /\ Batch(c) \subseteq BatchItems
    BY DEF ItemsAt, Batch, BatchTypeOK
  <1>3. QED
    BY <1>1, <1>2, DisjointCount

\* The counts of BatchDeleteWithResult.
LEMMA MovesCounted ==
    ASSUME BatchInv, NEW c, NEW x, Moves(c, x), Counts(c, x)
    PROVE  CountsSound'
  <1>1. BatchTypeOK /\ CountsSound
    BY DEF BatchInv
  <1>2. Frame(c, x) /\ StepTypes /\ Grows /\ op' = op /\ chunk[c].at # "done"
    BY DEF Moves, Frame, Ordered
  <1>3. SUFFICES ASSUME op = "deleteWithResult" PROVE CountsSound'
    BY <1>2 DEF CountsSound
  <1>4. DOMAIN chunk' = DOMAIN chunk /\ chunk'[c] = x
        /\ (\A d \in DOMAIN chunk : d # c => chunk'[d] = chunk[d])
    BY <1>1, <1>2, FrameKeeps
  <1>5. \A d \in DOMAIN chunk' : chunk'[d].at \in {"todo", "writing", "failed", "done"}
    BY <1>1, <1>3, <1>4 DEF CountsSound, Counts
  <1> DEFINE D == ItemsAt({"done"})
             S == {i \in D : stored[i] # NotStored}
  <1>6. D \subseteq BatchItems /\ Batch(c) \subseteq BatchItems
    BY <1>1 DEF ItemsAt, Batch, BatchTypeOK
  <1>7. IsFiniteSet(S) /\ Cardinality(S) \in Nat
    BY <1>6, ItemsFinite
  <1>8. D' \subseteq BatchItems
    BY DEF ItemsAt
  <1>9. IsFiniteSet(S') /\ Cardinality(S') \in Nat
    BY <1>8, ItemsFinite
  <1>10. CASE x.at # "done"
    <2>1. D' = D
      BY <1>1, <1>2, <1>10, ItemsMove
    <2>2. counts' = counts
      BY <1>3, <1>10 DEF Counts
    <2>3. S \subseteq S'
      BY <1>2, <1>6, <2>1 DEF Grows
    <2>4. Cardinality(S) <= Cardinality(S')
      BY <1>9, <2>3, FS_Subset
    <2>5. counts.succeeded \in Nat /\ counts.succeeded <= Cardinality(S)
          /\ counts.succeeded + counts.failed = Cardinality(D)
      BY <1>1, <1>3 DEF CountsSound, BatchTypeOK
    <2>6. QED
      BY <1>5, <1>7, <1>9, <2>1, <2>2, <2>4, <2>5 DEF CountsSound
  <1>11. CASE x.at = "done"
    <2>1. D' = D \union Batch(c) /\ D \cap Batch(c) = {}
      BY <1>1, <1>2, <1>11, ItemsMove
    <2>2. Cardinality(D') = Cardinality(D) + Cardinality(Batch(c))
      BY <1>1, <1>2, <1>11, CountsMove
    <2>3. PICK W \in SUBSET Batch(c) :
              /\ counts'.succeeded = counts.succeeded + Cardinality(W)
              /\ counts'.succeeded + counts'.failed
                    = counts.succeeded + counts.failed + Cardinality(Batch(c))
              /\ \A i \in W : stored'[i] # NotStored
      BY <1>3, <1>11 DEF Counts
    <2>4. IsFiniteSet(W) /\ Cardinality(W) \in Nat
      BY <1>6, ItemsFinite
    <2>5. S \union W \subseteq S'
      BY <1>2, <1>6, <2>1, <2>3 DEF Grows
    <2>6. S \cap W = {}
      BY <2>1
    <2>7. S \subseteq BatchItems /\ W \subseteq BatchItems
      BY <1>6
    <2>8. Cardinality(S \union W) = Cardinality(S) + Cardinality(W)
      BY <2>6, <2>7, DisjointCount
    <2>9. Cardinality(S \union W) <= Cardinality(S')
      BY <1>9, <2>5, FS_Subset
    <2>10. counts.succeeded \in Nat /\ counts.succeeded <= Cardinality(S)
           /\ counts.succeeded + counts.failed = Cardinality(D)
      BY <1>1, <1>3 DEF CountsSound, BatchTypeOK
    <2>11. counts'.succeeded <= Cardinality(S')
      BY <1>7, <1>9, <2>3, <2>4, <2>8, <2>9, <2>10
    <2>12. counts'.succeeded + counts'.failed = Cardinality(D')
      BY <2>2, <2>3, <2>10
    <2>13. QED
      BY <1>5, <2>11, <2>12 DEF CountsSound
  <1>12. QED
    BY <1>10, <1>11

\* The progress count.
LEMMA MovesProgress ==
    ASSUME BatchInv, NEW c, NEW x, Moves(c, x), Adds(c, x)
    PROVE  ProgressSound'
  <1>1. BatchTypeOK /\ ProgressSound
    BY DEF BatchInv
  <1>2. Frame(c, x) /\ op' = op /\ (failures' = 0 => failures = 0)
    BY <1>1 DEF Moves, Frame, Grows, StepTypes, BatchTypeOK
  <1> DEFINE D == ItemsAt({"report", "done"})
  <1>3. SUFFICES ASSUME failures' = 0, op \in Handled PROVE processed' = Cardinality(D')
    BY <1>2 DEF ProgressSound
  <1>4. processed = Cardinality(D)
    BY <1>1, <1>2, <1>3 DEF ProgressSound
  <1>5. CASE x.at \in {"report", "done"} /\ chunk[c].at \notin {"report", "done"}
    <2>1. Cardinality(D') = Cardinality(D) + Cardinality(Batch(c))
      BY <1>1, <1>2, <1>5, CountsMove
    <2>2. QED
      BY <1>3, <1>4, <1>5, <2>1 DEF Adds
  <1>6. CASE ~(x.at \in {"report", "done"} /\ chunk[c].at \notin {"report", "done"})
    <2>1. processed' = processed
          /\ (chunk[c].at \in {"report", "done"} => x.at \in {"report", "done"})
      BY <1>3, <1>6 DEF Adds
    <2>2. D' = D
      BY <1>1, <1>2, <1>6, <2>1, ItemsMove
    <2>3. QED
      BY <1>4, <2>1, <2>2
  <1>7. QED
    BY <1>5, <1>6

\* The latest total.
LEMMA MovesReported ==
    ASSUME BatchInv, NEW c, NEW x, Moves(c, x), Shows(c, x)
    PROVE  LatestReported'
  <1>1. BatchTypeOK /\ LatestReported
    BY DEF BatchInv
  <1>2. Frame(c, x) /\ Grows /\ c \in DOMAIN chunk
    BY DEF Moves, Frame
  <1>3. DOMAIN chunk' = DOMAIN chunk /\ chunk'[c] = x
        /\ (\A d \in DOMAIN chunk : d # c => chunk'[d] = chunk[d])
    BY <1>1, <1>2, FrameKeeps
  <1>4. QED
    BY <1>1, <1>2, <1>3 DEF LatestReported, Shows, Grows

\* The whole invariant.
LEMMA MovesKeep ==
    ASSUME BatchInv, NEW c, NEW x, Moves(c, x), Pends(c, x), Settles(c, x), Counts(c, x),
           Adds(c, x), Shows(c, x)
    PROVE  BatchInv'
  BY MovesQuiet, MovesSettled, MovesCounted, MovesProgress, MovesReported DEF BatchInv

-----------------------------------------------------------------------------
(* Every action of a chunk is such a step.                                 *)

\* What the invariant says of a chunk.
LEMMA ChunkTypes ==
    ASSUME BatchInv, NEW c \in DOMAIN chunk
    PROVE  /\ chunk[c] \in ChunkState /\ c \in Nat
           /\ Batch(c) \subseteq BatchItems /\ Cardinality(Batch(c)) \in Nat
           /\ chunk[c].at \notin {"todo", "done"} => result = "running"
  <1>1. BatchTypeOK /\ QuietInv
    BY DEF BatchInv
  <1>2. Batch(c) \subseteq BatchItems
    BY <1>1 DEF Batch, BatchTypeOK
  <1>3. Cardinality(Batch(c)) \in Nat
    BY <1>2, ItemsFinite
  <1>4. chunk[c].at \notin {"todo", "done"} => result = "running"
    BY <1>1 DEF QuietInv, InFlight
  <1>5. QED
    BY <1>1, <1>2, <1>3, <1>4 DEF BatchTypeOK

\* A chunk is taken.
LEMMA StartKeeps ==
    ASSUME BatchInv, NEW c \in DOMAIN chunk, Start(c)
    PROVE  BatchInv'
  <1>1. BatchTypeOK /\ chunk[c] \in ChunkState /\ Batch(c) \subseteq BatchItems
    BY ChunkTypes DEF BatchInv
  <1> DEFINE to == IF Unusable(c) THEN "failed" ELSE "writing"
             x == [chunk[c] EXCEPT !.pending = Batch(c), !.at = to]
  <1>2. chunk' = [chunk EXCEPT ![c] = x]
    BY DEF Start, Becomes
  <1>3. to \in {"failed", "writing"}
    OBVIOUS
  <1> HIDE DEF to
  <1>4. x \in ChunkState /\ x.at \in {"failed", "writing"} /\ x.pending = Batch(c)
    BY <1>1, <1>3 DEF ChunkState, ChunkPlaces
  <1> HIDE DEF x
  <1>5. chunk[c].at = "todo" /\ result = "running" /\ (op # "updateParallel" => InFlight = {})
        /\ UNCHANGED <<op, handler, size, invalid, requests, layers, stored, processed, reports,
                       told, failures, counts, result>>
    BY DEF Start, callVars
  <1>6. Moves(c, x)
    BY <1>1, <1>2, <1>4, <1>5 DEF Moves, Frame, StepTypes, Grows, Ordered, BatchTypeOK
  <1>7. Pends(c, x) /\ Settles(c, x) /\ Counts(c, x) /\ Adds(c, x) /\ Shows(c, x)
    BY <1>1, <1>4, <1>5 DEF Pends, Settles, Counts, Adds, Shows
  <1>8. QED
    BY <1>6, <1>7, MovesKeep

\* What a BatchWriteItem stores stays stored.
LEMMA WritesGrow ==
    ASSUME BatchInv, NEW c \in DOMAIN chunk, NEW written, BatchWriteItem(c, written)
    PROVE  /\ layers' \in [BatchItems -> Nat] /\ stored' \in [BatchItems -> Int]
           /\ \A i \in BatchItems : stored[i] # NotStored => stored'[i] # NotStored
           /\ \A i \in written : stored'[i] # NotStored
           /\ chunk[c].at = "writing" /\ result = "running" /\ op \notin Itemwise
           /\ written \subseteq chunk[c].pending
  <1>1. BatchTypeOK /\ chunk[c] \in ChunkState
    BY ChunkTypes DEF BatchInv
  <1>2. chunk[c].at = "writing" /\ written \subseteq chunk[c].pending /\ op \notin Itemwise
        /\ layers' = Encrypting(c) /\ stored' = Storing(written)
    BY DEF BatchWriteItem
  <1>3. layers' \in [BatchItems -> Nat]
    BY <1>1, <1>2 DEF Encrypting, BatchTypeOK
  <1>4. stored' = [i \in BatchItems |-> IF i \in written THEN layers'[i] ELSE stored[i]]
    BY <1>2 DEF Storing
  <1>5. written \subseteq BatchItems
    BY <1>1, <1>2 DEF ChunkState
  <1>6. /\ stored' \in [BatchItems -> Int]
        /\ \A i \in BatchItems : stored[i] # NotStored => stored'[i] # NotStored
        /\ \A i \in written : stored'[i] # NotStored
    BY <1>1, <1>3, <1>4, <1>5 DEF BatchTypeOK, NotStored
  <1>7. result = "running"
    BY <1>2, ChunkTypes
  <1>8. QED
    BY <1>2, <1>3, <1>6, <1>7

\* A request fails.
LEMMA WriteFailsKeeps ==
    ASSUME BatchInv, NEW c \in DOMAIN chunk, WriteFails(c)
    PROVE  BatchInv'
  <1>1. BatchTypeOK /\ chunk[c] \in ChunkState
    BY ChunkTypes DEF BatchInv
  <1>2. PICK written : BatchWriteItem(c, written)
    BY DEF WriteFails
  <1>3. /\ layers' \in [BatchItems -> Nat] /\ stored' \in [BatchItems -> Int]
        /\ \A i \in BatchItems : stored[i] # NotStored => stored'[i] # NotStored
        /\ chunk[c].at = "writing" /\ result = "running"
    BY <1>2, WritesGrow
  <1> DEFINE x == [chunk[c] EXCEPT !.at = "failed"]
  <1>4. chunk' = [chunk EXCEPT ![c] = x]
    BY DEF WriteFails, Goes, Becomes
  <1>5. x \in ChunkState /\ x.at = "failed"
    BY <1>1 DEF ChunkState, ChunkPlaces
  <1> HIDE DEF x
  <1>6. UNCHANGED <<op, handler, size, invalid, requests, processed, reports, told, failures,
                    counts, result>>
    BY DEF WriteFails, callVars
  <1>7. Moves(c, x)
    BY <1>1, <1>3, <1>4, <1>5, <1>6 DEF Moves, Frame, StepTypes, Grows, Ordered, BatchTypeOK
  <1>8. Pends(c, x) /\ Settles(c, x) /\ Counts(c, x) /\ Adds(c, x) /\ Shows(c, x)
    BY <1>3, <1>5, <1>6 DEF Pends, Settles, Counts, Adds, Shows
  <1>9. QED
    BY <1>7, <1>8, MovesKeep

\* A chunk of which some is written and the rest is pending.
LEMMA PartWritten ==
    ASSUME BatchInv, NEW c \in DOMAIN chunk, NEW written, BatchWriteItem(c, written),
           op # "deleteWithResult"
    PROVE  LET rest == chunk[c].pending \ written
           IN  /\ rest \subseteq Batch(c) /\ rest \subseteq BatchItems
               /\ \A i \in Batch(c) : i \in rest \/ stored'[i] # NotStored
  <1>1. chunk[c] \in ChunkState /\ Batch(c) \subseteq BatchItems /\ PendingSound
    BY ChunkTypes DEF BatchInv
  <1>2. /\ \A i \in BatchItems : stored[i] # NotStored => stored'[i] # NotStored
        /\ \A i \in written : stored'[i] # NotStored
        /\ chunk[c].at = "writing"
    BY WritesGrow
  <1>3. QED
    BY <1>1, <1>2 DEF PendingSound

\* An attempt with a bound.
LEMMA AttemptKeeps ==
    ASSUME BatchInv, NEW c \in DOMAIN chunk, Attempt(c)
    PROVE  BatchInv'
  <1>1. BatchTypeOK /\ chunk[c] \in ChunkState
    BY ChunkTypes DEF BatchInv
  <1> DEFINE total == Cardinality(Batch(c))
             to(rest) == IF rest = {} THEN "succeeded"
                         ELSE IF chunk[c].attempt + 1 = MaxAttempts THEN AfterLastAttempt
                         ELSE "writing"
             X(rest) == [chunk[c] EXCEPT !.at = to(rest), !.pending = rest,
                                         !.attempt = chunk[c].attempt + 1]
             Rep(rest) == IF rest = {} \/ op \notin {"write", "delete"} THEN reports
                          ELSE reports \union {<<total - Cardinality(rest), total>>}
  <1>2. PICK written : /\ BatchWriteItem(c, written)
                       /\ chunk' = [chunk EXCEPT ![c] = X(chunk[c].pending \ written)]
                       /\ reports' = Rep(chunk[c].pending \ written)
    BY DEF Attempt, Becomes
  <1> DEFINE rest == chunk[c].pending \ written
             x == X(rest)
  <1>3. /\ layers' \in [BatchItems -> Nat] /\ stored' \in [BatchItems -> Int]
        /\ \A i \in BatchItems : stored[i] # NotStored => stored'[i] # NotStored
        /\ chunk[c].at = "writing" /\ result = "running"
    BY <1>2, WritesGrow
  <1>4. op # "deleteWithResult"
        /\ UNCHANGED <<op, handler, size, invalid, requests, processed, told, failures, counts,
                       result>>
    BY DEF Attempt, callVars
  <1>5. /\ rest \subseteq Batch(c) /\ rest \subseteq BatchItems
        /\ \A i \in Batch(c) : i \in rest \/ stored'[i] # NotStored
    BY <1>2, <1>4, PartWritten
  <1>6. reports \subseteq reports' /\ chunk' = [chunk EXCEPT ![c] = x]
    BY <1>2
  <1>7. to(rest) \in {"succeeded", "failed", "writing"} /\ (to(rest) = "succeeded" => rest = {})
    BY DEF AfterLastAttempt
  <1> HIDE DEF to, rest
  <1>8. x \in ChunkState /\ x.at \in {"succeeded", "failed", "writing"}
        /\ (x.at = "succeeded" => rest = {}) /\ x.pending = rest
    <2>1. chunk[c].attempt + 1 \in Nat
      BY <1>1 DEF ChunkState
    <2>2. x.at = to(rest) /\ x.pending = rest
      BY <1>1 DEF ChunkState
    <2>3. x \in ChunkState
      BY <1>1, <1>5, <1>7, <2>1 DEF ChunkState, ChunkPlaces
    <2>4. QED
      BY <1>7, <2>2, <2>3
  <1> HIDE DEF x
  <1>9. Moves(c, x)
    BY <1>1, <1>3, <1>4, <1>6, <1>8 DEF Moves, Frame, StepTypes, Grows, Ordered, BatchTypeOK
  <1>10. Pends(c, x) /\ Settles(c, x) /\ Counts(c, x) /\ Adds(c, x) /\ Shows(c, x)
    BY <1>3, <1>4, <1>5, <1>8 DEF Pends, Settles, Counts, Adds, Shows
  <1>11. QED
    BY <1>9, <1>10, MovesKeep

\* An attempt of the older BatchCreate.
LEMMA AttemptUnboundedKeeps ==
    ASSUME BatchInv, NEW c \in DOMAIN chunk, AttemptUnbounded(c)
    PROVE  BatchInv'
  <1>1. BatchTypeOK /\ chunk[c] \in ChunkState
    BY ChunkTypes DEF BatchInv
  <1> DEFINE to(rest) == IF rest = {} THEN "succeeded" ELSE "writing"
             X(rest) == [chunk[c] EXCEPT !.pending = rest, !.at = to(rest)]
  <1>2. PICK written : /\ BatchWriteItem(c, written)
                       /\ chunk' = [chunk EXCEPT ![c] = X(chunk[c].pending \ written)]
    BY DEF AttemptUnbounded, Becomes
  <1> DEFINE rest == chunk[c].pending \ written
             x == X(rest)
  <1>3. /\ layers' \in [BatchItems -> Nat] /\ stored' \in [BatchItems -> Int]
        /\ \A i \in BatchItems : stored[i] # NotStored => stored'[i] # NotStored
        /\ chunk[c].at = "writing" /\ result = "running"
    BY <1>2, WritesGrow
  <1>4. op = "createOld"
        /\ UNCHANGED <<op, handler, size, invalid, requests, processed, reports, told, failures,
                       counts, result>>
    BY DEF AttemptUnbounded, callVars
  <1>5. /\ rest \subseteq Batch(c) /\ rest \subseteq BatchItems
        /\ \A i \in Batch(c) : i \in rest \/ stored'[i] # NotStored
    BY <1>2, <1>4, PartWritten
  <1>6. chunk' = [chunk EXCEPT ![c] = x]
    BY <1>2
  <1>7. to(rest) \in {"succeeded", "writing"} /\ (to(rest) = "succeeded" => rest = {})
    OBVIOUS
  <1> HIDE DEF to, rest
  <1>8. x \in ChunkState /\ x.at \in {"succeeded", "writing"}
        /\ (x.at = "succeeded" => rest = {}) /\ x.pending = rest
    BY <1>1, <1>5, <1>7 DEF ChunkState, ChunkPlaces
  <1> HIDE DEF x
  <1>9. Moves(c, x)
    BY <1>1, <1>3, <1>4, <1>6, <1>8 DEF Moves, Frame, StepTypes, Grows, Ordered, BatchTypeOK
  <1>10. Pends(c, x) /\ Settles(c, x) /\ Counts(c, x) /\ Adds(c, x) /\ Shows(c, x)
    BY <1>3, <1>4, <1>5, <1>8 DEF Pends, Settles, Counts, Adds, Shows
  <1>11. QED
    BY <1>9, <1>10, MovesKeep

\* A batch of BatchDeleteWithResult is sent.
LEMMA AttemptCountedKeeps ==
    ASSUME BatchInv, NEW c \in DOMAIN chunk, AttemptCounted(c)
    PROVE  BatchInv'
  <1>1. BatchTypeOK /\ PendingSound /\ chunk[c] \in ChunkState /\ Batch(c) \subseteq BatchItems
        /\ Cardinality(Batch(c)) \in Nat
    BY ChunkTypes DEF BatchInv
  <1>2. PICK written :
           /\ BatchWriteItem(c, written)
           /\ counts' = [succeeded |-> counts.succeeded + Cardinality(written),
                         failed |-> counts.failed + Cardinality(chunk[c].pending) - Cardinality(written)]
    BY DEF AttemptCounted
  <1>3. /\ layers' \in [BatchItems -> Nat] /\ stored' \in [BatchItems -> Int]
        /\ \A i \in BatchItems : stored[i] # NotStored => stored'[i] # NotStored
        /\ \A i \in written : stored'[i] # NotStored
        /\ chunk[c].at = "writing" /\ result = "running" /\ written \subseteq chunk[c].pending
    BY <1>2, WritesGrow
  <1> DEFINE x == [chunk[c] EXCEPT !.at = "done"]
  <1>4. chunk' = [chunk EXCEPT ![c] = x]
    BY DEF AttemptCounted, Goes, Becomes
  <1>5. x \in ChunkState /\ x.at = "done"
    BY <1>1 DEF ChunkState, ChunkPlaces
  <1> HIDE DEF x
  <1>6. op = "deleteWithResult"
        /\ UNCHANGED <<op, handler, size, invalid, requests, processed, reports, told, failures,
                       result>>
    BY DEF AttemptCounted, callVars
  <1>7. chunk[c].pending = Batch(c)
    BY <1>1, <1>3, <1>6 DEF PendingSound
  <1>8. Cardinality(written) \in Nat /\ Cardinality(written) <= Cardinality(Batch(c))
    BY <1>1, <1>3, <1>7, ItemsFinite, FS_Subset
  <1>9. counts \in [succeeded : Nat, failed : Nat]
    BY <1>1 DEF BatchTypeOK
  <1>10. /\ counts'.succeeded = counts.succeeded + Cardinality(written)
         /\ counts'.failed = counts.failed + Cardinality(Batch(c)) - Cardinality(written)
         /\ counts' \in [succeeded : Nat, failed : Nat]
    BY <1>1, <1>2, <1>7, <1>8, <1>9
  <1>11. counts'.succeeded + counts'.failed
             = counts.succeeded + counts.failed + Cardinality(Batch(c))
    BY <1>1, <1>8, <1>9, <1>10
  <1>12. Moves(c, x)
    BY <1>1, <1>3, <1>4, <1>5, <1>6, <1>10 DEF Moves, Frame, StepTypes, Grows, Ordered, BatchTypeOK
  <1>13. Counts(c, x)
    BY <1>3, <1>5, <1>7, <1>10, <1>11 DEF Counts
  <1>14. Pends(c, x) /\ Settles(c, x) /\ Adds(c, x) /\ Shows(c, x)
    BY <1>3, <1>5, <1>6 DEF Pends, Settles, Adds, Shows, Handled
  <1>15. QED
    BY <1>12, <1>13, <1>14, MovesKeep

\* A failed batch of BatchDeleteWithResult is counted.
LEMMA FailCountedKeeps ==
    ASSUME BatchInv, NEW c \in DOMAIN chunk, FailCounted(c)
    PROVE  BatchInv'
  <1>1. BatchTypeOK /\ chunk[c] \in ChunkState /\ Cardinality(Batch(c)) \in Nat
    BY ChunkTypes DEF BatchInv
  <1> DEFINE x == [chunk[c] EXCEPT !.at = "done"]
  <1>2. chunk' = [chunk EXCEPT ![c] = x]
    BY DEF FailCounted, Goes, Becomes
  <1>3. x \in ChunkState /\ x.at = "done"
    BY <1>1 DEF ChunkState, ChunkPlaces
  <1> HIDE DEF x
  <1>4. op = "deleteWithResult" /\ chunk[c].at = "failed"
        /\ counts' = [succeeded |-> counts.succeeded,
                      failed |-> counts.failed + Cardinality(Batch(c))]
        /\ UNCHANGED <<op, handler, size, invalid, requests, layers, stored, processed, reports,
                       told, failures, result>>
    BY DEF FailCounted, callVars
  <1>5. result = "running"
    BY <1>4, ChunkTypes
  <1>6. counts \in [succeeded : Nat, failed : Nat]
    BY <1>1 DEF BatchTypeOK
  <1>7. /\ counts'.succeeded = counts.succeeded
        /\ counts'.succeeded + counts'.failed
             = counts.succeeded + counts.failed + Cardinality(Batch(c))
        /\ counts' \in [succeeded : Nat, failed : Nat]
    BY <1>1, <1>4, <1>6
  <1>8. Moves(c, x)
    BY <1>1, <1>2, <1>3, <1>4, <1>5, <1>7 DEF Moves, Frame, StepTypes, Grows, Ordered, BatchTypeOK
  <1>9. Counts(c, x)
    <2>1. Cardinality({}) = 0 /\ {} \in SUBSET Batch(c)
      BY FS_EmptySet
    <2>2. counts'.succeeded = counts.succeeded + Cardinality({})
      BY <1>6, <1>7, <2>1
    <2>3. QED
      BY <1>3, <1>7, <2>1, <2>2 DEF Counts
  <1>10. Pends(c, x) /\ Settles(c, x) /\ Adds(c, x) /\ Shows(c, x)
    BY <1>3, <1>4 DEF Pends, Settles, Adds, Shows, Handled
  <1>11. QED
    BY <1>8, <1>9, <1>10, MovesKeep

\* A step of an update: the chunk fails, goes on to its next item or tries this one again.
LEMMA UpdateMoves ==
    ASSUME BatchInv, NEW c \in DOMAIN chunk, NEW i \in chunk[c].pending, NEW x \in ChunkState,
           chunk[c].at = "writing", op \in Itemwise, chunk' = [chunk EXCEPT ![c] = x],
           UNCHANGED <<op, handler, size, invalid, requests, layers, processed, reports, told,
                       failures, counts, result>>,
           stored' \in {stored, [stored EXCEPT ![i] = 0]},
           x.at \in {"failed", "writing", "succeeded"},
           x.pending = chunk[c].pending \/ (x.pending = chunk[c].pending \ {i} /\ stored'[i] = 0),
           x.at = "succeeded" => x.pending = {}
    PROVE  BatchInv'
  <1>1. BatchTypeOK /\ PendingSound /\ chunk[c] \in ChunkState /\ Batch(c) \subseteq BatchItems
        /\ result = "running"
    BY ChunkTypes DEF BatchInv
  <1>2. i \in BatchItems
    BY <1>1 DEF ChunkState
  <1>3. stored' \in [BatchItems -> Int]
        /\ \A j \in BatchItems : stored[j] # NotStored => stored'[j] # NotStored
    BY <1>1, <1>2 DEF BatchTypeOK, NotStored
  <1>4. op # "deleteWithResult"
    BY DEF Itemwise
  <1>5. x.pending \subseteq Batch(c) /\ \A j \in Batch(c) : j \in x.pending \/ stored'[j] # NotStored
    BY <1>1, <1>3 DEF PendingSound, NotStored
  <1>6. Moves(c, x)
    BY <1>1, <1>3 DEF Moves, Frame, StepTypes, Grows, Ordered, BatchTypeOK
  <1>7. Pends(c, x) /\ Settles(c, x) /\ Counts(c, x) /\ Adds(c, x) /\ Shows(c, x)
    BY <1>4, <1>5 DEF Pends, Settles, Counts, Adds, Shows
  <1>8. QED
    BY <1>6, <1>7, MovesKeep

\* The next item of an update.
LEMMA UpdateNextItemKeeps ==
    ASSUME BatchInv, NEW c \in DOMAIN chunk, UpdateNextItem(c)
    PROVE  BatchInv'
  <1>1. chunk[c] \in ChunkState /\ BatchTypeOK
    BY ChunkTypes DEF BatchInv
  <1>2. chunk[c].at = "writing" /\ op \in Itemwise
        /\ UNCHANGED <<op, handler, size, invalid, requests, layers, processed, reports, told,
                       failures, counts, result>>
    BY DEF UpdateNextItem, callVars
  <1> DEFINE Failed == [chunk[c] EXCEPT !.at = "failed"]
             Again == [chunk[c] EXCEPT !.attempt = chunk[c].attempt + 1]
             to(rest) == IF rest = {} THEN "succeeded" ELSE "writing"
             On(rest) == [chunk[c] EXCEPT !.pending = rest, !.attempt = 0, !.at = to(rest)]
  <1>3. PICK i \in chunk[c].pending :
           \/ chunk' = [chunk EXCEPT ![c] = Failed] /\ stored' = stored
           \/ /\ stored' = [stored EXCEPT ![i] = 0]
              /\ chunk' = [chunk EXCEPT ![c] = On(chunk[c].pending \ {i})]
           \/ /\ stored' \in {stored, [stored EXCEPT ![i] = 0]}
              /\ \/ chunk' = [chunk EXCEPT ![c] = Again]
                 \/ chunk' = [chunk EXCEPT ![c] = Failed]
    BY DEF UpdateNextItem, Goes, Becomes
  <1> DEFINE rest == chunk[c].pending \ {i}
  <1>4. Failed \in ChunkState /\ Failed.at = "failed" /\ Failed.pending = chunk[c].pending
    BY <1>1 DEF ChunkState, ChunkPlaces
  <1>5. Again \in ChunkState /\ Again.at = "writing" /\ Again.pending = chunk[c].pending
    <2>1. chunk[c].attempt + 1 \in Nat
      BY <1>1 DEF ChunkState
    <2>2. QED
      BY <1>1, <1>2, <2>1 DEF ChunkState, ChunkPlaces
  <1>6. On(rest) \in ChunkState /\ On(rest).at \in {"succeeded", "writing"}
        /\ On(rest).pending = rest /\ (On(rest).at = "succeeded" => rest = {})
    <2>1. to(rest) \in {"succeeded", "writing"} /\ (to(rest) = "succeeded" => rest = {})
      OBVIOUS
    <2>2. rest \subseteq BatchItems
      BY <1>1 DEF ChunkState
    <2> HIDE DEF to, rest
    <2>3. QED
      BY <1>1, <2>1, <2>2 DEF ChunkState, ChunkPlaces
  <1>7. stored' = [stored EXCEPT ![i] = 0] => stored'[i] = 0
    BY <1>1 DEF BatchTypeOK, ChunkState
  <1> HIDE DEF Failed, Again, On, rest
  <1>8. CASE chunk' = [chunk EXCEPT ![c] = Failed] /\ stored' \in {stored, [stored EXCEPT ![i] = 0]}
    BY <1>2, <1>4, <1>8, UpdateMoves
  <1>9. CASE chunk' = [chunk EXCEPT ![c] = Again] /\ stored' \in {stored, [stored EXCEPT ![i] = 0]}
    BY <1>2, <1>5, <1>9, UpdateMoves
  <1>10. CASE chunk' = [chunk EXCEPT ![c] = On(rest)] /\ stored' = [stored EXCEPT ![i] = 0]
    BY <1>2, <1>6, <1>7, <1>10, UpdateMoves DEF rest
  <1>11. QED
    BY <1>3, <1>8, <1>9, <1>10 DEF rest

\* A failed chunk goes to the handler.
LEMMA HandleErrorKeeps ==
    ASSUME BatchInv, NEW c \in DOMAIN chunk, HandleError(c)
    PROVE  BatchInv'
  <1>1. BatchTypeOK /\ chunk[c] \in ChunkState
    BY ChunkTypes DEF BatchInv
  <1>2. chunk[c].at = "failed" /\ op # "deleteWithResult"
        /\ told' = (IF handler = "none" THEN told ELSE told \union Batch(c))
        /\ UNCHANGED <<op, handler, size, invalid, requests, layers, stored, processed, reports,
                       counts>>
    BY DEF HandleError, callVars
  <1>3. result = "running"
    BY <1>2, ChunkTypes
  <1>4. CASE handler = "continue"
    <2> DEFINE x == [chunk[c] EXCEPT !.at = "count"]
    <2>1. chunk' = [chunk EXCEPT ![c] = x] /\ UNCHANGED <<failures, result>>
      BY <1>4 DEF HandleError, Goes, Becomes
    <2>2. x \in ChunkState /\ x.at = "count"
      BY <1>1 DEF ChunkState, ChunkPlaces
    <2> HIDE DEF x
    <2>3. told \subseteq told' /\ Batch(c) \subseteq told'
      BY <1>2, <1>4
    <2>4. Moves(c, x)
      BY <1>1, <1>2, <1>3, <2>1, <2>2, <2>3 DEF Moves, Frame, StepTypes, Grows, Ordered, BatchTypeOK
    <2>5. Pends(c, x) /\ Settles(c, x) /\ Counts(c, x) /\ Adds(c, x) /\ Shows(c, x)
      BY <1>2, <2>2, <2>3 DEF Pends, Settles, Counts, Adds, Shows
    <2>6. QED
      BY <2>4, <2>5, MovesKeep
  <1>5. CASE handler # "continue"
    <2> DEFINE x == [chunk[c] EXCEPT !.at = "done"]
    <2>1. chunk' = [chunk EXCEPT ![c] = x] /\ failures' = failures + 1
          /\ result' = (IF op = "updateParallel" THEN result ELSE "error")
      BY <1>5 DEF HandleError, Goes, Becomes
    <2>2. x \in ChunkState /\ x.at = "done"
      BY <1>1 DEF ChunkState, ChunkPlaces
    <2> HIDE DEF x
    <2>3. told \subseteq told' /\ failures' \in Nat /\ failures' # 0 /\ failures <= failures'
      BY <1>1, <1>2, <2>1 DEF BatchTypeOK
    <2>4. Moves(c, x)
      BY <1>1, <1>2, <1>3, <2>1, <2>2, <2>3 DEF Moves, Frame, StepTypes, Grows, Ordered, BatchTypeOK
    <2>5. Pends(c, x) /\ Settles(c, x) /\ Counts(c, x) /\ Adds(c, x) /\ Shows(c, x)
      BY <1>2, <2>2, <2>3 DEF Pends, Settles, Counts, Adds, Shows
    <2>6. QED
      BY <2>4, <2>5, MovesKeep
  <1>6. QED
    BY <1>4, <1>5

\* A chunk has succeeded.
LEMMA SucceedKeeps ==
    ASSUME BatchInv, NEW c \in DOMAIN chunk, Succeed(c)
    PROVE  BatchInv'
  <1>1. BatchTypeOK /\ Settled /\ CountsSound /\ chunk[c] \in ChunkState
    BY ChunkTypes DEF BatchInv
  <1> DEFINE to == IF op \in Handled THEN "count" ELSE "done"
             x == [chunk[c] EXCEPT !.at = to]
  <1>2. chunk' = [chunk EXCEPT ![c] = x] /\ chunk[c].at = "succeeded"
        /\ UNCHANGED <<op, handler, size, invalid, requests, layers, stored, processed, reports,
                       told, failures, counts, result>>
    BY DEF Succeed, Goes, Becomes, callVars
  <1>3. to \in {"count", "done"} /\ (to = "done" => op \notin Handled)
    OBVIOUS
  <1> HIDE DEF to
  <1>4. x \in ChunkState /\ x.at = to
    BY <1>1, <1>3 DEF ChunkState, ChunkPlaces
  <1> HIDE DEF x
  <1>5. result = "running" /\ op # "deleteWithResult"
    BY <1>1, <1>2, ChunkTypes DEF CountsSound
  <1>6. Moves(c, x)
    BY <1>1, <1>2, <1>3, <1>4, <1>5 DEF Moves, Frame, StepTypes, Grows, Ordered, BatchTypeOK
  <1>7. Pends(c, x) /\ Settles(c, x) /\ Counts(c, x) /\ Adds(c, x) /\ Shows(c, x)
    BY <1>1, <1>2, <1>3, <1>4, <1>5 DEF Pends, Settles, Counts, Adds, Shows, Settled
  <1>8. QED
    BY <1>6, <1>7, MovesKeep

\* A chunk adds its items under the mutex.
LEMMA CountKeeps ==
    ASSUME BatchInv, NEW c \in DOMAIN chunk, Count(c)
    PROVE  BatchInv'
  <1>1. BatchTypeOK /\ Settled /\ CountsSound /\ chunk[c] \in ChunkState
        /\ Cardinality(Batch(c)) \in Nat
    BY ChunkTypes DEF BatchInv
  <1> DEFINE x == [chunk[c] EXCEPT !.at = "report", !.seen = processed']
  <1>2. chunk' = [chunk EXCEPT ![c] = x] /\ chunk[c].at = "count"
        /\ processed' = processed + Cardinality(Batch(c))
        /\ UNCHANGED <<op, handler, size, invalid, requests, layers, stored, reports, told,
                       failures, counts, result>>
    BY DEF Count, Becomes, callVars
  <1>3. processed' \in Nat
    BY <1>1, <1>2 DEF BatchTypeOK
  <1>4. x \in ChunkState /\ x.at = "report" /\ x.seen = processed'
    BY <1>1, <1>3 DEF ChunkState, ChunkPlaces
  <1> HIDE DEF x
  <1>5. result = "running" /\ op # "deleteWithResult"
    BY <1>1, <1>2, ChunkTypes DEF CountsSound
  <1>6. Moves(c, x)
    BY <1>1, <1>2, <1>3, <1>4, <1>5 DEF Moves, Frame, StepTypes, Grows, Ordered, BatchTypeOK
  <1>7. Pends(c, x) /\ Settles(c, x) /\ Counts(c, x) /\ Adds(c, x) /\ Shows(c, x)
    BY <1>1, <1>2, <1>4, <1>5 DEF Pends, Settles, Counts, Adds, Shows, Settled
  <1>8. QED
    BY <1>6, <1>7, MovesKeep

\* A chunk reports after the mutex is released.
LEMMA ReportKeeps ==
    ASSUME BatchInv, NEW c \in DOMAIN chunk, Report(c)
    PROVE  BatchInv'
  <1>1. BatchTypeOK /\ Settled /\ CountsSound /\ chunk[c] \in ChunkState
    BY ChunkTypes DEF BatchInv
  <1> DEFINE x == [chunk[c] EXCEPT !.at = "done"]
  <1>2. chunk' = [chunk EXCEPT ![c] = x] /\ chunk[c].at = "report"
        /\ reports' = reports \union {<<chunk[c].seen, NItems>>}
        /\ UNCHANGED <<op, handler, size, invalid, requests, layers, stored, processed, told,
                       failures, counts, result>>
    BY DEF Report, Goes, Becomes, callVars
  <1>3. x \in ChunkState /\ x.at = "done"
    BY <1>1 DEF ChunkState, ChunkPlaces
  <1> HIDE DEF x
  <1>4. result = "running" /\ op # "deleteWithResult"
    BY <1>1, <1>2, ChunkTypes DEF CountsSound
  <1>5. Moves(c, x)
    BY <1>1, <1>2, <1>3, <1>4 DEF Moves, Frame, StepTypes, Grows, Ordered, BatchTypeOK
  <1>6. Pends(c, x) /\ Settles(c, x) /\ Counts(c, x) /\ Adds(c, x) /\ Shows(c, x)
    BY <1>1, <1>2, <1>3, <1>4 DEF Pends, Settles, Counts, Adds, Shows, Settled
  <1>7. QED
    BY <1>5, <1>6, MovesKeep

-----------------------------------------------------------------------------
(* The beginning and the end of a call.                                    *)

\* No item is at places no chunk is at.
LEMMA NoneAt ==
    ASSUME NEW P, \A c \in DOMAIN chunk : chunk[c].at \notin P
    PROVE  ItemsAt(P) = {} /\ Cardinality(ItemsAt(P)) = 0
           /\ Cardinality({i \in ItemsAt(P) : stored[i] # NotStored}) = 0
  <1>1. ItemsAt(P) = {}
    BY DEF ItemsAt
  <1>2. {i \in ItemsAt(P) : stored[i] # NotStored} = {}
    BY <1>1
  <1>3. QED
    BY <1>1, <1>2, FS_EmptySet

\* No chunk has been taken.
Untouched ==
    /\ \A c \in DOMAIN chunk : chunk[c].at = "todo"
    /\ processed = 0 /\ counts.succeeded = 0 /\ counts.failed = 0

ChunksSound ==
    QuietInv /\ PendingSound /\ Settled /\ CountsSound /\ ProgressSound /\ LatestReported

\* The parts of the invariant about chunks hold before any chunk is taken.
LEMMA BeforeChunks == Untouched => ChunksSound
  <1> SUFFICES ASSUME Untouched PROVE ChunksSound
    OBVIOUS
  <1>1. InFlight = {}
    BY DEF Untouched, InFlight
  <1>2. \A P : "todo" \notin P =>
           /\ Cardinality(ItemsAt(P)) = 0
           /\ Cardinality({i \in ItemsAt(P) : stored[i] # NotStored}) = 0
    BY NoneAt DEF Untouched
  <1>3. CountsSound
    <2>1. /\ Cardinality(ItemsAt({"done"})) = 0
          /\ Cardinality({i \in ItemsAt({"done"}) : stored[i] # NotStored}) = 0
      BY <1>2
    <2>2. QED
      BY <2>1 DEF Untouched, CountsSound
  <1>4. ProgressSound
    <2>1. Cardinality(ItemsAt({"report", "done"})) = 0
      BY <1>2
    <2>2. QED
      BY <2>1 DEF Untouched, ProgressSound
  <1>5. QuietInv /\ PendingSound /\ Settled /\ LatestReported
    BY <1>1 DEF Untouched, QuietInv, PendingSound, Settled, LatestReported
  <1>6. QED
    BY <1>3, <1>4, <1>5 DEF ChunksSound

\* The same of the state after a step.
LEMMA BeforeChunksNext == Untouched' => ChunksSound'
  BY BeforeChunks, PTL

\* A call begins with no chunk.
LEMMA BatchInvInit == BatchInit => BatchInv
  <1> SUFFICES ASSUME BatchInit PROVE BatchInv
    OBVIOUS
  <1>1. DOMAIN chunk = {} /\ chunk = [c \in {} |-> Waiting]
    BY DEF BatchInit
  <1>2. BatchTypeOK
    <2>1. chunk \in [DOMAIN chunk -> ChunkState]
      BY <1>1
    <2>2. size \in Int /\ invalid \subseteq BatchItems
      BY ItemsAssumption, SizeAssumption DEF BatchInit
    <2>3. stored \in [BatchItems -> Int] /\ layers \in [BatchItems -> Nat]
      BY DEF BatchInit, NotStored
    <2>4. QED
      BY <1>1, <2>1, <2>2, <2>3 DEF BatchInit, BatchTypeOK
  <1>3. processed = 0 /\ counts.succeeded = 0 /\ counts.failed = 0 /\ result = "start"
    BY DEF BatchInit
  <1>4. ChunksSound
    BY <1>1, <1>3, BeforeChunks DEF Untouched
  <1>5. SplitSound /\ NilMeansDone /\ StartClean
    BY <1>1, <1>3 DEF SplitSound, NilMeansDone, StartClean
  <1>6. QED
    BY <1>2, <1>4, <1>5 DEF BatchInv, ChunksSound

\* The items are converted and split.
LEMMA PrepareKeeps ==
    ASSUME BatchInv, Prepare
    PROVE  BatchInv'
  <1>1. BatchTypeOK /\ StartClean /\ SplitSound
    BY DEF BatchInv
  <1>2. result = "start"
        /\ UNCHANGED <<op, handler, size, invalid, layers, stored, processed, reports, failures,
                       counts>>
    BY DEF Prepare, callVars
  <1>3. DOMAIN chunk = {} /\ processed = 0 /\ counts.succeeded = 0 /\ counts.failed = 0
    BY <1>1, <1>2 DEF StartClean
  <1> DEFINE bad == op \in Convert1st /\ invalid # {}
             reqs == IF bad THEN BatchItems \ invalid ELSE BatchItems
  <1>4. CASE bad /\ handler # "continue"
    <2>1. result' = "error" /\ UNCHANGED <<requests, chunk>>
      BY <1>4 DEF Prepare
    <2>2. \A c \in DOMAIN chunk' : chunk'[c].at = "todo"
      BY <1>3, <2>1
    <2>3. processed' = 0 /\ counts'.succeeded = 0 /\ counts'.failed = 0
      BY <1>2, <1>3
    <2>4. ChunksSound'
      BY <2>2, <2>3, BeforeChunksNext DEF Untouched
    <2>5. BatchTypeOK'
      BY <1>1, <1>2, <2>1 DEF BatchTypeOK
    <2>6. SplitSound' /\ NilMeansDone' /\ StartClean'
      BY <1>2, <1>4, <2>1 DEF SplitSound, NilMeansDone, StartClean, Convert1st
    <2>7. QED
      BY <2>4, <2>5, <2>6 DEF BatchInv, ChunksSound
  <1>5. CASE ~(bad /\ handler # "continue")
    <2>1. /\ requests' = reqs /\ chunk' = [c \in 1 .. NumBatches(reqs) |-> Waiting]
          /\ result' = "running" /\ told' = (IF bad THEN invalid ELSE {})
      BY <1>5 DEF Prepare
    <2>2. Waiting \in ChunkState /\ Waiting.at = "todo"
      BY DEF Waiting, ChunkState, ChunkPlaces
    <2>3. DOMAIN chunk' = 1 .. NumBatches(reqs)
          /\ \A c \in DOMAIN chunk' : chunk'[c].at = "todo"
      BY <2>1, <2>2
    <2>4. chunk' \in [DOMAIN chunk' -> ChunkState] /\ DOMAIN chunk' \subseteq Nat
      <3>1. chunk' \in [DOMAIN chunk' -> ChunkState]
        BY <2>1, <2>2
      <3>2. NumBatches(reqs) \in Int
        <4>1. reqs \subseteq BatchItems
          OBVIOUS
        <4>2. Cardinality(reqs) \in Nat /\ BatchSize \in Nat \ {0}
          BY <1>1, <4>1, ItemsFinite, BatchSizeType DEF BatchTypeOK
        <4>3. QED
          BY <4>2 DEF NumBatches
      <3>3. \A n \in Int : 1 .. n \subseteq Nat
        OBVIOUS
      <3>4. DOMAIN chunk' \subseteq Nat
        BY <2>3, <3>2, <3>3
      <3>5. QED
        BY <3>1, <3>4
    <2>5. processed' = 0 /\ counts'.succeeded = 0 /\ counts'.failed = 0
      BY <1>2, <1>3
    <2>6. ChunksSound'
      BY <2>3, <2>5, BeforeChunksNext DEF Untouched
    <2>7. BatchTypeOK'
      <3>1. requests' \subseteq BatchItems
        BY <2>1
      <3>2. QED
        BY <1>1, <1>2, <2>1, <2>4, <3>1 DEF BatchTypeOK
    <2>8. SplitSound'
      <3>1. NumBatches(requests)' = NumBatches(reqs)
        BY <1>2, <2>1 DEF NumBatches, BatchSize
      <3>2. BatchItems \ requests' \subseteq told'
        BY <2>1
      <3>3. op = "deleteWithResult" => requests' = BatchItems
        BY <2>1 DEF Convert1st
      <3>4. QED
        BY <1>2, <2>3, <3>1, <3>2, <3>3 DEF SplitSound
    <2>9. NilMeansDone' /\ StartClean'
      BY <2>1 DEF NilMeansDone, StartClean
    <2>10. QED
      BY <2>6, <2>7, <2>8, <2>9 DEF BatchInv, ChunksSound
  <1>6. QED
    BY <1>4, <1>5

\* The call returns.
LEMMA ReturnBatchKeeps ==
    ASSUME BatchInv, ReturnBatch
    PROVE  BatchInv'
  <1>1. result = "running" /\ (\A c \in DOMAIN chunk : chunk[c].at = "done")
        /\ result' \in {"nil", "error"} /\ (result' = "nil" => failures = 0)
        /\ UNCHANGED <<op, handler, size, invalid, requests, chunk, layers, stored, processed,
                       reports, told, failures, counts>>
    BY DEF ReturnBatch, callVars
  <1>2. \A c : Batch(c)' = Batch(c)
    BY <1>1 DEF Batch, Place, BatchSize
  <1>3. \A P : ItemsAt(P)' = ItemsAt(P)
    BY <1>1, <1>2 DEF ItemsAt
  <1>4. NumBatches(requests)' = NumBatches(requests)
    BY <1>1 DEF NumBatches, BatchSize
  <1>5. BatchTypeOK' /\ QuietInv' /\ NilMeansDone' /\ StartClean' /\ LatestReported'
    BY <1>1 DEF BatchInv, BatchTypeOK, QuietInv, InFlight, NilMeansDone, StartClean, LatestReported
  <1>6. SplitSound'
    BY <1>1, <1>4 DEF BatchInv, SplitSound
  <1>7. PendingSound' /\ Settled'
    BY <1>1, <1>2 DEF BatchInv, PendingSound, Settled
  <1>8. CountsSound' /\ ProgressSound'
    BY <1>1, <1>3 DEF BatchInv, CountsSound, ProgressSound
  <1>9. QED
    BY <1>5, <1>6, <1>7, <1>8 DEF BatchInv

\* Every step of a batch write keeps the invariant.
LEMMA BatchInvStep == BatchInv /\ [BatchNext]_batchVars => BatchInv'
  <1> SUFFICES ASSUME BatchInv, [BatchNext]_batchVars PROVE BatchInv'
    OBVIOUS
  <1>1. CASE UNCHANGED batchVars
    <2>1. \A c : Batch(c)' = Batch(c)
      BY <1>1 DEF batchVars, Batch, Place, BatchSize
    <2>2. \A P : ItemsAt(P)' = ItemsAt(P)
      BY <1>1, <2>1 DEF batchVars, ItemsAt
    <2>3. NumBatches(requests)' = NumBatches(requests)
      BY <1>1 DEF batchVars, NumBatches, BatchSize
    <2>4. BatchTypeOK' /\ QuietInv' /\ NilMeansDone' /\ StartClean' /\ LatestReported'
      BY <1>1 DEF batchVars, BatchInv, BatchTypeOK, QuietInv, InFlight, NilMeansDone, StartClean,
                  LatestReported
    <2>5. SplitSound' /\ PendingSound' /\ Settled'
      BY <1>1, <2>1, <2>3 DEF batchVars, BatchInv, SplitSound, PendingSound, Settled
    <2>6. CountsSound' /\ ProgressSound'
      BY <1>1, <2>2 DEF batchVars, BatchInv, CountsSound, ProgressSound
    <2>7. QED
      BY <2>4, <2>5, <2>6 DEF BatchInv
  <1>2. CASE Prepare
    BY <1>2, PrepareKeeps
  <1>3. CASE ReturnBatch
    BY <1>3, ReturnBatchKeeps
  <1>4. ASSUME NEW c \in DOMAIN chunk, Step(c) PROVE BatchInv'
    BY <1>4, StartKeeps, WriteFailsKeeps, AttemptKeeps, AttemptUnboundedKeeps,
       AttemptCountedKeeps, FailCountedKeeps, UpdateNextItemKeeps, HandleErrorKeeps,
       SucceedKeeps, CountKeeps, ReportKeeps DEF Step
  <1>5. QED
    BY <1>1, <1>2, <1>3, <1>4 DEF BatchNext

\* When all chunks are done, every request is in one of them.
LEMMA AllThrough ==
    ASSUME BatchInv, result = "nil", NEW P, "done" \in P
    PROVE  ItemsAt(P) = requests
  <1>1. BatchTypeOK /\ DOMAIN chunk = 1 .. NumBatches(requests)
        /\ \A c \in DOMAIN chunk : chunk[c].at = "done"
    BY DEF BatchInv, SplitSound, NilMeansDone
  <1>2. \A i \in requests : \E c \in DOMAIN chunk : i \in Batch(c)
    BY <1>1, BatchesCover DEF BatchTypeOK
  <1>3. \A c : Batch(c) \subseteq requests
    BY DEF Batch
  <1>4. QED
    BY <1>1, <1>2, <1>3 DEF ItemsAt, BatchTypeOK

\* The inductive invariant gives what the caller is promised.
LEMMA BatchInvNothingDropped == BatchInv => NothingDropped
  <1> SUFFICES ASSUME BatchInv, result = "nil" PROVE NothingDropped
    BY DEF NothingDropped
  <1>1. CASE op = "deleteWithResult"
    <2>1. ItemsAt({"done"}) = BatchItems
      BY <1>1, AllThrough DEF BatchInv, SplitSound
    <2>2. Cardinality(BatchItems) = NItems
      BY ItemsAssumption, FS_Interval DEF BatchItems
    <2>3. QED
      BY <1>1, <2>1, <2>2 DEF NothingDropped, BatchInv, CountsSound
  <1>2. CASE op # "deleteWithResult"
    <2>1. failures = 0 /\ (\A c \in DOMAIN chunk : chunk[c].at = "done")
          /\ BatchItems \ requests \subseteq told
      BY DEF BatchInv, NilMeansDone, SplitSound
    <2>2. \A c \in DOMAIN chunk : \A i \in Batch(c) : stored[i] # NotStored \/ i \in told
      BY <1>2, <2>1 DEF BatchInv, Settled
    <2>3. \A i \in requests : \E c \in DOMAIN chunk : i \in Batch(c)
      <3>1. ItemsAt({"done"}) = requests
        BY AllThrough
      <3>2. QED
        BY <3>1 DEF ItemsAt
    <2>4. QED
      BY <1>2, <2>1, <2>2, <2>3 DEF NothingDropped
  <1>3. QED
    BY <1>1, <1>2

\* The same for the ProgressCallback.
LEMMA BatchInvCompletion == BatchInv => CompletionReported
  <1> SUFFICES ASSUME BatchInv, result = "nil", op \in Handled, requests = BatchItems
               PROVE  <<NItems, NItems>> \in reports
    BY DEF CompletionReported
  <1>1. failures = 0 /\ (\A c \in DOMAIN chunk : chunk[c].at = "done")
    BY DEF BatchInv, NilMeansDone
  <1>2. ItemsAt({"report", "done"}) = BatchItems
    BY AllThrough
  <1>3. Cardinality(BatchItems) = NItems /\ NItems > 0
    BY ItemsAssumption, FS_Interval DEF BatchItems
  <1>4. processed = NItems
    BY <1>1, <1>2, <1>3 DEF BatchInv, ProgressSound
  <1>5. QED
    BY <1>1, <1>3, <1>4 DEF BatchInv, LatestReported

\* pkg/query/batch_operations.go, every batch operation, chunk size, handler and number of
\* goroutines: a call that returns nil dropped no item.
THEOREM NoItemDropped == BatchSpec => []NothingDropped
  BY BatchInvInit, BatchInvStep, BatchInvNothingDropped, PTL DEF BatchSpec

\* The progress reports of any number of goroutines, in whatever order they come, include
\* total of total once such a call returns nil.
THEOREM CompletionIsReported == BatchSpec => []CompletionReported
  BY BatchInvInit, BatchInvStep, BatchInvCompletion, PTL DEF BatchSpec

\* No chunk is in flight once the call has returned, so nothing is written or reported then.
LEMMA QuietStep ==
    BatchInv /\ [BatchNext]_batchVars =>
        [(result \in {"nil", "error"}) => UNCHANGED <<stored, reports, told>>]_batchVars
  <1> SUFFICES ASSUME BatchInv, BatchNext, result \in {"nil", "error"} PROVE FALSE
    BY DEF batchVars
  <1>1. \A c \in DOMAIN chunk : chunk[c].at \in {"todo", "done"}
    BY DEF BatchInv, QuietInv, InFlight
  <1>2. ~Prepare /\ ~ReturnBatch
    BY DEF Prepare, ReturnBatch
  <1>3. ASSUME NEW c \in DOMAIN chunk, Step(c) PROVE FALSE
    BY <1>1, <1>3 DEF Step, Start, WriteFails, Attempt, AttemptUnbounded, AttemptCounted,
                      BatchWriteItem, FailCounted, UpdateNextItem, HandleError, Succeed, Count,
                      Report
  <1>4. QED
    BY <1>2, <1>3 DEF BatchNext

\* executeBatchesParallel and the sequential loops: a call that has returned, also with the
\* first error, leaves no goroutine that still writes or calls the caller back.
THEOREM QuietOnceReturned == BatchSpec => QuietAfterReturn
  BY BatchInvInit, BatchInvStep, QuietStep, PTL DEF BatchSpec, QuietAfterReturn

-----------------------------------------------------------------------------
(* Batch gets.                                                             *)

ReadPlaces == {"todo", "reading", "align", "failed", "report", "done"}
ReadState == [at : ReadPlaces, keys : SUBSET Nat, collected : SUBSET Nat, attempt : Nat]

GetTypeOK ==
    /\ call.keys \in Seq(Nat) /\ call.size \in Int
    /\ ordered \in [DOMAIN call.keys -> Nat]
    /\ DOMAIN reading \subseteq Nat /\ reading \in [DOMAIN reading -> ReadState]
    /\ swallowed \subseteq DOMAIN reading
    /\ retrieved \in Nat /\ getErrors \in Nat
    /\ got \in {"start", "running", "nil", "error"}

\* The call has a chunk for every key; before it has, nothing is put in place.
PlanSound ==
    /\ got \in {"running", "nil"} => DOMAIN reading = 1 .. PartOf(Len(call.keys), ChunkSize)
    /\ got = "start" => DOMAIN reading = {} /\ \A i \in DOMAIN call.keys : ordered[i] = Missing

\* A chunk with the given keys, being x, has collected the items of those answered.
CollectSound(x, keys) ==
    /\ x.at = "todo" => x.collected = {}
    /\ x.at \in {"reading", "align"} =>
          /\ x.keys \subseteq keys
          /\ x.collected = (keys \ x.keys) \cap StoredKeys
    /\ x.at = "align" => x.keys = {}

\* What belongs at the place of key i.
Expected(i) ==
    IF call.keys[i] \in StoredKeys /\ call.projectsKey /\ call.keys[i] \notin Odd
    THEN call.keys[i] ELSE Missing

\* A chunk at a place of ReadPlaces has put the item where another is expected; taken tells
\* whether OnChunkError took its error.
PutSound(at, item, expected, taken, errors) ==
    /\ at \in {"todo", "reading", "align", "failed"} => item = Missing
    /\ at = "report" => item = expected
    /\ at = "done" /\ taken => item = Missing
    /\ at = "done" /\ ~taken /\ errors = 0 => item = expected

GetInv ==
    /\ GetTypeOK /\ PlanSound
    /\ \A c \in DOMAIN reading : CollectSound(reading[c], WindowKeys(c))
    /\ \A c \in DOMAIN reading : \A i \in Window(c) :
          PutSound(reading[c].at, ordered[i], Expected(i), c \in swallowed, getErrors)
    /\ \A c \in swallowed : reading[c].at = "done"
    /\ got = "nil" => getErrors = 0 /\ \A c \in DOMAIN reading : reading[c].at = "done"

\* A chunk has a positive size, and its places are places of keys.
LEMMA WindowType ==
    ASSUME GetTypeOK, NEW c
    PROVE  /\ ChunkSize \in Nat \ {0}
           /\ Window(c) \subseteq DOMAIN call.keys /\ DOMAIN call.keys = 1 .. Len(call.keys)
           /\ Len(call.keys) \in Nat /\ WindowKeys(c) \subseteq Nat
           /\ \A S \in SUBSET Window(c) : Cardinality(S) \in Nat
  <1>1. ChunkSize \in Nat \ {0}
    BY GetAssumption DEF GetTypeOK, ChunkSize
  <1>2. DOMAIN call.keys = 1 .. Len(call.keys) /\ Len(call.keys) \in Nat
    BY DEF GetTypeOK
  <1>3. Window(c) \subseteq DOMAIN call.keys
    BY DEF Window
  <1>4. \A i \in DOMAIN call.keys : call.keys[i] \in Nat
    BY DEF GetTypeOK
  <1>5. WindowKeys(c) \subseteq Nat
    BY <1>3, <1>4 DEF WindowKeys
  <1>6. IsFiniteSet(DOMAIN call.keys)
    BY <1>2, FS_Interval
  <1>7. \A S \in SUBSET Window(c) : Cardinality(S) \in Nat
    BY <1>3, <1>6, FS_Subset, FS_CardinalityType
  <1>8. QED
    BY <1>1, <1>2, <1>3, <1>5, <1>7

\* Every key is in a chunk.
LEMMA WindowsCover ==
    ASSUME GetTypeOK, NEW i \in DOMAIN call.keys
    PROVE  \E c \in 1 .. PartOf(Len(call.keys), ChunkSize) : i \in Window(c)
  <1>1. ChunkSize \in Nat \ {0} /\ i \in Nat \ {0} /\ i <= Len(call.keys) /\ Len(call.keys) \in Nat
    BY WindowType
  <1> DEFINE c == PartOf(i, ChunkSize)
  <1>2. c \in 1 .. PartOf(Len(call.keys), ChunkSize)
        /\ (c - 1) * ChunkSize < i /\ i <= c * ChunkSize
    BY <1>1, PartHolds
  <1> HIDE DEF c
  <1>3. c \in Int /\ (c - 1) * ChunkSize \in Int
    BY <1>1, <1>2
  <1>4. i \in Window(c)
    BY <1>1, <1>2, <1>3 DEF Window
  <1>5. QED
    BY <1>2, <1>4

\* No key is in two chunks.
LEMMA WindowsDisjoint ==
    ASSUME GetTypeOK, NEW c \in Nat, NEW d \in Nat, NEW i, i \in Window(c), i \in Window(d)
    PROVE  c = d
  <1>1. ChunkSize \in Nat \ {0} /\ i \in Nat
    BY WindowType DEF Window
  <1>2. (c - 1) * ChunkSize \in Int /\ (d - 1) * ChunkSize \in Int
    BY <1>1
  <1>3. /\ (c - 1) * ChunkSize < i /\ i <= c * ChunkSize
        /\ (d - 1) * ChunkSize < i /\ i <= d * ChunkSize
    BY <1>1, <1>2 DEF Window
  <1>4. QED
    BY <1>1, <1>3, PartsDisjoint

\* A step of one chunk: only its own places and its own error change.
ChunkTurns(c, x) ==
    /\ c \in DOMAIN reading /\ x \in ReadState /\ reading[c].at # "done"
    /\ reading' = [reading EXCEPT ![c] = x] /\ call' = call
    /\ ordered' \in [DOMAIN call.keys -> Nat]
    /\ \A i \in DOMAIN call.keys : i \notin Window(c) => ordered'[i] = ordered[i]
    /\ swallowed' \in {swallowed, swallowed \union {c}} /\ (c \in swallowed' => x.at = "done")
    /\ retrieved' \in Nat /\ getErrors' \in Nat /\ getErrors <= getErrors'
    /\ got' \in {got, "error"}

\* Such a step keeps the invariant if its own chunk is sound after it.
LEMMA ChunkTurnsKeep ==
    ASSUME GetInv, NEW c, NEW x, ChunkTurns(c, x), CollectSound(x, WindowKeys(c)),
           \A i \in Window(c) :
               PutSound(x.at, ordered'[i], Expected(i), c \in swallowed', getErrors')
    PROVE  GetInv'
  <1>1. GetTypeOK /\ PlanSound
    BY DEF GetInv
  <1>2. DOMAIN reading' = DOMAIN reading /\ reading'[c] = x /\ c \in DOMAIN reading
        /\ (\A d \in DOMAIN reading : d # c => reading'[d] = reading[d])
        /\ call' = call
    BY <1>1 DEF ChunkTurns, GetTypeOK
  <1>3. ChunkSize' = ChunkSize
    BY <1>2 DEF ChunkSize
  <1>4. \A d : Window(d)' = Window(d)
    BY <1>2, <1>3 DEF Window
  <1>5. \A d : WindowKeys(d)' = WindowKeys(d)
    BY <1>2, <1>4 DEF WindowKeys
  <1>6. got \in {"running", "error"} /\ got' \in {got, "error"}
    BY <1>1, <1>2 DEF ChunkTurns, GetInv, GetTypeOK, PlanSound
  <1>7. GetTypeOK'
    <2>1. reading' \in [DOMAIN reading' -> ReadState]
      BY <1>1 DEF ChunkTurns, GetTypeOK
    <2>2. QED
      BY <1>1, <1>2, <1>6, <2>1 DEF ChunkTurns, GetTypeOK
  <1>8. PlanSound'
    BY <1>1, <1>2, <1>3, <1>6 DEF PlanSound
  <1>9. \A d \in DOMAIN reading' : CollectSound(reading'[d], WindowKeys(d)')
    BY <1>2, <1>5 DEF GetInv
  <1>10. ASSUME NEW d \in DOMAIN reading, NEW i \in Window(d)
         PROVE  PutSound(reading'[d].at, ordered'[i], Expected(i)', d \in swallowed', getErrors')
    <2>1. Expected(i)' = Expected(i)
      BY <1>2 DEF Expected
    <2>2. CASE d = c
      BY <1>2, <1>10, <2>1, <2>2
    <2>3. CASE d # c
      <3>1. i \notin Window(c) /\ i \in DOMAIN call.keys
        BY <1>1, <1>2, <1>10, <2>3, WindowsDisjoint, WindowType DEF GetTypeOK
      <3>2. reading'[d] = reading[d] /\ ordered'[i] = ordered[i]
            /\ (d \in swallowed' <=> d \in swallowed) /\ (getErrors' = 0 => getErrors = 0)
        BY <1>1, <1>2, <2>3, <3>1 DEF ChunkTurns, GetTypeOK
      <3>3. PutSound(reading[d].at, ordered[i], Expected(i), d \in swallowed, getErrors)
        BY <1>10 DEF GetInv
      <3>4. QED
        BY <2>1, <3>2, <3>3 DEF PutSound
    <2>4. QED
      BY <2>2, <2>3
  <1>11. \A d \in swallowed' : reading'[d].at = "done"
    BY <1>1, <1>2 DEF ChunkTurns, GetInv, GetTypeOK
  <1>12. QED
    BY <1>2, <1>4, <1>6, <1>7, <1>8, <1>9, <1>10, <1>11 DEF GetInv

\* What the invariant says of a chunk, and of its places.
LEMMA ReadTypes ==
    ASSUME GetInv, NEW c \in DOMAIN reading
    PROVE  /\ GetTypeOK /\ reading[c] \in ReadState /\ CollectSound(reading[c], WindowKeys(c))
           /\ \A i \in Window(c) :
                 PutSound(reading[c].at, ordered[i], Expected(i), c \in swallowed, getErrors)
           /\ c \in swallowed => reading[c].at = "done"
           /\ Window(c) \subseteq DOMAIN call.keys /\ WindowKeys(c) \subseteq Nat
  BY WindowType DEF GetInv, GetTypeOK

\* A chunk that puts nothing in place and goes on to a place where nothing need be.
LEMMA ReadsOn ==
    ASSUME GetInv, NEW c \in DOMAIN reading, NEW x \in ReadState,
           reading[c].at \in {"todo", "reading"}, x.at \in {"reading", "align", "failed"},
           CollectSound(x, WindowKeys(c)), reading' = [reading EXCEPT ![c] = x],
           UNCHANGED <<call, ordered, swallowed, retrieved, getErrors, got>>
    PROVE  GetInv'
  <1>1. GetTypeOK /\ c \notin swallowed
        /\ \A i \in Window(c) :
              PutSound(reading[c].at, ordered[i], Expected(i), c \in swallowed, getErrors)
    BY ReadTypes
  <1>2. ChunkTurns(c, x)
    BY <1>1 DEF ChunkTurns, GetTypeOK
  <1>3. \A i \in Window(c) :
           PutSound(x.at, ordered'[i], Expected(i), c \in swallowed', getErrors')
    BY <1>1 DEF PutSound
  <1>4. QED
    BY <1>2, <1>3, ChunkTurnsKeep

\* A chunk is taken.
LEMMA BeginKeeps ==
    ASSUME GetInv, NEW c \in DOMAIN reading, Begin(c)
    PROVE  GetInv'
  <1>1. reading[c] \in ReadState /\ CollectSound(reading[c], WindowKeys(c))
        /\ WindowKeys(c) \subseteq Nat
    BY ReadTypes
  <1> DEFINE x == [reading[c] EXCEPT !.at = "reading", !.keys = WindowKeys(c)]
  <1>2. reading[c].at = "todo" /\ reading' = [reading EXCEPT ![c] = x]
        /\ UNCHANGED <<call, ordered, swallowed, retrieved, getErrors, got>>
    BY DEF Begin, Turns
  <1>3. x \in ReadState /\ x.at = "reading" /\ x.keys = WindowKeys(c)
        /\ x.collected = reading[c].collected
    BY <1>1 DEF ReadState, ReadPlaces
  <1> HIDE DEF x
  <1>4. CollectSound(x, WindowKeys(c))
    BY <1>1, <1>2, <1>3 DEF CollectSound
  <1>5. QED
    BY <1>2, <1>3, <1>4, ReadsOn

\* An answer with some keys unprocessed.
LEMMA BatchGetItemKeeps ==
    ASSUME GetInv, NEW c \in DOMAIN reading, BatchGetItem(c)
    PROVE  GetInv'
  <1>1. reading[c] \in ReadState /\ CollectSound(reading[c], WindowKeys(c))
        /\ WindowKeys(c) \subseteq Nat
    BY ReadTypes
  <1> DEFINE X(u) == [reading[c] EXCEPT
                        !.collected = reading[c].collected
                                        \union ((reading[c].keys \ u) \cap StoredKeys),
                        !.keys = u, !.attempt = reading[c].attempt + 1, !.at = Retry(c, u)]
  <1>2. PICK u \in SUBSET reading[c].keys : reading' = [reading EXCEPT ![c] = X(u)]
    BY DEF BatchGetItem, Turns
  <1>3. reading[c].at = "reading"
        /\ UNCHANGED <<call, ordered, swallowed, retrieved, getErrors, got>>
    BY DEF BatchGetItem
  <1>4. Retry(c, u) \in {"align", "failed", "reading"} /\ (Retry(c, u) = "align" => u = {})
    BY DEF Retry
  <1> DEFINE to == Retry(c, u)
             all == reading[c].collected \union ((reading[c].keys \ u) \cap StoredKeys)
             x == X(u)
  <1>5. reading[c].keys \subseteq WindowKeys(c)
        /\ reading[c].collected = (WindowKeys(c) \ reading[c].keys) \cap StoredKeys
    BY <1>1, <1>3 DEF CollectSound
  <1>6. all = (WindowKeys(c) \ u) \cap StoredKeys /\ all \subseteq Nat /\ u \subseteq WindowKeys(c)
    BY <1>1, <1>5
  <1>7. reading[c].attempt + 1 \in Nat
    BY <1>1 DEF ReadState
  <1>8. reading' = [reading EXCEPT ![c] = x]
    BY <1>2
  <1> HIDE DEF to, all
  <1>9. to \in {"align", "failed", "reading"} /\ (to = "align" => u = {})
    BY <1>4 DEF to
  <1>10. x.at = to /\ x.keys = u /\ x.collected = all
    BY <1>1 DEF ReadState, to, all
  <1>11. x \in ReadState
    BY <1>1, <1>6, <1>7, <1>9 DEF ReadState, ReadPlaces, to, all
  <1> HIDE DEF x
  <1>12. CollectSound(x, WindowKeys(c))
    BY <1>6, <1>9, <1>10 DEF CollectSound
  <1>13. QED
    BY <1>3, <1>8, <1>9, <1>10, <1>11, <1>12, ReadsOn

\* A request fails.
LEMMA ReadFailsKeeps ==
    ASSUME GetInv, NEW c \in DOMAIN reading, ReadFails(c)
    PROVE  GetInv'
  <1>1. reading[c] \in ReadState
    BY ReadTypes
  <1> DEFINE x == [reading[c] EXCEPT !.at = "failed"]
  <1>2. reading[c].at = "reading" /\ reading' = [reading EXCEPT ![c] = x]
        /\ UNCHANGED <<call, ordered, swallowed, retrieved, getErrors, got>>
    BY DEF ReadFails, Passes, Turns
  <1>3. x \in ReadState /\ x.at = "failed"
    BY <1>1 DEF ReadState, ReadPlaces
  <1> HIDE DEF x
  <1>4. CollectSound(x, WindowKeys(c))
    BY <1>3 DEF CollectSound
  <1>5. QED
    BY <1>2, <1>3, <1>4, ReadsOn

\* The only member of a set is chosen.
LEMMA ChosenOne ==
    ASSUME NEW S, NEW k, S = {k}
    PROVE  (CHOOSE y \in S : TRUE) = k
  <1>1. (CHOOSE y \in S : TRUE) \in S
    OBVIOUS
  <1>2. QED
    BY <1>1

\* Once a chunk is read, what matches a key is its item, where one is expected.
LEMMA MatchExpected ==
    ASSUME GetInv, NEW c \in DOMAIN reading, reading[c].at = "align", NEW i \in Window(c)
    PROVE  /\ Matches(c, i) # {} => (CHOOSE item \in Matches(c, i) : TRUE) = Expected(i)
           /\ Matches(c, i) = {} => Expected(i) = Missing
  <1>1. reading[c].collected = WindowKeys(c) \cap StoredKeys
    BY ReadTypes DEF CollectSound
  <1>2. call.keys[i] \in WindowKeys(c)
    BY DEF WindowKeys
  <1>3. CASE call.keys[i] \in StoredKeys /\ call.projectsKey /\ call.keys[i] \notin Odd
    <2>1. Matches(c, i) = {call.keys[i]}
      BY <1>1, <1>2, <1>3 DEF Matches, KeyMatchesItem
    <2>2. Expected(i) = call.keys[i]
      BY <1>3 DEF Expected
    <2>3. QED
      BY <2>1, <2>2, ChosenOne
  <1>4. CASE ~(call.keys[i] \in StoredKeys /\ call.projectsKey /\ call.keys[i] \notin Odd)
    <2>1. Matches(c, i) = {}
      BY <1>1, <1>4 DEF Matches, KeyMatchesItem
    <2>2. QED
      BY <1>4, <2>1 DEF Expected
  <1>5. QED
    BY <1>3, <1>4

\* The items of a chunk are put in place.
LEMMA AlignKeeps ==
    ASSUME GetInv, NEW c \in DOMAIN reading, Align(c)
    PROVE  GetInv'
  <1>1. GetTypeOK /\ reading[c] \in ReadState
        /\ Window(c) \subseteq DOMAIN call.keys
        /\ \A i \in Window(c) :
              PutSound(reading[c].at, ordered[i], Expected(i), c \in swallowed, getErrors)
        /\ (c \in swallowed => reading[c].at = "done")
    BY ReadTypes
  <1> DEFINE found == {i \in Window(c) : Matches(c, i) # {}}
             Pick(i) == CHOOSE item \in Matches(c, i) : TRUE
             x == [reading[c] EXCEPT !.at = "report", !.attempt = retrieved']
  <1>2. reading[c].at = "align" /\ reading' = [reading EXCEPT ![c] = x]
        /\ ordered' = [i \in DOMAIN ordered |-> IF i \in found THEN Pick(i) ELSE ordered[i]]
        /\ retrieved' = retrieved + Cardinality(found)
        /\ UNCHANGED <<call, swallowed, getErrors, got>>
    BY DEF Align, Turns
  <1>3. retrieved' \in Nat
    <2>1. Cardinality(found) \in Nat
      BY <1>1, WindowType
    <2>2. QED
      BY <1>1, <1>2, <2>1 DEF GetTypeOK
  <1>4. x \in ReadState /\ x.at = "report"
    BY <1>1, <1>3 DEF ReadState, ReadPlaces
  <1>5. \A i \in Window(c) : /\ i \in found => Pick(i) = Expected(i)
                             /\ i \notin found => Expected(i) = Missing
    BY <1>2, MatchExpected
  <1> HIDE DEF x, Pick
  <1>6. \A i \in Window(c) : ordered[i] = Missing
    BY <1>1, <1>2 DEF PutSound
  <1>7. DOMAIN ordered = DOMAIN call.keys
    BY <1>1 DEF GetTypeOK
  <1>8. \A i \in Window(c) : ordered'[i] = Expected(i)
    BY <1>1, <1>2, <1>5, <1>6, <1>7
  <1>9. \A i \in DOMAIN call.keys : i \notin Window(c) => ordered'[i] = ordered[i]
    BY <1>2, <1>7
  <1>10. \A i \in DOMAIN call.keys : Expected(i) \in Nat
    BY <1>1 DEF Expected, Missing, GetTypeOK
  <1>11. ordered' \in [DOMAIN call.keys -> Nat]
    <2>1. \A i \in DOMAIN call.keys : ordered'[i] \in Nat
      BY <1>1, <1>8, <1>9, <1>10 DEF GetTypeOK
    <2>2. ordered' = [i \in DOMAIN call.keys |-> ordered'[i]]
      BY <1>2, <1>7
    <2>3. QED
      BY <2>1, <2>2
  <1>12. ChunkTurns(c, x)
    <2>1. swallowed' = swallowed /\ reading[c].at = "align"
          /\ reading' = [reading EXCEPT ![c] = x] /\ call' = call /\ got' = got
      BY <1>2
    <2>2. c \notin swallowed'
      <3>1. c \in swallowed => reading[c].at = "done"
        BY ReadTypes
      <3>2. QED
        BY <2>1, <3>1
    <2>3. getErrors' \in Nat /\ getErrors <= getErrors'
      BY <1>1, <1>2 DEF GetTypeOK
    <2>4. QED
      BY <1>3, <1>4, <1>9, <1>11, <2>1, <2>2, <2>3 DEF ChunkTurns
  <1>13. CollectSound(x, WindowKeys(c))
    BY <1>4 DEF CollectSound
  <1>14. \A i \in Window(c) :
            PutSound(x.at, ordered'[i], Expected(i), c \in swallowed', getErrors')
    BY <1>4, <1>8 DEF PutSound
  <1>15. QED
    BY <1>12, <1>13, <1>14, ChunkTurnsKeep

\* A chunk reports its progress.
LEMMA ShowProgressKeeps ==
    ASSUME GetInv, NEW c \in DOMAIN reading, ShowProgress(c)
    PROVE  GetInv'
  <1>1. GetTypeOK /\ reading[c] \in ReadState
        /\ \A i \in Window(c) :
              PutSound(reading[c].at, ordered[i], Expected(i), c \in swallowed, getErrors)
        /\ (c \in swallowed => reading[c].at = "done")
    BY ReadTypes
  <1> DEFINE x == [reading[c] EXCEPT !.at = "done"]
  <1>2. reading[c].at = "report" /\ reading' = [reading EXCEPT ![c] = x]
        /\ UNCHANGED <<call, ordered, swallowed, retrieved, getErrors, got>>
    BY DEF ShowProgress, Passes, Turns
  <1>3. x \in ReadState /\ x.at = "done"
    BY <1>1 DEF ReadState, ReadPlaces
  <1> HIDE DEF x
  <1>4. ChunkTurns(c, x)
    BY <1>1, <1>2, <1>3 DEF ChunkTurns, GetTypeOK
  <1>5. CollectSound(x, WindowKeys(c))
    BY <1>3 DEF CollectSound
  <1>6. \A i \in Window(c) :
           PutSound(x.at, ordered'[i], Expected(i), c \in swallowed', getErrors')
    BY <1>1, <1>2, <1>3 DEF PutSound
  <1>7. QED
    BY <1>4, <1>5, <1>6, ChunkTurnsKeep

\* The error of a chunk is taken or kept.
LEMMA ChunkErrorKeeps ==
    ASSUME GetInv, NEW c \in DOMAIN reading, ChunkError(c)
    PROVE  GetInv'
  <1>1. GetTypeOK /\ reading[c] \in ReadState
        /\ \A i \in Window(c) :
              PutSound(reading[c].at, ordered[i], Expected(i), c \in swallowed, getErrors)
        /\ (c \in swallowed => reading[c].at = "done")
    BY ReadTypes
  <1> DEFINE x == [reading[c] EXCEPT !.at = "done"]
  <1>2. reading[c].at = "failed" /\ reading' = [reading EXCEPT ![c] = x]
        /\ UNCHANGED <<call, ordered, retrieved>>
    BY DEF ChunkError, Passes, Turns
  <1>3. \/ swallowed' = swallowed \union {c} /\ getErrors' = getErrors /\ got' = got
        \/ swallowed' = swallowed /\ getErrors' = getErrors + 1 /\ got' \in {got, "error"}
    BY DEF ChunkError
  <1>4. x \in ReadState /\ x.at = "done"
    BY <1>1 DEF ReadState, ReadPlaces
  <1> HIDE DEF x
  <1>5. getErrors' \in Nat /\ getErrors <= getErrors' /\ (getErrors' # 0 \/ c \in swallowed')
    BY <1>1, <1>3 DEF GetTypeOK
  <1>6. ChunkTurns(c, x)
    BY <1>1, <1>2, <1>3, <1>4, <1>5 DEF ChunkTurns, GetTypeOK
  <1>7. CollectSound(x, WindowKeys(c))
    BY <1>4 DEF CollectSound
  <1>8. \A i \in Window(c) :
           PutSound(x.at, ordered'[i], Expected(i), c \in swallowed', getErrors')
    BY <1>1, <1>2, <1>4, <1>5 DEF PutSound
  <1>9. QED
    BY <1>6, <1>7, <1>8, ChunkTurnsKeep

\* A call begins with nothing in place.
LEMMA GetInvInit == GetInit => GetInv
  <1> SUFFICES ASSUME GetInit PROVE GetInv
    OBVIOUS
  <1>1. call.keys \in Seq(Nat) /\ call.size \in Int
    BY GetAssumption DEF GetInit
  <1>2. DOMAIN reading = {} /\ reading = [c \in {} |-> Unread]
    BY DEF GetInit, Idle
  <1>3. ordered = [i \in DOMAIN call.keys |-> Missing] /\ swallowed = {} /\ retrieved = 0
        /\ getErrors = 0 /\ got = "start"
    BY DEF GetInit, Idle
  <1>4. ordered \in [DOMAIN call.keys -> Nat] /\ reading \in [DOMAIN reading -> ReadState]
    BY <1>2, <1>3 DEF Missing
  <1>5. GetTypeOK
    BY <1>1, <1>2, <1>3, <1>4 DEF GetTypeOK
  <1>6. PlanSound
    BY <1>2, <1>3 DEF PlanSound
  <1>7. QED
    BY <1>2, <1>3, <1>5, <1>6 DEF GetInv

\* The keys are converted and split.
LEMMA PlanKeeps ==
    ASSUME GetInv, Plan
    PROVE  GetInv'
  <1>1. GetTypeOK /\ got = "start" /\ DOMAIN reading = {}
        /\ \A i \in DOMAIN call.keys : ordered[i] = Missing
    BY DEF Plan, GetInv, PlanSound
  <1>2. UNCHANGED <<call, ordered, swallowed, retrieved, getErrors>>
    BY DEF Plan
  <1>3. swallowed = {}
    BY <1>1 DEF GetTypeOK
  <1>4. CASE got' = "error" /\ reading' = reading
    <2>1. GetTypeOK' /\ PlanSound'
      BY <1>1, <1>2, <1>4 DEF GetTypeOK, PlanSound
    <2>2. QED
      BY <1>1, <1>2, <1>3, <1>4, <2>1 DEF GetInv
  <1> DEFINE n == PartOf(Len(call.keys), ChunkSize)
  <1>5. CASE got' = "running" /\ reading' = [c \in 1 .. n |-> Unread]
    <2>1. ChunkSize \in Nat \ {0} /\ Len(call.keys) \in Nat
      BY <1>1, WindowType
    <2>2. n \in Int /\ ChunkSize' = ChunkSize
      BY <1>2, <2>1 DEF PartOf, ChunkSize
    <2> HIDE DEF n
    <2>3. Unread \in ReadState /\ Unread.at = "todo" /\ Unread.collected = {}
      BY DEF Unread, ReadState, ReadPlaces
    <2>4. DOMAIN reading' = 1 .. n /\ (\A c \in DOMAIN reading' : reading'[c] = Unread)
      BY <1>5
    <2>5. reading' \in [DOMAIN reading' -> ReadState] /\ DOMAIN reading' \subseteq Nat
      BY <1>5, <2>2, <2>3, <2>4
    <2>6. GetTypeOK'
      BY <1>1, <1>2, <1>3, <1>5, <2>5 DEF GetTypeOK
    <2>7. PlanSound'
      BY <1>2, <1>5, <2>2, <2>4 DEF PlanSound, n
    <2>8. \A c \in DOMAIN reading' : CollectSound(reading'[c], WindowKeys(c)')
      BY <2>3, <2>4 DEF CollectSound
    <2>9. \A c : Window(c)' = Window(c)
      BY <1>2, <2>2 DEF Window
    <2>10. \A c : Window(c) \subseteq DOMAIN call.keys
      BY DEF Window
    <2>11. \A c \in DOMAIN reading' : \A i \in Window(c)' :
              PutSound(reading'[c].at, ordered'[i], Expected(i)', c \in swallowed', getErrors')
      BY <1>1, <1>2, <2>3, <2>4, <2>9, <2>10 DEF PutSound
    <2>12. QED
      BY <1>2, <1>3, <1>5, <2>6, <2>7, <2>8, <2>11 DEF GetInv
  <1>6. QED
    BY <1>4, <1>5 DEF Plan, PartOf

\* A step that changes at most the result keeps what is said of chunks and places.
LEMMA SameChunks ==
    ASSUME GetInv, UNCHANGED <<call, reading, ordered, swallowed, retrieved, getErrors>>,
           got' = got \/ (got = "running" /\ got' \in {"nil", "error"}),
           got' = "nil" => getErrors = 0 /\ \A c \in DOMAIN reading : reading[c].at = "done"
    PROVE  GetInv'
  <1>1. ChunkSize' = ChunkSize
    BY DEF ChunkSize
  <1>2. \A c : Window(c)' = Window(c)
    BY <1>1 DEF Window
  <1>3. \A c : WindowKeys(c)' = WindowKeys(c)
    BY <1>2 DEF WindowKeys
  <1>4. \A i : Expected(i)' = Expected(i)
    BY DEF Expected
  <1>5. GetTypeOK' /\ PlanSound'
    BY <1>1 DEF GetInv, GetTypeOK, PlanSound
  <1>6. \A c \in DOMAIN reading' : CollectSound(reading'[c], WindowKeys(c)')
    BY <1>3 DEF GetInv
  <1>7. \A c \in DOMAIN reading' : \A i \in Window(c)' :
           PutSound(reading'[c].at, ordered'[i], Expected(i)', c \in swallowed', getErrors')
    BY <1>2, <1>4 DEF GetInv
  <1>8. QED
    BY <1>5, <1>6, <1>7 DEF GetInv

\* Every step of a batch get keeps the invariant.
LEMMA GetInvStep == GetInv /\ [GetNext]_getVars => GetInv'
  <1> SUFFICES ASSUME GetInv, [GetNext]_getVars PROVE GetInv'
    OBVIOUS
  <1>1. CASE UNCHANGED getVars
    BY <1>1, SameChunks DEF getVars, GetInv
  <1>2. CASE Plan
    BY <1>2, PlanKeeps
  <1>3. CASE Collect
    <2>1. UNCHANGED <<call, reading, ordered, swallowed, retrieved, getErrors>> /\ got = "running"
          /\ got' \in {"nil", "error"} /\ (got' = "nil" => getErrors = 0)
          /\ \A c \in DOMAIN reading : reading[c].at = "done"
      BY <1>3 DEF Collect
    <2>2. QED
      BY <2>1, SameChunks
  <1>4. ASSUME NEW c \in DOMAIN reading, Chunk(c) PROVE GetInv'
    BY <1>4, BeginKeeps, BatchGetItemKeeps, ReadFailsKeeps, AlignKeeps, ShowProgressKeeps,
       ChunkErrorKeeps DEF Chunk
  <1>5. QED
    BY <1>1, <1>2, <1>3, <1>4 DEF GetNext

\* The inductive invariant gives the order of the items.
LEMMA GetInvInPlace == GetInv => EachItemInPlace
  <1> SUFFICES ASSUME GetInv, got = "nil", NEW i \in DOMAIN ordered
               PROVE  LET k == call.keys[i]
                          taken == \E c \in swallowed : i \in Window(c)
                      IN  ordered[i] = IF k \in StoredKeys /\ ~taken /\ call.projectsKey /\ k \notin Odd
                                       THEN k ELSE Missing
    BY DEF EachItemInPlace
  <1>1. GetTypeOK /\ getErrors = 0 /\ (\A c \in DOMAIN reading : reading[c].at = "done")
        /\ DOMAIN reading = 1 .. PartOf(Len(call.keys), ChunkSize)
    BY DEF GetInv, PlanSound
  <1>2. i \in DOMAIN call.keys
    BY <1>1 DEF GetTypeOK
  <1>3. PICK d \in DOMAIN reading : i \in Window(d)
    BY <1>1, <1>2, WindowsCover
  <1>4. PutSound(reading[d].at, ordered[i], Expected(i), d \in swallowed, getErrors)
    BY <1>3 DEF GetInv
  <1>5. \A c \in swallowed : i \in Window(c) => c = d
    BY <1>1, <1>3, WindowsDisjoint DEF GetTypeOK
  <1>6. CASE d \in swallowed
    BY <1>1, <1>3, <1>4, <1>6 DEF PutSound
  <1>7. CASE d \notin swallowed
    <2>1. ordered[i] = Expected(i)
      BY <1>1, <1>4, <1>7 DEF PutSound
    <2>2. ~\E c \in swallowed : i \in Window(c)
      BY <1>5, <1>7
    <2>3. QED
      BY <2>1, <2>2 DEF Expected
  <1>8. QED
    BY <1>6, <1>7

\* pkg/query/batch_get.go, for any keys, chunk size, number of goroutines and retries, and
\* any partial answers: a BatchGet that returns nil has every item at the place of its key.
THEOREM ItemsInPlace == GetSpec => []EachItemInPlace
  BY GetInvInit, GetInvStep, GetInvInPlace, PTL DEF GetSpec
=============================================================================
