---------------------------- MODULE ProcessProofs ----------------------------
(* Proofs about what a process keeps between calls, modules MemoryMonitor, *)
(* ResourceProtector, SimpleLimiter and MultiAccount: for any number of    *)
(* goroutines, any limits, rate and clock, any partners and configurations *)
(* and any period of the ticker.                                           *)
EXTENDS MemoryMonitor, ResourceProtector, SimpleLimiter, MultiAccount,
        FiniteSetTheorems, TLAPS

-----------------------------------------------------------------------------
(* The memory monitor.                                                     *)

CallerPlaces == {"idle", "setLock", "startLock", "startWait", "stopLock"}

MonitorTypeOK ==
    /\ pc \in [Caller -> CallerPlaces]
    /\ mu \in Caller \union {NoCaller}
    /\ readers \subseteq Monitors
    /\ running \in BOOLEAN
    /\ stopChan \in Nat
    /\ closed \subseteq Nat
    /\ loop \in [Monitors -> Live \union {"none", "exited"}]
    /\ pressure \in BOOLEAN

\* Only the monitor the present channel was made for can be alive.
LatestLives == \A i \in Monitors : loop[i] \in Live => i = stopChan

\* No channel is closed before it is made.
ClosedWereMade == \A x \in closed : x <= stopChan

\* Start waits with the lock held, and holds it only while nothing runs.
LockOwned ==
    /\ \A c \in Caller : pc[c] = "startWait" => mu = c
    /\ mu # NoCaller => ~running

\* The calls of Start that are under way are within the bound on monitors.
StartsBounded == stopChan + Cardinality(Starting) <= MaxStarts

MonitorInv ==
    /\ MonitorTypeOK /\ LatestLives /\ ClosedWereMade /\ LockOwned
    /\ StartsBounded /\ RunningIsLive

\* The callers in Start are finitely many.
LEMMA StartingFinite == IsFiniteSet(Starting) /\ Cardinality(Starting) \in Nat
  <1>1. Starting \subseteq Caller
    BY DEF Starting
  <1>2. QED
    BY <1>1, CallerAssumption, FS_Subset, FS_CardinalityType

\* The monitor starts with nothing running.
LEMMA MonitorInvInit == MonitorInit => MonitorInv
  <1> SUFFICES ASSUME MonitorInit PROVE MonitorInv
    OBVIOUS
  <1>1. MonitorTypeOK
    BY MonitorAssumption DEF MonitorInit, MonitorTypeOK, CallerPlaces
  <1>2. LatestLives /\ ClosedWereMade /\ LockOwned /\ RunningIsLive
    BY DEF MonitorInit, LatestLives, ClosedWereMade, LockOwned, RunningIsLive, Live
  <1>3. StartsBounded
    <2>1. Starting = {}
      BY DEF MonitorInit, Starting
    <2>2. QED
      BY <2>1, FS_EmptySet, MonitorAssumption DEF StartsBounded, MonitorInit
  <1>4. QED
    BY <1>1, <1>2, <1>3 DEF MonitorInv

\* A caller that does not touch the shared state and is as much in Start as before.
LEMMA CallerMoves ==
    ASSUME MonitorInv, NEW c \in Caller, NEW to \in CallerPlaces,
           pc' = [pc EXCEPT ![c] = to], to # "startWait",
           StartsBounded',
           UNCHANGED <<mu, readers, running, stopChan, closed, loop, pressure>>
    PROVE  MonitorInv'
  BY DEF MonitorInv, MonitorTypeOK, LatestLives, ClosedWereMade, LockOwned, RunningIsLive,
         Monitors

\* The monitor goroutine moves.  It stays alive, or ends when nothing runs.
LEMMA LoopMoves ==
    ASSUME MonitorInv, NEW i \in Monitors, loop[i] \in Live,
           NEW to \in Live \union {"exited"},
           loop' = [loop EXCEPT ![i] = to],
           to = "exited" => ~running,
           readers' \subseteq Monitors,
           UNCHANGED <<pc, mu, running, stopChan, closed, pressure>>
    PROVE  MonitorInv'
  <1> USE DEF MonitorInv, Monitors
  <1>1. MonitorTypeOK' /\ ClosedWereMade' /\ LockOwned'
    BY DEF MonitorTypeOK, ClosedWereMade, LockOwned
  <1>2. StartsBounded'
    BY DEF StartsBounded, Starting
  <1>3. i = stopChan /\ loop'[i] = to /\ \A j \in Monitors \ {i} : loop'[j] = loop[j]
    BY DEF LatestLives, MonitorTypeOK
  <1>4. LatestLives' /\ RunningIsLive'
    BY <1>3 DEF LatestLives, RunningIsLive, Live
  <1>5. QED
    BY <1>1, <1>2, <1>4

\* Stop clears the flag and closes the present channel.
LEMMA StopKeeps ==
    ASSUME MonitorInv, StopMonitor
    PROVE  running' = FALSE /\ closed' \subseteq Nat /\ \A x \in closed' : x <= stopChan
  BY DEF MonitorInv, MonitorTypeOK, StopMonitor, ClosedWereMade

\* Every step of a caller keeps the invariant.
LEMMA CallerKeeps ==
    ASSUME MonitorInv, NEW c \in Caller,
           StartMemoryMonitoring(c) \/ StopMemoryMonitoring(c) \/ CallerStep(c)
    PROVE  MonitorInv'
  <1>0. stopChan \in Nat /\ MaxStarts \in Nat /\ pc \in [Caller -> CallerPlaces]
    BY MonitorAssumption DEF MonitorInv, MonitorTypeOK
  <1>00. IsFiniteSet(Starting) /\ Cardinality(Starting) \in Nat
    BY StartingFinite
  <1>1. CASE StartMemoryMonitoring(c)
    <2>1. Starting' = Starting \union {c} /\ c \notin Starting
      BY <1>0, <1>1 DEF StartMemoryMonitoring, Starting
    <2>2. Cardinality(Starting') = Cardinality(Starting) + 1
      BY <1>00, <2>1, FS_AddElement
    <2>3. StartsBounded'
      BY <1>0, <1>00, <1>1, <2>2 DEF StartsBounded, StartMemoryMonitoring
    <2>4. QED
      BY <1>1, <2>3, CallerMoves DEF StartMemoryMonitoring, CallerPlaces
  <1>2. CASE SetCallback(c)
    <2>1. Starting' = Starting
      BY <1>0, <1>2 DEF SetCallback, Starting
    <2>2. StartsBounded'
      BY <1>2, <2>1 DEF StartsBounded, SetCallback, MonitorInv
    <2>3. QED
      BY <1>2, <2>2, CallerMoves DEF SetCallback, CallerPlaces
  <1>3. CASE StartEnter(c) /\ running
    <2>1. Starting' = Starting \ {c} /\ c \in Starting
      BY <1>0, <1>3 DEF StartEnter, Starting
    <2>2. Cardinality(Starting') = Cardinality(Starting) - 1
      BY <1>00, <2>1, FS_RemoveElement
    <2>3. StartsBounded'
      BY <1>0, <1>00, <1>3, <2>2 DEF StartsBounded, StartEnter, MonitorInv
    <2>4. QED
      BY <1>3, <2>3, CallerMoves DEF StartEnter, CallerPlaces
  <1>4. CASE StartEnter(c) /\ ~running
    <2>1. Starting' = Starting
      BY <1>0, <1>4 DEF StartEnter, Starting
    <2>2. StartsBounded'
      BY <1>4, <2>1 DEF StartsBounded, StartEnter, MonitorInv
    <2>3. \A d \in Caller : pc[d] # "startWait"
      BY <1>4, CallerAssumption DEF StartEnter, MayLock, MonitorInv, LockOwned
    <2>4. MonitorTypeOK'
      BY <1>4 DEF MonitorInv, MonitorTypeOK, StartEnter, CallerPlaces
    <2>5. LockOwned'
      BY <1>0, <1>4, <2>3 DEF StartEnter, LockOwned
    <2>6. LatestLives' /\ ClosedWereMade' /\ RunningIsLive'
      BY <1>4 DEF StartEnter, MonitorInv, LatestLives, ClosedWereMade, RunningIsLive
    <2>7. QED
      BY <2>2, <2>4, <2>5, <2>6 DEF MonitorInv
  <1>5. CASE Start(c)
    <2>1. Starting' = Starting \ {c} /\ c \in Starting
      BY <1>0, <1>5 DEF Start, Starting
    <2>2. Cardinality(Starting') = Cardinality(Starting) - 1 /\ Cardinality(Starting') \in Nat
      BY <1>00, <2>1, FS_RemoveElement, FS_CardinalityType
    <2>3. StartsBounded' /\ stopChan + 1 \in Monitors
      BY <1>0, <1>00, <1>5, <2>2 DEF StartsBounded, Start, MonitorInv, Monitors
    <2>4. \A d \in Caller \ {c} : pc[d] # "startWait"
      BY <1>5 DEF Start, MonitorInv, LockOwned
    <2>5. MonitorTypeOK'
      BY <1>5, <2>3 DEF MonitorInv, MonitorTypeOK, Start, CallerPlaces, Live
    <2>6. LockOwned'
      BY <1>0, <1>5, <2>4 DEF Start, LockOwned
    <2>7. /\ loop'[stopChan + 1] = "select"
          /\ \A j \in Monitors \ {stopChan + 1} : loop'[j] \in {"none", "exited"}
      BY <1>5, <2>3 DEF Start, AllDone, MonitorInv, MonitorTypeOK
    <2>8. LatestLives'
      BY <1>5, <2>7 DEF Start, LatestLives, Live, Monitors
    <2>9. ClosedWereMade' /\ stopChan + 1 \notin closed
      BY <1>0, <1>5 DEF Start, ClosedWereMade, MonitorInv, MonitorTypeOK
    <2>10. RunningIsLive'
      BY <1>0, <1>5, <2>7, <2>9 DEF Start, RunningIsLive, Live
    <2>11. QED
      BY <2>3, <2>5, <2>6, <2>8, <2>9, <2>10 DEF MonitorInv
  <1>6. CASE StopMemoryMonitoring(c)
    <2>1. Starting' = Starting
      BY <1>0, <1>6 DEF StopMemoryMonitoring, Starting
    <2>2. StartsBounded'
      BY <1>6, <2>1 DEF StartsBounded, StopMemoryMonitoring, MonitorInv
    <2>3. QED
      BY <1>6, <2>2, CallerMoves DEF StopMemoryMonitoring, CallerPlaces
  <1>7. CASE Stop(c)
    <2>1. running' = FALSE /\ closed' \subseteq Nat /\ \A x \in closed' : x <= stopChan
      BY <1>7, StopKeeps DEF Stop
    <2>2. Starting' = Starting
      BY <1>0, <1>7 DEF Stop, Starting
    <2>3. StartsBounded'
      BY <1>7, <2>2 DEF StartsBounded, Stop, MonitorInv
    <2>4. MonitorTypeOK'
      BY <1>7, <2>1 DEF MonitorInv, MonitorTypeOK, Stop, CallerPlaces
    <2>5. LatestLives' /\ ClosedWereMade' /\ LockOwned' /\ RunningIsLive'
      BY <1>0, <1>7, <2>1 DEF MonitorInv, Stop, LatestLives, ClosedWereMade, LockOwned, RunningIsLive
    <2>6. QED
      BY <2>3, <2>4, <2>5 DEF MonitorInv
  <1>8. QED
    BY <1>1, <1>2, <1>3, <1>4, <1>5, <1>6, <1>7 DEF CallerStep

\* Every step of a monitor goroutine keeps the invariant.
LEMMA MonitorKeeps ==
    ASSUME MonitorInv, NEW i \in Monitors, MonitorTick(i) \/ LoopStep(i)
    PROVE  MonitorInv'
  <1>1. CASE MonitorTick(i) \/ CheckMemory(i)
    BY <1>1, LoopMoves DEF MonitorTick, CheckMemory, At, Live, MonitorInv, MonitorTypeOK
  <1>2. CASE SeeStop(i)
    <2>1. ~running
      BY <1>2 DEF SeeStop, MonitorInv, RunningIsLive
    <2>2. QED
      BY <1>2, <2>1, LoopMoves DEF SeeStop, At, Live, MonitorInv, MonitorTypeOK
  <1>3. CASE CheckRunning(i)
    BY <1>3, LoopMoves DEF CheckRunning, At, Live, MonitorInv, MonitorTypeOK
  <1>4. CASE ReadLock(i) \/ ReadUnlock(i)
    BY <1>4, LoopMoves DEF ReadLock, ReadUnlock, At, Live, MonitorInv, MonitorTypeOK
  <1>5. CASE Callback(i) /\ UNCHANGED <<running, closed>>
    BY <1>5, LoopMoves DEF Callback, At, Live, MonitorInv, MonitorTypeOK
  <1>6. CASE Callback(i) /\ StopMonitor
    <2>1. running' = FALSE /\ closed' \subseteq Nat /\ \A x \in closed' : x <= stopChan
      BY <1>6, StopKeeps
    <2>2. MonitorTypeOK'
      BY <1>6, <2>1 DEF MonitorInv, MonitorTypeOK, Callback, At, Live
    <2>3. StartsBounded'
      BY <1>6 DEF StartsBounded, Starting, Callback, MonitorInv
    <2>4. LatestLives'
      BY <1>6 DEF MonitorInv, MonitorTypeOK, Callback, At, Live, LatestLives
    <2>5. ClosedWereMade' /\ LockOwned' /\ RunningIsLive'
      BY <1>6, <2>1 DEF MonitorInv, Callback, ClosedWereMade, LockOwned, RunningIsLive
    <2>6. QED
      BY <2>2, <2>3, <2>4, <2>5 DEF MonitorInv
  <1>7. QED
    BY <1>1, <1>2, <1>3, <1>4, <1>5, <1>6 DEF LoopStep, Callback

\* The invariant is inductive.
LEMMA MonitorInvStep == MonitorInv /\ [MonitorNext]_monitorVars => MonitorInv'
  <1>1. ASSUME MonitorInv, UNCHANGED monitorVars PROVE MonitorInv'
    BY <1>1 DEF monitorVars, MonitorInv, MonitorTypeOK, LatestLives, ClosedWereMade,
                LockOwned, StartsBounded, Starting, RunningIsLive
  <1>2. QED
    BY <1>1, CallerKeeps, MonitorKeeps DEF MonitorNext

\* There is never more than one monitor goroutine, for any number of goroutines that
\* call Start and Stop.
THEOREM AtMostOneMonitor == MonitorSpec => []OneMonitor
  <1>1. MonitorInv => OneMonitor
    <2> SUFFICES ASSUME MonitorInv PROVE OneMonitor
      OBVIOUS
    <2> DEFINE S == {i \in Monitors : loop[i] \in Live}
    <2>1. S \subseteq {stopChan}
      BY DEF MonitorInv, LatestLives
    <2>2. IsFiniteSet({stopChan}) /\ Cardinality({stopChan}) = 1
      BY FS_Singleton
    <2>3. Cardinality(S) <= 1
      BY <2>1, <2>2, FS_Subset
    <2>4. QED
      BY <2>3 DEF OneMonitor
  <1>2. QED
    BY <1>1, MonitorInvInit, MonitorInvStep, PTL DEF MonitorSpec

\* While the flag says that the monitor runs, its goroutine is there and its channel
\* is open: no late Stop ends a monitor that was started after it.
THEOREM RunningMeansLive == MonitorSpec => []RunningIsLive
  <1>1. MonitorInv => RunningIsLive
    BY DEF MonitorInv
  <1>2. QED
    BY <1>1, MonitorInvInit, MonitorInvStep, PTL DEF MonitorSpec

-----------------------------------------------------------------------------
(* Admission control.                                                      *)

WorkPlaces == {"idle", "admitted", "slot", "load", "swap", "inside", "leaving"}
Work == [at : WorkPlaces, kind : Kind, current : Nat, seen : Nat, body : Nat]

\* Where a worker has a place in the semaphore, and where it is counted.
Holding  == {"slot", "load", "swap", "inside", "leaving"}
Counting == {"load", "swap", "inside"}

InPlace(x, k, places) == x.kind = k /\ x.at \in places
OnlyMoves(f, g, w) == \A v \in Worker \ {w} : g[v] = f[v]
One(x, k, places) == IF InPlace(x, k, places) THEN 1 ELSE 0
Workers(f, k, places) == {w \in Worker : InPlace(f[w], k, places)}

AdmissionTypeOK ==
    /\ work \in [Worker -> Work]
    /\ semaphore \in [Kind -> Nat]
    /\ concurrent \in [Kind -> Nat]
    /\ highWater \in [Kind -> Nat]
    /\ bodies \in Nat

\* The channel has one element for each worker with a slot, and the counter counts
\* the workers between the two atomic additions: no slot leaks, none is given back twice.
SlotsAccounted ==
    \A k \in Kind :
        /\ semaphore[k] = Cardinality(Workers(work, k, Holding))
        /\ concurrent[k] = Cardinality(Workers(work, k, Counting))
        /\ semaphore[k] <= MaxConcurrent[k]

\* What a worker knows of the counter and of the high-water mark while it updates it.
MarksSound ==
    /\ \A k \in Kind : highWater[k] <= MaxConcurrent[k]
    /\ \A w \in Worker :
        /\ work[w].at \in Counting => work[w].current <= MaxConcurrent[work[w].kind]
        /\ work[w].at = "swap" => work[w].seen < work[w].current
        /\ work[w].at \in {"inside", "leaving"} => work[w].current <= highWater[work[w].kind]

AdmissionInv == AdmissionTypeOK /\ SlotsAccounted /\ MarksSound

\* Workers at some places are finitely many, and none is counted where none can be.
LEMMA WorkersFinite ==
    ASSUME NEW f, NEW k, NEW places
    PROVE  /\ IsFiniteSet(Workers(f, k, places))
           /\ Cardinality(Workers(f, k, places)) \in Nat
  <1>1. Workers(f, k, places) \subseteq Worker
    BY DEF Workers
  <1>2. QED
    BY <1>1, ProtectorAssumption, FS_Subset, FS_CardinalityType

\* When only w moves, the number of workers at some places changes by what w does.
LEMMA OneMoves ==
    ASSUME NEW f, NEW g, NEW w \in Worker, OnlyMoves(f, g, w),
           NEW k, NEW places
    PROVE  Cardinality(Workers(g, k, places)) =
              Cardinality(Workers(f, k, places))
              + One(g[w], k, places)
              - One(f[w], k, places)
  <1> DEFINE F == Workers(f, k, places)
             G == Workers(g, k, places)
  <1>1. IsFiniteSet(F) /\ IsFiniteSet(G) /\ Cardinality(F) \in Nat /\ Cardinality(G) \in Nat
    BY WorkersFinite
  <1>2. (w \in F <=> InPlace(f[w], k, places)) /\ (w \in G <=> InPlace(g[w], k, places))
    BY DEF Workers
  <1>3. F \ {w} = G \ {w}
    BY DEF Workers, InPlace, OnlyMoves
  <1> HIDE DEF F, G
  <1>4. CASE w \in F /\ w \in G
    <2>1. F = G
      BY <1>3, <1>4
    <2>2. QED
      BY <1>1, <1>2, <1>4, <2>1 DEF F, G, One
  <1>5. CASE w \in F /\ w \notin G
    <2>1. G = F \ {w}
      BY <1>3, <1>5
    <2>2. Cardinality(G) = Cardinality(F) - 1
      BY <1>1, <1>5, <2>1, FS_RemoveElement
    <2>3. QED
      BY <1>1, <1>2, <1>5, <2>2 DEF F, G, One
  <1>6. CASE w \notin F /\ w \in G
    <2>1. F = G \ {w}
      BY <1>3, <1>6
    <2>2. Cardinality(F) = Cardinality(G) - 1
      BY <1>1, <1>6, <2>1, FS_RemoveElement
    <2>3. QED
      BY <1>1, <1>2, <1>6, <2>2 DEF F, G, One
  <1>7. CASE w \notin F /\ w \notin G
    <2>1. F = G
      BY <1>3, <1>7
    <2>2. QED
      BY <1>1, <1>2, <1>7, <2>1 DEF F, G, One
  <1>8. QED
    BY <1>4, <1>5, <1>6, <1>7

\* The counter is raised after the slot is taken and lowered before it is given back.
LEMMA CountedHaveSlots ==
    ASSUME NEW f, NEW k
    PROVE  Cardinality(Workers(f, k, Counting)) <= Cardinality(Workers(f, k, Holding))
  <1>1. Workers(f, k, Counting) \subseteq Workers(f, k, Holding)
    BY DEF Workers, InPlace, Counting, Holding
  <1>2. QED
    BY <1>1, WorkersFinite, FS_Subset

\* The admission control starts with nobody inside.
LEMMA AdmissionInvInit == AdmissionInit => AdmissionInv
  <1> SUFFICES ASSUME AdmissionInit PROVE AdmissionInv
    OBVIOUS
  <1>1. Idle \in Work /\ Idle.at = "idle"
    BY DEF Idle, Work, WorkPlaces, Kind
  <1>2. AdmissionTypeOK
    BY <1>1 DEF AdmissionInit, AdmissionTypeOK, Kind
  <1>3. \A k \in Kind : Workers(work, k, Holding) = {} /\ Workers(work, k, Counting) = {}
    BY <1>1 DEF AdmissionInit, Workers, InPlace, Holding, Counting
  <1>4. SlotsAccounted
    BY <1>3, FS_EmptySet, ProtectorAssumption DEF AdmissionInit, SlotsAccounted
  <1>5. MarksSound
    BY <1>1, ProtectorAssumption DEF AdmissionInit, MarksSound, Counting
  <1>6. QED
    BY <1>2, <1>4, <1>5 DEF AdmissionInv

\* The accounts of a step in which one worker moves.
Balanced(w) ==
    \A k \in Kind :
        /\ semaphore'[k] = semaphore[k] + One(work'[w], k, Holding)
                                        - One(work[w], k, Holding)
        /\ concurrent'[k] = concurrent[k] + One(work'[w], k, Counting)
                                          - One(work[w], k, Counting)
        /\ semaphore'[k] <= MaxConcurrent[k]

\* Balanced steps keep the accounts, and nothing is counted below zero.
LEMMA BalancedStep ==
    ASSUME AdmissionTypeOK, SlotsAccounted, NEW w \in Worker,
           OnlyMoves(work, work', w), Balanced(w)
    PROVE  /\ SlotsAccounted'
           /\ \A k \in Kind : /\ semaphore'[k] \in Nat /\ concurrent'[k] \in Nat
                              /\ concurrent'[k] <= semaphore'[k]
  <1>1. ASSUME NEW k \in Kind
        PROVE  /\ semaphore'[k] = Cardinality(Workers(work', k, Holding))
               /\ concurrent'[k] = Cardinality(Workers(work', k, Counting))
    <2>1. /\ semaphore[k] = Cardinality(Workers(work, k, Holding))
          /\ concurrent[k] = Cardinality(Workers(work, k, Counting))
      BY DEF SlotsAccounted
    <2>2. Cardinality(Workers(work', k, Holding)) =
              Cardinality(Workers(work, k, Holding))
              + One(work'[w], k, Holding)
              - One(work[w], k, Holding)
      BY OneMoves
    <2>3. Cardinality(Workers(work', k, Counting)) =
              Cardinality(Workers(work, k, Counting))
              + One(work'[w], k, Counting)
              - One(work[w], k, Counting)
      BY OneMoves
    <2>4. QED
      BY <2>1, <2>2, <2>3 DEF Balanced
  <1>2. \A k \in Kind : /\ semaphore'[k] \in Nat /\ concurrent'[k] \in Nat
                        /\ concurrent'[k] <= semaphore'[k]
    BY <1>1, WorkersFinite, CountedHaveSlots
  <1>3. \A k \in Kind : Workers(work, k, Holding)' = Workers(work', k, Holding)
                        /\ Workers(work, k, Counting)' = Workers(work', k, Counting)
    BY DEF Workers, InPlace
  <1>4. QED
    BY <1>1, <1>2, <1>3 DEF SlotsAccounted, Balanced

\* Worker w gets the state y, the accounts stay balanced, the high-water marks only
\* rise, and what w knows of them is true.
MovesTo(w, y) ==
    /\ work' = [work EXCEPT ![w] = y]
    /\ Balanced(w)
    /\ semaphore' \in [Kind -> Int] /\ concurrent' \in [Kind -> Int]
    /\ highWater' \in [Kind -> Nat] /\ bodies' \in Nat
    /\ \A k \in Kind : highWater[k] <= highWater'[k] /\ highWater'[k] <= MaxConcurrent[k]
    /\ y.at \in Counting => y.current <= MaxConcurrent[y.kind]
    /\ y.at = "swap" => y.seen < y.current
    /\ y.at \in {"inside", "leaving"} => y.current <= highWater'[y.kind]

\* A worker that moves and takes its counts along keeps the invariant.
LEMMA WorkerMoves ==
    ASSUME AdmissionInv, NEW w \in Worker, NEW y \in Work, MovesTo(w, y)
    PROVE  AdmissionInv'
  <1> USE DEF AdmissionInv, MovesTo
  <1>1. /\ work'[w] = y /\ \A v \in Worker \ {w} : work'[v] = work[v]
        /\ \A v \in Worker : work[v] \in Work
    BY DEF AdmissionTypeOK
  <1>2. SlotsAccounted' /\ \A k \in Kind : semaphore'[k] \in Nat /\ concurrent'[k] \in Nat
    BY <1>1, BalancedStep DEF OnlyMoves
  <1>3. AdmissionTypeOK'
    BY <1>2 DEF AdmissionTypeOK
  <1>4. ASSUME NEW v \in Worker
        PROVE  /\ work'[v].at \in Counting => work'[v].current <= MaxConcurrent[work'[v].kind]
               /\ work'[v].at = "swap" => work'[v].seen < work'[v].current
               /\ work'[v].at \in {"inside", "leaving"} =>
                     work'[v].current <= highWater'[work'[v].kind]
    <2>1. CASE v = w
      BY <1>1, <2>1
    <2>2. CASE v # w
      <3>1. work'[v] = work[v] /\ work[v].kind \in Kind /\ work[v].current \in Nat
        BY <1>1, <2>2 DEF Work
      <3>2. highWater[work[v].kind] \in Nat /\ highWater'[work[v].kind] \in Nat
        BY <3>1 DEF AdmissionTypeOK
      <3>3. QED
        BY <3>1, <3>2 DEF MarksSound
    <2>3. QED
      BY <2>1, <2>2
  <1>5. MarksSound'
    BY <1>4 DEF MarksSound
  <1>6. QED
    BY <1>2, <1>3, <1>5

\* Every step of a worker keeps the invariant.
LEMMA WorkerKeeps ==
    ASSUME AdmissionInv, NEW w \in Worker,
           (\E k \in Kind : Admit(w, k)) \/ Cancelled(w) \/ ReleaseBatch(w) \/ Step(w)
    PROVE  AdmissionInv'
  <1> DEFINE x == work[w]
             k == x.kind
  <1>1. /\ x \in Work /\ k \in Kind /\ x.current \in Nat /\ x.seen \in Nat /\ x.body \in Nat
        /\ x.at \in WorkPlaces
    BY DEF AdmissionInv, AdmissionTypeOK, Work
  <1>2. /\ semaphore \in [Kind -> Nat] /\ concurrent \in [Kind -> Nat]
        /\ highWater \in [Kind -> Nat] /\ bodies \in Nat
        /\ MaxConcurrent \in [Kind -> Nat]
        /\ work \in [Worker -> Work]
    BY ProtectorAssumption DEF AdmissionInv, AdmissionTypeOK
  <1>3. \A j \in Kind : /\ semaphore[j] <= MaxConcurrent[j]
                        /\ concurrent[j] <= semaphore[j]
                        /\ highWater[j] <= MaxConcurrent[j]
    BY CountedHaveSlots DEF AdmissionInv, SlotsAccounted, MarksSound
  <1>4. /\ x.at \in Counting => x.current <= MaxConcurrent[k]
        /\ x.at = "swap" => x.seen < x.current
        /\ x.at \in {"inside", "leaving"} => x.current <= highWater[k]
    BY DEF AdmissionInv, MarksSound
  <1>5. Idle \in Work /\ Idle.at = "idle"
    BY DEF Idle, Work, WorkPlaces, Kind
  <1>. USE DEF InPlace, One, Holding, Counting
  <1>6. ASSUME NEW j \in Kind, Admit(w, j) PROVE AdmissionInv'
    <2> DEFINE y == [Idle EXCEPT !.at = "admitted", !.kind = j]
    <2>1. y \in Work /\ y.at = "admitted"
      BY DEF Idle, Work, WorkPlaces
    <2>2. work' = [work EXCEPT ![w] = y] /\ x.at = "idle"
          /\ UNCHANGED <<semaphore, concurrent, highWater, bodies>>
      BY <1>6 DEF Admit
    <2> HIDE DEF y
    <2>3. Balanced(w)
      BY <1>2, <1>3, <2>1, <2>2 DEF Balanced
    <2>4. MovesTo(w, y)
      BY <1>2, <1>3, <2>1, <2>2, <2>3 DEF MovesTo
    <2>5. QED
      BY <2>1, <2>4, WorkerMoves
  <1>7. CASE Cancelled(w)
    <2>1. work' = [work EXCEPT ![w] = Idle] /\ x.at = "admitted"
          /\ UNCHANGED <<semaphore, concurrent, highWater, bodies>>
      BY <1>7 DEF Cancelled
    <2>2. Balanced(w)
      BY <1>2, <1>3, <1>5, <2>1 DEF Balanced
    <2>3. MovesTo(w, Idle)
      BY <1>2, <1>3, <1>5, <2>1, <2>2 DEF MovesTo
    <2>4. QED
      BY <1>5, <2>3, WorkerMoves
  <1>8. CASE TakeSlot(w) /\ semaphore[k] < MaxConcurrent[k]
    <2> DEFINE y == [x EXCEPT !.at = "slot"]
    <2>1. y \in Work /\ y.at = "slot" /\ y.kind = k
      BY <1>1 DEF Work, WorkPlaces
    <2>2. /\ work' = [work EXCEPT ![w] = y] /\ x.at = "admitted"
          /\ semaphore' = [semaphore EXCEPT ![k] = semaphore[k] + 1]
          /\ UNCHANGED <<concurrent, highWater, bodies>>
      BY <1>8 DEF TakeSlot, Go
    <2> HIDE DEF y
    <2>3. semaphore' \in [Kind -> Nat]
      BY <1>1, <1>2, <2>2
    <2>4. Balanced(w)
      BY <1>1, <1>2, <1>3, <1>8, <2>1, <2>2 DEF Balanced
    <2>5. MovesTo(w, y)
      BY <1>2, <1>3, <2>1, <2>2, <2>3, <2>4 DEF MovesTo
    <2>6. QED
      BY <2>1, <2>5, WorkerMoves
  <1>9. CASE TakeSlot(w) /\ ~(semaphore[k] < MaxConcurrent[k])
    <2>1. work' = [work EXCEPT ![w] = Idle] /\ x.at = "admitted"
          /\ UNCHANGED <<semaphore, concurrent, highWater, bodies>>
      BY <1>9 DEF TakeSlot
    <2>2. Balanced(w)
      BY <1>2, <1>3, <1>5, <2>1 DEF Balanced
    <2>3. MovesTo(w, Idle)
      BY <1>2, <1>3, <1>5, <2>1, <2>2 DEF MovesTo
    <2>4. QED
      BY <1>5, <2>3, WorkerMoves
  <1>10. CASE Count(w)
    <2> DEFINE y == [x EXCEPT !.at = "load", !.current = concurrent[k] + 1]
    <2>0. concurrent[k] + 1 \in Nat
      BY <1>1, <1>2
    <2>1. /\ y \in Work /\ y.at = "load" /\ y.kind = k /\ y.current = concurrent[k] + 1
      BY <1>1, <2>0 DEF Work, WorkPlaces
    <2>2. /\ work' = [work EXCEPT ![w] = y] /\ x.at = "slot"
          /\ concurrent' = [concurrent EXCEPT ![k] = concurrent[k] + 1]
          /\ UNCHANGED <<semaphore, highWater, bodies>>
      BY <1>10 DEF Count
    <2> HIDE DEF y
    <2>3. concurrent' \in [Kind -> Nat]
      BY <1>1, <1>2, <2>2
    <2>4. Balanced(w)
      BY <1>1, <1>2, <1>3, <2>1, <2>2 DEF Balanced
    <2>5. concurrent'[k] <= semaphore'[k]
      <3>1. OnlyMoves(work, work', w)
        BY <1>2, <2>2 DEF OnlyMoves
      <3>2. QED
        BY <1>1, <2>4, <3>1, BalancedStep DEF AdmissionInv
    <2>6. y.current <= MaxConcurrent[y.kind]
      BY <1>1, <1>2, <1>3, <2>1, <2>2, <2>5
    <2>7. MovesTo(w, y)
      BY <1>2, <1>3, <2>1, <2>2, <2>3, <2>4, <2>6 DEF MovesTo
    <2>8. QED
      BY <2>1, <2>7, WorkerMoves
  <1>11. CASE LoadHighWater(w)
    <2> DEFINE y == [x EXCEPT !.seen = highWater[k],
                              !.at = IF x.current <= highWater[k] THEN "inside" ELSE "swap"]
    <2>1. /\ y \in Work /\ y.kind = k /\ y.current = x.current /\ y.seen = highWater[k]
          /\ y.at = IF x.current <= highWater[k] THEN "inside" ELSE "swap"
      BY <1>1, <1>2 DEF Work, WorkPlaces
    <2>2. /\ work' = [work EXCEPT ![w] = y] /\ x.at = "load"
          /\ UNCHANGED <<semaphore, concurrent, highWater, bodies>>
      BY <1>11 DEF LoadHighWater
    <2> HIDE DEF y
    <2>3. Balanced(w)
      BY <1>1, <1>2, <1>3, <2>1, <2>2 DEF Balanced
    <2>4. /\ y.at \in Counting => y.current <= MaxConcurrent[y.kind]
          /\ y.at = "swap" => y.seen < y.current
          /\ y.at \in {"inside", "leaving"} => y.current <= highWater'[y.kind]
      BY <1>1, <1>2, <1>4, <2>1, <2>2
    <2>5. MovesTo(w, y)
      BY <1>2, <1>3, <2>1, <2>2, <2>3, <2>4 DEF MovesTo
    <2>6. QED
      BY <2>1, <2>5, WorkerMoves
  <1>12. CASE SwapHighWater(w) /\ highWater[k] = x.seen
    <2> DEFINE y == [x EXCEPT !.at = "inside"]
    <2>1. y \in Work /\ y.kind = k /\ y.current = x.current /\ y.at = "inside"
      BY <1>1 DEF Work, WorkPlaces
    <2>2. /\ work' = [work EXCEPT ![w] = y] /\ x.at = "swap"
          /\ highWater' = [highWater EXCEPT ![k] = x.current]
          /\ UNCHANGED <<semaphore, concurrent, bodies>>
      BY <1>12 DEF SwapHighWater, Go
    <2> HIDE DEF y
    <2>3. Balanced(w)
      BY <1>1, <1>2, <1>3, <2>1, <2>2 DEF Balanced
    <2>4. /\ highWater' \in [Kind -> Nat]
          /\ \A j \in Kind : highWater[j] <= highWater'[j] /\ highWater'[j] <= MaxConcurrent[j]
      BY <1>1, <1>2, <1>3, <1>4, <1>12, <2>2
    <2>5. y.current <= highWater'[y.kind] /\ y.current <= MaxConcurrent[y.kind]
      BY <1>1, <1>2, <1>4, <2>1, <2>2
    <2>6. MovesTo(w, y)
      BY <1>2, <1>3, <2>1, <2>2, <2>3, <2>4, <2>5 DEF MovesTo
    <2>7. QED
      BY <2>1, <2>6, WorkerMoves
  <1>13. CASE SwapHighWater(w) /\ highWater[k] # x.seen
    <2> DEFINE y == [x EXCEPT !.at = "load"]
    <2>1. y \in Work /\ y.kind = k /\ y.current = x.current /\ y.at = "load"
      BY <1>1 DEF Work, WorkPlaces
    <2>2. /\ work' = [work EXCEPT ![w] = y] /\ x.at = "swap"
          /\ UNCHANGED <<semaphore, concurrent, highWater, bodies>>
      BY <1>13 DEF SwapHighWater, Go
    <2> HIDE DEF y
    <2>3. Balanced(w)
      BY <1>1, <1>2, <1>3, <2>1, <2>2 DEF Balanced
    <2>4. y.current <= MaxConcurrent[y.kind]
      BY <1>4, <2>1, <2>2
    <2>5. MovesTo(w, y)
      BY <1>2, <1>3, <2>1, <2>2, <2>3, <2>4 DEF MovesTo
    <2>6. QED
      BY <2>1, <2>5, WorkerMoves
  <1>14. CASE StartReader(w)
    <2> DEFINE y == [x EXCEPT !.body = bodies + 1]
    <2>1. y \in Work /\ y.kind = k /\ y.current = x.current /\ y.at = x.at
      BY <1>1, <1>2 DEF Work, WorkPlaces
    <2>2. /\ work' = [work EXCEPT ![w] = y] /\ x.at = "inside"
          /\ bodies' = bodies + 1
          /\ UNCHANGED <<semaphore, concurrent, highWater>>
      BY <1>14 DEF StartReader
    <2> HIDE DEF y
    <2>3. Balanced(w)
      BY <1>1, <1>2, <1>3, <2>1, <2>2 DEF Balanced
    <2>4. y.current <= highWater'[y.kind] /\ y.current <= MaxConcurrent[y.kind]
      BY <1>4, <2>1, <2>2
    <2>5. MovesTo(w, y)
      BY <1>2, <1>3, <2>1, <2>2, <2>3, <2>4 DEF MovesTo
    <2>6. QED
      BY <2>1, <2>5, WorkerMoves
  <1>15. CASE BodyDone(w) \/ BodyTimeout(w) \/ ReleaseBatch(w)
    <2> DEFINE y == [x EXCEPT !.at = "leaving"]
    <2>1. y \in Work /\ y.kind = k /\ y.current = x.current /\ y.at = "leaving"
      BY <1>1 DEF Work, WorkPlaces
    <2>2. /\ work' = [work EXCEPT ![w] = y] /\ x.at = "inside"
          /\ concurrent' = [concurrent EXCEPT ![k] = concurrent[k] - 1]
          /\ UNCHANGED <<semaphore, highWater, bodies>>
      BY <1>15 DEF BodyDone, BodyTimeout, ReleaseBatch, Leave, Go
    <2> HIDE DEF y
    <2>3. concurrent' \in [Kind -> Int]
      BY <1>1, <1>2, <2>2
    <2>4. Balanced(w)
      BY <1>1, <1>2, <1>3, <2>1, <2>2 DEF Balanced
    <2>5. y.current <= highWater'[y.kind]
      BY <1>4, <2>1, <2>2
    <2>6. MovesTo(w, y)
      BY <1>2, <1>3, <2>1, <2>2, <2>3, <2>4, <2>5 DEF MovesTo
    <2>7. QED
      BY <2>1, <2>6, WorkerMoves
  <1>16. CASE FreeSlot(w)
    <2>1. /\ work' = [work EXCEPT ![w] = Idle] /\ x.at = "leaving"
          /\ semaphore' = [semaphore EXCEPT ![k] = semaphore[k] - 1]
          /\ UNCHANGED <<concurrent, highWater, bodies>>
      BY <1>16 DEF FreeSlot
    <2>2. semaphore' \in [Kind -> Int]
      BY <1>1, <1>2, <2>1
    <2>3. Balanced(w)
      BY <1>1, <1>2, <1>3, <1>5, <2>1 DEF Balanced
    <2>4. MovesTo(w, Idle)
      BY <1>2, <1>3, <1>5, <2>1, <2>2, <2>3 DEF MovesTo
    <2>5. QED
      BY <1>5, <2>4, WorkerMoves
  <1>17. QED
    BY <1>6, <1>7, <1>8, <1>9, <1>10, <1>11, <1>12, <1>13, <1>14, <1>15, <1>16 DEF Step

\* The invariant is inductive.
LEMMA AdmissionInvStep == AdmissionInv /\ [AdmissionNext]_admissionVars => AdmissionInv'
  <1>1. ASSUME AdmissionInv, NEW b \in reading, FinishReader(b) PROVE AdmissionInv'
    BY <1>1 DEF FinishReader, AdmissionInv, AdmissionTypeOK, SlotsAccounted, MarksSound,
                Workers, InPlace
  <1>2. ASSUME AdmissionInv, UNCHANGED admissionVars PROVE AdmissionInv'
    BY <1>2 DEF admissionVars, AdmissionInv, AdmissionTypeOK, SlotsAccounted, MarksSound,
                Workers, InPlace
  <1>3. QED
    BY <1>1, <1>2, WorkerKeeps DEF AdmissionNext

\* The semaphore has one element for each operation that took a slot and has not given
\* it back, on every path out of SecureBodyReader and AcquireBatch, for any number of
\* goroutines: slots neither leak nor are they given back twice.
THEOREM SlotsConserved == AdmissionSpec => []SlotsAccounted
  <1>1. AdmissionInv => SlotsAccounted
    BY DEF AdmissionInv
  <1>2. QED
    BY <1>1, AdmissionInvInit, AdmissionInvStep, PTL DEF AdmissionSpec

\* The counter and the high-water mark stay within what the semaphore admits, for any
\* number of goroutines and any limits.
THEOREM WithinLimit == AdmissionSpec => []ReportedWithinLimit
  <1>1. AdmissionInv => ReportedWithinLimit
    <2> SUFFICES ASSUME AdmissionInv, NEW k \in Kind
                 PROVE  concurrent[k] <= MaxConcurrent[k] /\ highWater[k] <= MaxConcurrent[k]
      BY DEF ReportedWithinLimit
    <2>1. /\ concurrent[k] <= semaphore[k] /\ semaphore[k] <= MaxConcurrent[k]
          /\ concurrent[k] \in Nat /\ semaphore[k] \in Nat /\ MaxConcurrent[k] \in Nat
      BY CountedHaveSlots, ProtectorAssumption
         DEF AdmissionInv, SlotsAccounted, AdmissionTypeOK
    <2>2. QED
      BY <2>1 DEF AdmissionInv, MarksSound
  <1>2. QED
    BY <1>1, AdmissionInvInit, AdmissionInvStep, PTL DEF AdmissionSpec

\* No update of the high-water mark is lost in the compare-and-swap loop.
THEOREM MarkCovers == AdmissionSpec => []HighWaterCovers
  <1>1. AdmissionInv => HighWaterCovers
    BY DEF AdmissionInv, MarksSound, HighWaterCovers
  <1>2. QED
    BY <1>1, AdmissionInvInit, AdmissionInvStep, PTL DEF AdmissionSpec

-----------------------------------------------------------------------------
(* The rate limiter: division.                                             *)

\* Integer division.
LEMMA DivDef ==
    ASSUME NEW x \in Nat, NEW r \in Nat \ {0}
    PROVE  /\ x \div r \in Nat
           /\ r * (x \div r) <= x
           /\ x < r * (x \div r) + r
  OBVIOUS

\* A product that stays below another has a smaller factor.
LEMMA FactorBelow ==
    ASSUME NEW p \in Int, NEW q \in Int, NEW r \in Nat \ {0}, r * p < r * q + r
    PROVE  p <= q
  <1>1. SUFFICES ASSUME p >= q + 1 PROVE FALSE
    OBVIOUS
  <1>2. PICK d \in Nat : p = q + 1 + d
    <2>1. p - q - 1 \in Nat /\ p = q + 1 + (p - q - 1)
      BY <1>1
    <2>2. QED
      BY <2>1
  <1>3. r * p = r * q + r + r * d /\ r * d \in Nat /\ r * q \in Int
    BY <1>2
  <1>4. QED
    BY <1>3

\* Splitting an interval never gains a token.
LEMMA DivSplit ==
    ASSUME NEW x \in Nat, NEW y \in Nat, NEW r \in Nat \ {0}
    PROVE  x \div r + y \div r <= (x + y) \div r
  <1> DEFINE p == x \div r
             q == y \div r
             s == (x + y) \div r
  <1>1. p \in Nat /\ q \in Nat /\ s \in Nat
    BY DivDef
  <1>2. r * p <= x /\ r * q <= y /\ x + y < r * s + r
    BY DivDef
  <1>3. r * (p + q) = r * p + r * q /\ r * p \in Int /\ r * q \in Int /\ r * s \in Int
    BY <1>1
  <1>4. r * (p + q) < r * s + r
    BY <1>2, <1>3
  <1> HIDE DEF p, q, s
  <1>5. p + q <= s
    BY <1>1, <1>4, FactorBelow
  <1>6. QED
    BY <1>5 DEF p, q, s

\* Less than one interval more is worth at most one token more.
LEMMA DivCarry ==
    ASSUME NEW x \in Nat, NEW y \in Nat, NEW r \in Nat \ {0}, y < r
    PROVE  (x + y) \div r <= x \div r + 1
  <1> DEFINE p == x \div r
             s == (x + y) \div r
  <1>1. p \in Nat /\ s \in Nat
    BY DivDef
  <1>2. r * s <= x + y /\ x < r * p + r
    BY DivDef
  <1>3. r * (p + 1) = r * p + r /\ r * p \in Int /\ r * s \in Int
    BY <1>1
  <1>4. r * s < r * (p + 1) + r
    BY <1>2, <1>3
  <1> HIDE DEF p, s
  <1>5. s <= p + 1
    BY <1>1, <1>4, FactorBelow
  <1>6. QED
    BY <1>5 DEF p, s

\* A quotient is 0 below the divisor.
LEMMA DivZero ==
    ASSUME NEW x \in Nat, NEW r \in Nat \ {0}
    PROVE  (x \div r = 0) <=> (x < r)
  <1>1. CASE x < r
    <2>1. r * (x \div r) < r * 0 + r /\ x \div r \in Nat
      BY <1>1, DivDef
    <2>2. x \div r <= 0
      BY <2>1, FactorBelow
    <2>3. QED
      BY <1>1, <2>1, <2>2
  <1>2. CASE x >= r
    <2>1. x \div r # 0
      BY <1>2, DivDef
    <2>2. QED
      BY <1>2, <2>1
  <1>3. QED
    BY <1>1, <1>2

-----------------------------------------------------------------------------
(* The bucket.                                                             *)

\* The bucket starts full.
LEMMA InitLInv == Init => LInv
  <1> SUFFICES ASSUME Init PROVE LInv
    OBVIOUS
  <1>1. TypeOK
    BY LimiterAssumption DEF Init, TypeOK
  <1>2. 0 \div RefillRate = 0
    BY LimiterAssumption, DivZero
  <1>3. WindowBudget
    BY <1>2, LimiterAssumption DEF Init, WindowBudget, Since
  <1>4. EmptiedSinceRefill
    BY LimiterAssumption DEF Init, EmptiedSinceRefill
  <1>5. QED
    BY <1>1, <1>3, <1>4 DEF LInv

\* What Allow computes.
LEMMA RefillFacts ==
    ASSUME TypeOK
    PROVE  /\ clock \in Nat /\ lastRefill \in Nat /\ lastRefill <= clock
           /\ TokensToAdd \in Nat
           /\ TokensToAdd = 0 <=> clock - lastRefill < RefillRate
           /\ Refilled \in 0 .. MaxTokens
           /\ Refilled <= tokens + TokensToAdd
           /\ TokensToAdd > 0 => Refilled > 0
           /\ TokensToAdd = 0 => Refilled = tokens
           /\ RefillTime \in 0 .. clock
  <1>1. clock \in Nat /\ lastRefill \in Nat /\ lastRefill <= clock /\ clock - lastRefill \in Nat
    BY LimiterAssumption DEF TypeOK
  <1>2. TokensToAdd \in Nat /\ (TokensToAdd = 0 <=> clock - lastRefill < RefillRate)
    BY <1>1, LimiterAssumption, DivDef, DivZero DEF TokensToAdd
  <1>3. tokens \in Nat /\ tokens <= MaxTokens /\ MaxTokens \in Nat \ {0}
    BY LimiterAssumption DEF TypeOK
  <1>4. QED
    BY <1>1, <1>2, <1>3 DEF Refilled, RefillTime

\* The budget of one window across a call.
LEMMA AllowBudget ==
    ASSUME TypeOK, WindowBudget, NEW a \in 0 .. clock
    PROVE  /\ RefillTime >= a =>
                 Since(a) + Refilled <= MaxTokens + (RefillTime - a) \div RefillRate + 1
           /\ RefillTime < a => Since(a) + Refilled <= MaxTokens
           /\ RefillTime < a => a - RefillTime < RefillRate \/ Refilled = 0 \/ TokensToAdd = 0
  <1> DEFINE S == Since(a)
  <1>1. /\ clock \in Nat /\ lastRefill \in Nat /\ lastRefill <= clock /\ a \in Nat /\ a <= clock
        /\ MaxTokens \in Nat /\ RefillRate \in Nat \ {0} /\ tokens \in 0 .. MaxTokens
        /\ S \in Int
    BY RefillFacts, LimiterAssumption DEF TypeOK, Since
  <1>2. /\ TokensToAdd \in Nat /\ Refilled \in 0 .. MaxTokens
        /\ Refilled <= tokens + TokensToAdd
        /\ TokensToAdd = 0 => Refilled = tokens
    BY RefillFacts
  <1>3. /\ S >= 0
        /\ lastRefill >= a => S + tokens <= MaxTokens + (lastRefill - a) \div RefillRate + 1
        /\ lastRefill < a => S + tokens <= MaxTokens /\ (S > 0 => a - lastRefill < RefillRate)
    BY DEF WindowBudget
  <1> HIDE DEF S
  <1>4. CASE TokensToAdd = 0
    <2>1. RefillTime = lastRefill /\ Refilled = tokens
      BY <1>2, <1>4 DEF RefillTime
    <2>2. QED
      BY <1>3, <1>4, <2>1 DEF S
  <1>5. CASE TokensToAdd > 0
    <2>1. RefillTime = clock
      BY <1>5 DEF RefillTime
    <2>2. (clock - a) \div RefillRate \in Nat
      BY <1>1, DivDef
    <2>3. CASE lastRefill >= a
      <3> DEFINE p == (lastRefill - a) \div RefillRate
                 q == (clock - lastRefill) \div RefillRate
                 s == (clock - a) \div RefillRate
      <3>1. p + q <= s
        <4>1. lastRefill - a \in Nat /\ clock - lastRefill \in Nat
          BY <1>1, <2>3
        <4>2. (lastRefill - a) + (clock - lastRefill) = clock - a
          BY <1>1
        <4>3. QED
          BY <1>1, <4>1, <4>2, DivSplit
      <3>2. p \in Nat /\ q \in Nat /\ s \in Nat
        BY <1>1, <2>3, DivDef
      <3>3. TokensToAdd = q
        BY DEF TokensToAdd
      <3>4. S + tokens <= MaxTokens + p + 1
        BY <1>3, <2>3
      <3> HIDE DEF p, q, s
      <3>5. S + Refilled <= MaxTokens + s + 1
        BY <1>1, <1>2, <3>1, <3>2, <3>3, <3>4
      <3>6. QED
        BY <1>1, <2>1, <3>5 DEF S, s
    <2>4. CASE lastRefill < a /\ S > 0
      <3> DEFINE q == (clock - lastRefill) \div RefillRate
                 s == (clock - a) \div RefillRate
      <3>1. q <= s + 1
        <4>1. clock - a \in Nat /\ a - lastRefill \in Nat /\ a - lastRefill < RefillRate
          BY <1>1, <1>3, <2>4
        <4>2. (clock - a) + (a - lastRefill) = clock - lastRefill
          BY <1>1
        <4>3. QED
          BY <1>1, <4>1, <4>2, DivCarry
      <3>2. q \in Nat /\ s \in Nat
        BY <1>1, DivDef
      <3>3. TokensToAdd = q
        BY DEF TokensToAdd
      <3> HIDE DEF q, s
      <3>4. S + Refilled <= MaxTokens + s + 1
        BY <1>1, <1>2, <1>3, <2>4, <3>1, <3>2, <3>3
      <3>5. QED
        BY <1>1, <2>1, <3>4 DEF S, s
    <2>5. CASE lastRefill < a /\ S = 0
      BY <1>1, <1>2, <2>1, <2>2, <2>5 DEF S
    <2>6. QED
      BY <1>1, <1>3, <2>3, <2>4, <2>5
  <1>6. QED
    BY <1>2, <1>4, <1>5

\* Every step keeps the budget.
LEMMA NextLInv == LInv /\ [Next]_vars => LInv'
  <1> SUFFICES ASSUME LInv, [Next]_vars PROVE LInv'
    OBVIOUS
  <1> TypeOK /\ WindowBudget /\ EmptiedSinceRefill
    BY DEF LInv
  <1>1. CASE Allow
    <2>1. /\ clock' = clock /\ allowedAt' = allowedAt /\ lastRefill' = RefillTime
          /\ \/ /\ Refilled > 0 /\ tokens' = Refilled - 1 /\ allowed' = allowed + 1
                /\ lastAllowed' = clock /\ lastRefused' = lastRefused
             \/ /\ Refilled = 0 /\ tokens' = Refilled /\ allowed' = allowed
                /\ lastAllowed' = lastAllowed /\ lastRefused' = clock
      BY <1>1, RefillFacts DEF Allow
    <2>2. TypeOK'
      <3>1. tokens' \in 0 .. MaxTokens /\ lastRefill' \in 0 .. clock'
        BY <2>1, RefillFacts, LimiterAssumption
      <3>2. allowed' \in Nat
        BY <2>1 DEF TypeOK
      <3>3. lastAllowed' \in -1 .. clock' /\ lastRefused' \in -1 .. clock'
        BY <2>1, RefillFacts DEF TypeOK
      <3>4. QED
        BY <2>1, <3>1, <3>2, <3>3 DEF TypeOK
    <2>3. EmptiedSinceRefill'
      BY <2>1, RefillFacts DEF EmptiedSinceRefill, RefillTime, TypeOK
    <2>4. ASSUME NEW a \in 0 .. clock
          PROVE  /\ Since(a)' >= 0
                 /\ lastRefill' >= a =>
                       Since(a)' + tokens' <= MaxTokens + (lastRefill' - a) \div RefillRate + 1
                 /\ lastRefill' < a =>
                       /\ Since(a)' + tokens' <= MaxTokens
                       /\ Since(a)' > 0 => a - lastRefill' < RefillRate
      <3>1. allowedAt[a] \in Nat /\ allowed \in Nat /\ Since(a) >= 0
        BY LimiterAssumption DEF TypeOK, WindowBudget, Since
      <3>2. Since(a)' \in Int /\ Since(a) \in Int /\ Since(a)' >= Since(a)
            /\ Since(a)' + tokens' = Since(a) + Refilled
        BY <2>1, <3>1, RefillFacts DEF Since
      <3>3. lastRefill' >= a =>
                       Since(a)' + tokens' <= MaxTokens + (lastRefill' - a) \div RefillRate + 1
        BY <2>1, <3>2, AllowBudget
      <3>4. lastRefill' < a => Since(a)' + tokens' <= MaxTokens
        BY <2>1, <3>2, AllowBudget
      <3>5. ASSUME lastRefill' < a PROVE a - lastRefill' < RefillRate
        <4>1. TokensToAdd = 0 /\ RefillTime = lastRefill
          BY <2>1, <3>5, RefillFacts DEF RefillTime
        <4>2. clock - lastRefill < RefillRate
          BY <4>1, RefillFacts
        <4>3. QED
          BY <2>1, <4>1, <4>2, RefillFacts, LimiterAssumption
      <3>6. QED
        BY <3>1, <3>2, <3>3, <3>4, <3>5
    <2>5. WindowBudget'
      BY <2>1, <2>4 DEF WindowBudget
    <2>6. QED
      BY <2>2, <2>3, <2>5 DEF LInv
  <1>2. CASE Tick
    <2>1. /\ clock' = clock + 1 /\ clock < MaxClock
          /\ allowedAt' = [allowedAt EXCEPT ![clock + 1] = allowed]
          /\ UNCHANGED <<tokens, lastRefill, allowed, lastAllowed, lastRefused>>
      BY <1>2 DEF Tick
    <2>2. TypeOK'
      BY <2>1, LimiterAssumption DEF TypeOK
    <2>3. EmptiedSinceRefill'
      BY <2>1 DEF EmptiedSinceRefill
    <2>4. \A a \in 0 .. clock : Since(a)' = Since(a)
      BY <2>1, LimiterAssumption DEF Since, TypeOK
    <2>5. \A a \in 0 .. MaxClock : a = clock + 1 => Since(a)' = 0
      BY <2>1, LimiterAssumption DEF Since, TypeOK
    <2>6. \A a \in 0 .. clock' : a \in 0 .. clock \/ (a = clock + 1 /\ a \in 0 .. MaxClock /\ lastRefill' < a)
      BY <2>1, LimiterAssumption DEF TypeOK
    <2>7. tokens \in 0 .. MaxTokens /\ MaxTokens \in Nat
      BY LimiterAssumption DEF TypeOK
    <2>8. WindowBudget'
      <3> SUFFICES ASSUME NEW a \in 0 .. clock'
                   PROVE  /\ Since(a)' >= 0
                          /\ lastRefill' >= a => Since(a)' + tokens' <=
                                MaxTokens + (lastRefill' - a) \div RefillRate + 1
                          /\ lastRefill' < a =>
                                /\ Since(a)' + tokens' <= MaxTokens
                                /\ Since(a)' > 0 => a - lastRefill' < RefillRate
        BY DEF WindowBudget
      <3>1. CASE a \in 0 .. clock
        BY <2>1, <2>4, <3>1 DEF WindowBudget
      <3>2. CASE a = clock + 1 /\ a \in 0 .. MaxClock /\ lastRefill' < a
        <4>1. Since(a)' = 0 /\ tokens' \in 0 .. MaxTokens
          BY <2>1, <2>5, <2>7, <3>2
        <4>2. lastRefill' \in Nat /\ a \in Nat
          BY <2>1, LimiterAssumption DEF TypeOK
        <4>3. QED
          BY <2>7, <3>2, <4>1, <4>2
      <3>3. QED
        BY <2>6, <3>1, <3>2
    <2>9. QED
      BY <2>2, <2>3, <2>8 DEF LInv
  <1>3. CASE UNCHANGED vars
    BY <1>3 DEF vars, LInv, TypeOK, WindowBudget, Since, EmptiedSinceRefill
  <1>4. QED
    BY <1>1, <1>2, <1>3 DEF Next

\* The limiter keeps its rate in every window of time.
THEOREM RateKept == Spec => []WindowBound
  <1>1. ASSUME LInv, NEW a \in 0 .. clock
        PROVE  allowed - allowedAt[a] <= MaxTokens + (clock - a) \div RefillRate + 1
    <2>1. /\ clock \in Nat /\ a \in Nat /\ a <= clock /\ MaxTokens \in Nat
          /\ tokens \in Nat /\ RefillRate \in Nat \ {0}
          /\ lastRefill \in Nat /\ lastRefill <= clock /\ Since(a) \in Int
      BY <1>1, LimiterAssumption DEF LInv, TypeOK, Since
    <2>2. (clock - a) \div RefillRate \in Nat
      BY <2>1, DivDef
    <2>3. CASE lastRefill >= a
      <3> DEFINE p == (lastRefill - a) \div RefillRate
                 q == (clock - lastRefill) \div RefillRate
                 s == (clock - a) \div RefillRate
      <3>1. p + q <= s
        <4>1. lastRefill - a \in Nat /\ clock - lastRefill \in Nat
          BY <2>1, <2>3
        <4>2. (lastRefill - a) + (clock - lastRefill) = clock - a
          BY <2>1
        <4>3. QED
          BY <2>1, <4>1, <4>2, DivSplit
      <3>2. p \in Nat /\ q \in Nat /\ s \in Nat
        BY <2>1, <2>3, DivDef
      <3>3. Since(a) + tokens <= MaxTokens + p + 1
        BY <1>1, <2>3 DEF LInv, WindowBudget
      <3> HIDE DEF p, q, s
      <3>4. Since(a) <= MaxTokens + s + 1
        BY <2>1, <3>1, <3>2, <3>3
      <3>5. QED
        BY <3>4 DEF s, Since
    <2>4. CASE lastRefill < a
      <3>1. Since(a) + tokens <= MaxTokens
        BY <1>1, <2>4 DEF LInv, WindowBudget
      <3>2. QED
        BY <2>1, <2>2, <3>1 DEF Since
    <2>5. QED
      BY <2>1, <2>3, <2>4
  <1>2. LInv => WindowBound
    BY <1>1 DEF WindowBound
  <1>3. QED
    BY <1>2, InitLInv, NextLInv, PTL DEF Spec

\* Refusals never postpone the next token.
THEOREM NoStarvation == Spec => NotStarved
  <1>1. LInv /\ [Next]_vars =>
          [lastRefused' # lastRefused =>
              lastAllowed # -1 /\ clock - lastAllowed < RefillRate]_vars
    <2> SUFFICES ASSUME LInv, [Next]_vars, lastRefused' # lastRefused
                 PROVE  lastAllowed # -1 /\ clock - lastAllowed < RefillRate
      OBVIOUS
    <2>1. Allow /\ ~(Refilled > 0)
      BY DEF Next, Allow, Tick, vars
    <2>2. TokensToAdd = 0 /\ tokens = 0 /\ clock - lastRefill < RefillRate
      BY <2>1, RefillFacts DEF LInv, TypeOK
    <2>3. lastAllowed >= lastRefill
      BY <2>2 DEF LInv, EmptiedSinceRefill
    <2>4. QED
      BY <2>2, <2>3, RefillFacts, LimiterAssumption DEF LInv, TypeOK
  <1>2. QED
    BY <1>1, InitLInv, NextLInv, PTL DEF Spec, NotStarved

-----------------------------------------------------------------------------
(* The connections to partner accounts.                                    *)

AnyConfig == Configs \union {NoConfig}
UserType == {AtRest} \union [at : {"lookup", "building", "clearing"}, p : Partners]
BuildType == [p : Partners, cfg : AnyConfig, by : User \union {Renewal}, age : 0 .. RefreshEvery]

AccountTypeOK ==
    /\ accounts \in [Partners -> AnyConfig]
    /\ connection \in [Partners -> [cfg : AnyConfig, left : Int]]
    /\ builds \in SUBSET BuildType
    /\ user \in [User -> UserType]
    /\ visit \in SUBSET Partners
    /\ phase \in 0 .. RefreshEvery - 1
    /\ closedDB \in BOOLEAN
    /\ missed \in [Partners -> BOOLEAN]
    /\ removed \in [Partners -> BOOLEAN]
    /\ overlapped \in [Partners -> BOOLEAN]

\* What keeps a removed partner out: nothing that could store an entry for it.
NothingLeftOf(p) ==
    /\ connection[p] = NoEntry
    /\ accounts[p] = NoConfig
    /\ \A b \in builds : b.p # p

OutInv == \A p \in Partners : (removed[p] /\ ~overlapped[p]) => NothingLeftOf(p)

\* A renewal of p that will store its entry before the one of now expires.
Renewing(p) ==
    \E b \in builds : b.p = p /\ b.by = Renewal /\ connection[p].left >= RefreshEvery - b.age

\* An entry in use is about to be looked at with a period to spare, outlives the next
\* look with a period to spare, or is being renewed.
InTime(p) ==
    \/ p \in visit /\ connection[p].left >= RefreshEvery
    \/ connection[p].left >= 2 * RefreshEvery - phase
    \/ Renewing(p)

TimeInv ==
    \A p \in Partners : (connection[p] # NoEntry /\ ~missed[p] /\ ~closedDB) => InTime(p)

-----------------------------------------------------------------------------
(* Types.                                                                  *)

\* A build that starts, and one that ages, has the type of a build.
LEMMA BuildTypes ==
    /\ \A p \in Partners, c \in AnyConfig, w \in User \union {Renewal} : Build(p, c, w) \in BuildType
    /\ \A b \in BuildType : b.age < RefreshEvery => Aged(b) \in BuildType
BY AccountAssumption DEF Build, Aged, BuildType

\* The initial states have the types.
LEMMA TypeInit == AccountInit => AccountTypeOK
<1> SUFFICES ASSUME AccountInit PROVE AccountTypeOK
    OBVIOUS
<1>1. accounts \in [Partners -> AnyConfig]
    BY DEF AccountInit, AnyConfig
<1>2. connection \in [Partners -> [cfg : AnyConfig, left : Int]]
    BY DEF AccountInit, AnyConfig, NoEntry
<1>3. user \in [User -> UserType] /\ builds \in SUBSET BuildType /\ visit \in SUBSET Partners
    BY DEF AccountInit, UserType
<1>4. phase \in 0 .. RefreshEvery - 1
    BY AccountAssumption DEF AccountInit
<1> QED
    BY <1>1, <1>2, <1>3, <1>4 DEF AccountInit, AccountTypeOK

\* Every action keeps the types.
LEMMA TypeStep == AccountTypeOK /\ [AccountNext]_accountVars => AccountTypeOK'
<1> SUFFICES ASSUME AccountTypeOK, [AccountNext]_accountVars PROVE AccountTypeOK'
    OBVIOUS
<1>1. ASSUME NEW u \in User, NEW p \in Partners, Partner(u, p) PROVE AccountTypeOK'
    BY <1>1 DEF AccountTypeOK, Partner, UserType
<1>2. ASSUME NEW u \in User, NEW p \in Partners, RemovePartner(u, p) PROVE AccountTypeOK'
    BY <1>2 DEF AccountTypeOK, RemovePartner, UserType, AnyConfig
<1>3. ASSUME NEW u \in User, NEW p \in Partners, NEW cfg \in Configs, AddPartner(u, p, cfg)
      PROVE AccountTypeOK'
    BY <1>3 DEF AccountTypeOK, AddPartner, AnyConfig
<1>4. ASSUME NEW u \in User, Lookup(u) PROVE AccountTypeOK'
    <2> DEFINE p == user[u].p
    <2>1. p \in Partners
        BY <1>4 DEF AccountTypeOK, Lookup, UserType, AtRest
    <2>2. builds' \in SUBSET BuildType
        BY <1>4, <2>1, BuildTypes DEF AccountTypeOK, Lookup
    <2>3. user' \in [User -> UserType]
        <3>1. AtRest \in UserType /\ [at |-> "building", p |-> p] \in UserType
            BY <2>1 DEF UserType
        <3>2. user' \in {[user EXCEPT ![u] = AtRest], [user EXCEPT ![u] = [at |-> "building", p |-> p]]}
            BY <1>4 DEF Lookup
        <3> QED
            BY <3>1, <3>2 DEF AccountTypeOK
    <2> QED
        BY <1>4, <2>2, <2>3 DEF AccountTypeOK, Lookup
<1>5. ASSUME NEW u \in User, ClearConnection(u) PROVE AccountTypeOK'
    <2> DEFINE p == user[u].p
    <2>1. p \in Partners
        BY <1>5 DEF AccountTypeOK, ClearConnection, UserType, AtRest
    <2>2. connection' \in [Partners -> [cfg : AnyConfig, left : Int]]
        BY <1>5, <2>1 DEF AccountTypeOK, ClearConnection, ClearCache, NoEntry, AnyConfig
    <2>3. user' \in [User -> UserType]
        BY <1>5, <2>1 DEF AccountTypeOK, ClearConnection, UserType
    <2>4. /\ missed' \in [Partners -> BOOLEAN]
          /\ removed' \in [Partners -> BOOLEAN]
          /\ overlapped' \in [Partners -> BOOLEAN]
        BY <1>5, <2>1 DEF AccountTypeOK, ClearConnection
    <2> QED
        BY <1>5, <2>2, <2>3, <2>4 DEF AccountTypeOK, ClearConnection
<1>6. ASSUME NEW b \in builds, CreatePartnerDB(b) \/ CreateFails(b) PROVE AccountTypeOK'
    <2>1. b \in BuildType
        BY DEF AccountTypeOK
    <2>2. connection' \in [Partners -> [cfg : AnyConfig, left : Int]]
        BY <1>6, <2>1, AccountAssumption
        DEF AccountTypeOK, CreatePartnerDB, CreateFails, Lifetime, BuildType
    <2>3. missed' \in [Partners -> BOOLEAN]
        BY <1>6, <2>1 DEF AccountTypeOK, CreatePartnerDB, CreateFails, BuildType
    <2>4. user' \in [User -> UserType]
        BY <1>6, <2>1
        DEF AccountTypeOK, CreatePartnerDB, CreateFails, Finish, UserType, BuildType
    <2> QED
        BY <1>6, <2>2, <2>3, <2>4 DEF AccountTypeOK, CreatePartnerDB, CreateFails, Finish
<1>7. ASSUME NEW p \in Partners, Visit(p) PROVE AccountTypeOK'
    <2>1. builds' \in SUBSET BuildType
        BY <1>7, BuildTypes DEF AccountTypeOK, Visit
    <2> QED
        BY <1>7, <2>1 DEF AccountTypeOK, Visit
<1>8. CASE Pass
    <2>1. builds' \in SUBSET BuildType
        BY <1>8, BuildTypes DEF AccountTypeOK, Pass
    <2>2. connection' \in [Partners -> [cfg : AnyConfig, left : Int]]
        BY <1>8 DEF AccountTypeOK, Pass, Older
    <2>3. phase' \in 0 .. RefreshEvery - 1 /\ visit' \in SUBSET Partners
        BY <1>8, AccountAssumption DEF AccountTypeOK, Pass
    <2> QED
        BY <1>8, <2>1, <2>2, <2>3 DEF AccountTypeOK, Pass
<1>9. CASE CloseDB
    BY <1>9 DEF AccountTypeOK, CloseDB
<1>10. CASE UNCHANGED accountVars
    BY <1>10 DEF AccountTypeOK, accountVars
<1> QED
    BY <1>1, <1>2, <1>3, <1>4, <1>5, <1>6, <1>7, <1>8, <1>9, <1>10 DEF AccountNext

-----------------------------------------------------------------------------
(* Removed partners.                                                       *)

\* No partner is removed at first.
LEMMA OutInit == AccountInit => OutInv
BY DEF AccountInit, OutInv

\* An action that stores nothing, starts no build and adds nothing for p keeps p out.
LEMMA StaysOut ==
    ASSUME AccountTypeOK, OutInv, NEW p \in Partners,
           NothingLeftOf(p) => NothingLeftOf(p)',
           removed'[p] = removed[p], overlapped'[p] = overlapped[p]
    PROVE  (removed'[p] /\ ~overlapped'[p]) => NothingLeftOf(p)'
BY DEF OutInv

\* No action brings back what RemovePartner removed: a build needs an account or an entry.
LEMMA OutStep == AccountTypeOK /\ OutInv /\ [AccountNext]_accountVars => OutInv'
<1> SUFFICES ASSUME AccountTypeOK, OutInv, [AccountNext]_accountVars, NEW q \in Partners
             PROVE  (removed'[q] /\ ~overlapped'[q]) => NothingLeftOf(q)'
    BY DEF OutInv
<1> DEFINE Goal == (removed'[q] /\ ~overlapped'[q]) => NothingLeftOf(q)'
<1>1. ASSUME NEW u \in User, NEW p \in Partners, Partner(u, p) PROVE Goal
    BY <1>1 DEF OutInv, Partner, NothingLeftOf
<1>2. ASSUME NEW u \in User, NEW p \in Partners, RemovePartner(u, p) PROVE Goal
    BY <1>2 DEF OutInv, RemovePartner, NothingLeftOf, AccountTypeOK
<1>3. ASSUME NEW u \in User, NEW p \in Partners, NEW cfg \in Configs, AddPartner(u, p, cfg)
      PROVE Goal
    BY <1>3 DEF OutInv, AddPartner, NothingLeftOf, AccountTypeOK
<1>4. ASSUME NEW u \in User, Lookup(u) PROVE Goal
    <2>1. NothingLeftOf(q) => \A b \in builds' : b.p # q
        BY <1>4 DEF Lookup, NothingLeftOf, Build
    <2> QED
        BY <1>4, <2>1 DEF OutInv, Lookup, NothingLeftOf
<1>5. ASSUME NEW u \in User, ClearConnection(u) PROVE Goal
    <2> DEFINE p == user[u].p
    <2>1. p \in Partners
        BY <1>5 DEF AccountTypeOK, ClearConnection, UserType, AtRest
    <2>2. CASE q = p
        BY <1>5, <2>1, <2>2
        DEF ClearConnection, ClearCache, NothingLeftOf, Under, AccountTypeOK
    <2>3. CASE q # p
        BY <1>5, <2>1, <2>3 DEF ClearConnection, ClearCache, NothingLeftOf, OutInv, AccountTypeOK
    <2> QED
        BY <2>2, <2>3
<1>6. ASSUME NEW b \in builds, CreatePartnerDB(b) \/ CreateFails(b) PROVE Goal
    <2>1. NothingLeftOf(q) => NothingLeftOf(q)'
        BY <1>6 DEF CreatePartnerDB, CreateFails, Finish, NothingLeftOf, AccountTypeOK
    <2> QED
        BY <1>6, <2>1, StaysOut DEF CreatePartnerDB, CreateFails, Finish
<1>7. ASSUME NEW p \in Partners, Visit(p) PROVE Goal
    <2>1. NothingLeftOf(q) => \A b \in builds' : b.p # q
        BY <1>7 DEF Visit, NothingLeftOf, Build
    <2> QED
        BY <1>7, <2>1 DEF OutInv, Visit, NothingLeftOf
<1>8. CASE Pass
    <2>1. NothingLeftOf(q) => connection'[q] = NoEntry
        BY <1>8 DEF Pass, NothingLeftOf, NoEntry
    <2>2. NothingLeftOf(q) => \A b \in builds' : b.p # q
        BY <1>8 DEF Pass, NothingLeftOf, Aged
    <2> QED
        BY <1>8, <2>1, <2>2 DEF OutInv, Pass, NothingLeftOf
<1>9. CASE CloseDB
    BY <1>9 DEF OutInv, CloseDB, NothingLeftOf
<1>10. CASE UNCHANGED accountVars
    BY <1>10 DEF OutInv, accountVars, NothingLeftOf
<1> QED
    BY <1>1, <1>2, <1>3, <1>4, <1>5, <1>6, <1>7, <1>8, <1>9, <1>10 DEF AccountNext

-----------------------------------------------------------------------------
(* Renewals.                                                               *)

\* The cache is empty at first.
LEMMA TimeInit == AccountInit => TimeInv
BY DEF AccountInit, TimeInv

\* Every action leaves an entry in use with time for its renewal.
LEMMA TimeStep == AccountTypeOK /\ TimeInv /\ [AccountNext]_accountVars => TimeInv'
<1> SUFFICES ASSUME AccountTypeOK, TimeInv, [AccountNext]_accountVars, NEW q \in Partners,
                    connection'[q] # NoEntry, ~missed'[q], ~closedDB'
             PROVE  InTime(q)'
    BY DEF TimeInv
<1>1. ASSUME NEW u \in User, NEW p \in Partners, Partner(u, p) PROVE InTime(q)'
    BY <1>1 DEF TimeInv, Partner, InTime, Renewing
<1>2. ASSUME NEW u \in User, NEW p \in Partners, RemovePartner(u, p) PROVE InTime(q)'
    BY <1>2 DEF TimeInv, RemovePartner, InTime, Renewing
<1>3. ASSUME NEW u \in User, NEW p \in Partners, NEW cfg \in Configs, AddPartner(u, p, cfg)
      PROVE InTime(q)'
    BY <1>3 DEF TimeInv, AddPartner, InTime, Renewing
<1>4. ASSUME NEW u \in User, Lookup(u) PROVE InTime(q)'
    <2>1. builds \subseteq builds'
        BY <1>4 DEF Lookup
    <2>2. InTime(q)
        BY <1>4 DEF TimeInv, Lookup
    <2> QED
        BY <1>4, <2>1, <2>2 DEF Lookup, InTime, Renewing
<1>5. ASSUME NEW u \in User, ClearConnection(u) PROVE InTime(q)'
    <2> DEFINE p == user[u].p
    <2>1. p \in Partners /\ q # p
        BY <1>5 DEF AccountTypeOK, ClearConnection, ClearCache, UserType, AtRest
    <2>2. connection'[q] = connection[q] /\ missed'[q] = missed[q]
        BY <1>5, <2>1 DEF AccountTypeOK, ClearConnection, ClearCache
    <2> QED
        BY <1>5, <2>2 DEF TimeInv, ClearConnection, InTime, Renewing
<1>6. ASSUME NEW b \in builds, CreatePartnerDB(b) PROVE InTime(q)'
    <2>1. CASE q = b.p
        <3>1. connection'[q].left = Lifetime
            BY <1>6, <2>1 DEF CreatePartnerDB, AccountTypeOK
        <3>2. phase' = phase /\ phase \in 0 .. RefreshEvery - 1
            BY <1>6 DEF CreatePartnerDB, Finish, AccountTypeOK
        <3> QED
            BY <3>1, <3>2, AccountAssumption DEF Lifetime, InTime
    <2>2. CASE q # b.p
        <3>1. connection'[q] = connection[q] /\ missed'[q] = missed[q]
            BY <1>6, <2>2 DEF CreatePartnerDB, AccountTypeOK
        <3>2. InTime(q)
            BY <1>6, <3>1 DEF TimeInv, CreatePartnerDB, Finish
        <3> QED
            BY <1>6, <2>2, <3>1, <3>2 DEF CreatePartnerDB, Finish, InTime, Renewing
    <2> QED
        BY <2>1, <2>2
<1>7. ASSUME NEW b \in builds, CreateFails(b) PROVE InTime(q)'
    <2>1. ~missed[q] /\ (q = b.p => b.by # Renewal)
        BY <1>7 DEF CreateFails, AccountTypeOK
    <2>2. InTime(q)
        BY <1>7, <2>1 DEF TimeInv, CreateFails, Finish
    <2> QED
        BY <1>7, <2>1, <2>2 DEF CreateFails, Finish, InTime, Renewing
<1>8. ASSUME NEW p \in Partners, Visit(p) PROVE InTime(q)'
    <2>1. InTime(q) /\ connection'[q] = connection[q] /\ phase' = phase
        BY <1>8 DEF TimeInv, Visit
    <2>2. builds \subseteq builds'
        BY <1>8 DEF Visit
    <2>3. CASE q \in visit /\ connection[q].left >= RefreshEvery /\ q = p
        <3>1. CASE Due(p)
            <4>1. Build(p, connection[p].cfg, Renewal) \in builds'
                BY <1>8, <2>1, <2>3, <3>1 DEF Visit
            <4> QED
                BY <2>1, <2>3, <4>1, AccountAssumption DEF InTime, Renewing, Build, AccountTypeOK
        <3>2. CASE ~Due(p)
            BY <2>1, <2>3, <3>2, AccountAssumption DEF Due, InTime, AccountTypeOK
        <3> QED
            BY <3>1, <3>2
    <2>4. CASE q \in visit /\ connection[q].left >= RefreshEvery /\ q # p
        BY <1>8, <2>1, <2>4 DEF Visit, InTime
    <2>5. CASE connection[q].left >= 2 * RefreshEvery - phase \/ Renewing(q)
        BY <2>1, <2>2, <2>5 DEF InTime, Renewing
    <2> QED
        BY <2>1, <2>3, <2>4, <2>5 DEF InTime
<1>9. CASE Pass
    <2>1. connection[q] # NoEntry
        BY <1>9 DEF Pass, NoEntry
    <2>2. InTime(q) /\ visit = {}
        BY <1>9, <2>1 DEF TimeInv, Pass
    <2>3. phase \in 0 .. RefreshEvery - 1 /\ connection[q].left \in Int
        BY DEF AccountTypeOK
    <2>4. \A b \in builds : b.age \in 0 .. RefreshEvery
        BY DEF AccountTypeOK, BuildType
    <2>5. connection[q].left >= 0
        BY <2>2, <2>3, <2>4, AccountAssumption DEF InTime, Renewing
    <2>6. connection'[q].left = connection[q].left - 1
        <3>1. ~(connection[q].left < 0)
            BY <2>3, <2>5
        <3>2. connection'[q] = Older(connection[q])
            BY <1>9, <3>1 DEF Pass
        <3> QED
            BY <3>2 DEF Older
    <2>7. CASE connection[q].left >= 2 * RefreshEvery - phase
        <3>1. CASE phase + 1 = RefreshEvery
            <4>1. phase' = 0 /\ visit' = Partners
                BY <1>9, <3>1 DEF Pass
            <4> QED
                BY <2>3, <2>6, <2>7, <3>1, <4>1, AccountAssumption DEF InTime
        <3>2. CASE phase + 1 # RefreshEvery
            <4>1. phase' = phase + 1
                BY <1>9, <3>2 DEF Pass
            <4> QED
                BY <2>3, <2>6, <2>7, <4>1, AccountAssumption DEF InTime
        <3> QED
            BY <3>1, <3>2
    <2>8. CASE Renewing(q)
        <3>1. PICK b \in builds : b.p = q /\ b.by = Renewal /\ connection[q].left >= RefreshEvery - b.age
            BY <2>8 DEF Renewing
        <3>2. Aged(b) \in builds'
            BY <1>9 DEF Pass
        <3>3. Aged(b).p = q /\ Aged(b).by = Renewal /\ Aged(b).age = b.age + 1
            BY <3>1 DEF Aged
        <3>4. connection'[q].left >= RefreshEvery - Aged(b).age
            BY <2>3, <2>4, <2>6, <3>1, <3>3, AccountAssumption
        <3> QED
            BY <3>2, <3>3, <3>4 DEF InTime, Renewing
    <2> QED
        BY <2>2, <2>7, <2>8 DEF InTime
<1>10. CASE CloseDB
    BY <1>10 DEF CloseDB
<1>11. CASE UNCHANGED accountVars
    BY <1>11 DEF TimeInv, accountVars, InTime, Renewing
<1> QED
    BY <1>1, <1>2, <1>3, <1>4, <1>5, <1>6, <1>7, <1>8, <1>9, <1>10, <1>11 DEF AccountNext

-----------------------------------------------------------------------------
(* Theorems.                                                               *)

\* The types hold in every reachable state.
LEMMA Typed == AccountSpec => []AccountTypeOK
BY TypeInit, TypeStep, PTL DEF AccountSpec

\* RemovePartner (multiaccount.go): a partner removed while createPartnerDB was not under
\* way for it has no connection until AddPartner names it again, for any number of
\* goroutines, partners and configurations.
THEOREM Removed == AccountSpec => []RemovedStaysOut
<1>1. AccountSpec => []OutInv
    BY Typed, OutInit, OutStep, PTL DEF AccountSpec
<1>2. OutInv => RemovedStaysOut
    BY DEF OutInv, NothingLeftOf, RemovedStaysOut
<1> QED
    BY <1>1, <1>2, PTL

\* refreshExpiredCredentials (multiaccount.go): with the margins of the code, an entry of
\* the cache is renewed before it expires, whatever the period of the ticker and for every
\* session of three periods or more, unless a renewal failed or the handle was closed.
THEOREM Renewed == AccountSpec => []RenewedInTime
<1>1. AccountSpec => []TimeInv
    BY Typed, TimeInit, TimeStep, PTL DEF AccountSpec
<1>2. AccountTypeOK /\ TimeInv => RenewedInTime
    <2> SUFFICES ASSUME AccountTypeOK, TimeInv, NEW p \in Partners,
                        connection[p] # NoEntry, ~missed[p], ~closedDB
                 PROVE  ~(connection[p].left < 0)
        BY DEF RenewedInTime
    <2>1. phase \in 0 .. RefreshEvery - 1 /\ connection[p].left \in Int
        BY DEF AccountTypeOK
    <2>2. \A b \in builds : b.age \in 0 .. RefreshEvery
        BY DEF AccountTypeOK, BuildType
    <2>3. InTime(p)
        BY DEF TimeInv
    <2> QED
        BY <2>1, <2>2, <2>3, AccountAssumption DEF InTime, Renewing
<1> QED
    BY <1>1, <1>2, Typed, PTL
=============================================================================
