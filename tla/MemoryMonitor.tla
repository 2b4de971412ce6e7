---------------------------- MODULE MemoryMonitor ----------------------------
(***************************************************************************)
(* The memory monitor of pkg/protection/resource_limiter.go: goroutines    *)
(* call StartMemoryMonitoring and StopMemoryMonitoring, Start launches a   *)
(* monitor goroutine, and both sides share the RWMutex mu, the WaitGroup   *)
(* wg, the flag running and the channel stopChan.                          *)
(*                                                                         *)
(* One step is what a goroutine does between two points where another can  *)
(* interfere: taking the lock, waiting for wg, and in the monitor loop     *)
(* each read of shared state.                                              *)
(***************************************************************************)
EXTENDS Integers, FiniteSets

CONSTANTS
    Caller,     \* goroutines that start and stop the monitor
    Pressures,  \* whether memory usage may reach MemoryPanicThreshold
    MaxStarts   \* bound: monitor goroutines launched

ASSUME MonitorAssumption == Pressures \subseteq BOOLEAN /\ MaxStarts \in Nat

VARIABLES
    pc,         \* pc[c]: where caller c is
    mu,         \* the caller that holds mu for writing; NoCaller when none
    readers,    \* monitor goroutines that hold mu for reading
    running,    \* the atomic flag
    stopChan,   \* number of the monitor the present channel was made for
    closed,     \* the channels that are closed
    loop,       \* loop[i]: where monitor goroutine i is
    pressure    \* memory usage does reach the threshold in this behaviour

monitorVars == <<pc, mu, readers, running, stopChan, closed, loop, pressure>>

NoCaller == "none"

ASSUME CallerAssumption == IsFiniteSet(Caller) /\ NoCaller \notin Caller

Monitors == 1 .. MaxStarts
Live == {"select", "ticked", "check", "lock", "locked", "callback"}

MonitorInit ==
    /\ pc = [c \in Caller |-> "idle"]
    /\ mu = NoCaller
    /\ readers = {}
    /\ running = FALSE
    /\ stopChan = 0
    /\ closed = {}
    /\ loop = [i \in Monitors |-> "none"]
    /\ pressure \in Pressures

-----------------------------------------------------------------------------
(* sync.RWMutex and sync.WaitGroup.                                        *)

\* Lock: no writer and no reader.
MayLock == mu = NoCaller /\ readers = {}

\* RLock: no writer.
MayRLock == mu = NoCaller

\* Mutant of AllDone: no wait for the previous goroutine.
AllDoneNoWait == TRUE

\* wg.Wait returns when every monitor goroutine has called wg.Done.
AllDone == \A i \in Monitors : loop[i] \in {"none", "exited"}

-----------------------------------------------------------------------------
(* StartMemoryMonitoring and StopMemoryMonitoring.                         *)

Starting == {c \in Caller : pc[c] \in {"setLock", "startLock", "startWait"}}

StartMemoryMonitoring(c) ==
    /\ pc[c] = "idle"
    /\ stopChan + Cardinality(Starting) < MaxStarts
    /\ pc' = [pc EXCEPT ![c] = "setLock"]
    /\ UNCHANGED <<mu, readers, running, stopChan, closed, loop, pressure>>

\* alertCallback is set under the lock, which is released before Start.
SetCallback(c) ==
    /\ pc[c] = "setLock"
    /\ MayLock
    /\ pc' = [pc EXCEPT ![c] = "startLock"]
    /\ UNCHANGED <<mu, readers, running, stopChan, closed, loop, pressure>>

\* Start takes the lock; it returns at once if the monitor runs, and waits for
\* the previous monitor goroutine if not, with the lock held.
StartEnter(c) ==
    /\ pc[c] = "startLock"
    /\ MayLock
    /\ IF running
       THEN pc' = [pc EXCEPT ![c] = "idle"] /\ UNCHANGED mu
       ELSE pc' = [pc EXCEPT ![c] = "startWait"] /\ mu' = c
    /\ UNCHANGED <<readers, running, stopChan, closed, loop, pressure>>

\* Mutant of Start: start that uses the old channel again.
StartOldChannel(c) ==
    /\ pc[c] = "startWait"
    /\ AllDone
    /\ stopChan' = stopChan + 1
    /\ closed' = closed \union ({stopChan + 1} \cap {x + 1 : x \in closed})
    /\ running' = TRUE
    /\ loop' = [loop EXCEPT ![stopChan + 1] = "select"]
    /\ mu' = NoCaller
    /\ pc' = [pc EXCEPT ![c] = "idle"]
    /\ UNCHANGED <<readers, pressure>>

\* A new channel and a new sync.Once, running = 1, the new goroutine, Unlock.
Start(c) ==
    /\ pc[c] = "startWait"
    /\ AllDone
    /\ stopChan' = stopChan + 1
    /\ running' = TRUE
    /\ loop' = [loop EXCEPT ![stopChan + 1] = "select"]
    /\ mu' = NoCaller
    /\ pc' = [pc EXCEPT ![c] = "idle"]
    /\ UNCHANGED <<readers, closed, pressure>>

StopMemoryMonitoring(c) ==
    /\ pc[c] = "idle"
    /\ pc' = [pc EXCEPT ![c] = "stopLock"]
    /\ UNCHANGED <<mu, readers, running, stopChan, closed, loop, pressure>>

\* Stop does nothing when the monitor is stopped; otherwise it clears running
\* and closes the channel.
StopMonitor ==
    /\ MayLock
    /\ closed' = IF running THEN closed \union {stopChan} ELSE closed
    /\ running' = FALSE

Stop(c) ==
    /\ pc[c] = "stopLock"
    /\ StopMonitor
    /\ pc' = [pc EXCEPT ![c] = "idle"]
    /\ UNCHANGED <<mu, readers, stopChan, loop, pressure>>

-----------------------------------------------------------------------------
(* monitorLoop and checkMemory.                                            *)

At(i, from, to) == loop[i] = from /\ loop' = [loop EXCEPT ![i] = to]

MonitorTick(i) ==
    /\ At(i, "select", "ticked")
    /\ UNCHANGED <<pc, mu, readers, running, stopChan, closed, pressure>>

\* case <-mm.stopChan.  The goroutine reads the field anew in every iteration.
SeeStop(i) ==
    /\ stopChan \in closed
    /\ At(i, "select", "exited")
    /\ UNCHANGED <<pc, mu, readers, running, stopChan, closed, pressure>>

\* Mutant of CheckRunning: the loop does not look at the flag after a tick.
CheckRunningNot(i) ==
    /\ At(i, "ticked", "check")
    /\ UNCHANGED <<pc, mu, readers, running, stopChan, closed, pressure>>

\* After a tick the flag decides.
CheckRunning(i) ==
    /\ At(i, "ticked", IF running THEN "check" ELSE "exited")
    /\ UNCHANGED <<pc, mu, readers, running, stopChan, closed, pressure>>

\* checkMemory reads the usage; below the threshold it is done, above it
\* needs the callback.
CheckMemory(i) ==
    /\ \/ At(i, "check", "select")
       \/ pressure /\ At(i, "check", "lock")
    /\ UNCHANGED <<pc, mu, readers, running, stopChan, closed, pressure>>

\* mm.mu.RLock() to read the callback, mm.mu.RUnlock().
ReadLock(i) ==
    /\ MayRLock
    /\ At(i, "lock", "locked")
    /\ readers' = readers \union {i}
    /\ UNCHANGED <<pc, mu, running, stopChan, closed, pressure>>

ReadUnlock(i) ==
    /\ At(i, "locked", "callback")
    /\ readers' = readers \ {i}
    /\ UNCHANGED <<pc, mu, running, stopChan, closed, pressure>>

\* The callback runs without the lock; it may stop the monitor it is called by.
Callback(i) ==
    /\ At(i, "callback", "select")
    /\ (UNCHANGED <<running, closed>>) \/ StopMonitor
    /\ UNCHANGED <<pc, mu, readers, stopChan, pressure>>

-----------------------------------------------------------------------------

CallerStep(c) == SetCallback(c) \/ StartEnter(c) \/ Start(c) \/ Stop(c)
LoopStep(i) ==
    \/ SeeStop(i) \/ CheckRunning(i) \/ CheckMemory(i)
    \/ ReadLock(i) \/ ReadUnlock(i) \/ Callback(i)

MonitorNext ==
    \/ \E c \in Caller :
          StartMemoryMonitoring(c) \/ StopMemoryMonitoring(c) \/ CallerStep(c)
    \/ \E i \in Monitors : MonitorTick(i) \/ LoopStep(i)

\* Goroutines that can run do run.  sync.RWMutex does not starve a writer (a
\* waiting Lock stops new readers) nor a reader (waiting RLocks go first after
\* an Unlock), so a lock that is free again and again is obtained.
MonitorFairness ==
    /\ \A c \in Caller : SF_monitorVars(CallerStep(c))
    /\ \A i \in Monitors : SF_monitorVars(LoopStep(i)) /\ WF_monitorVars(MonitorTick(i))

MonitorSpec == MonitorInit /\ [][MonitorNext]_monitorVars /\ MonitorFairness

-----------------------------------------------------------------------------
(* Properties.                                                             *)

\* There is never more than one monitor goroutine, however Start and Stop
\* calls of several goroutines interleave with the loop.
OneMonitor == Cardinality({i \in Monitors : loop[i] \in Live}) <= 1

\* While the flag says that the monitor runs, its goroutine is there and the
\* channel it selects on is open: a Stop that was overtaken by a Start cannot
\* end the new monitor.
RunningIsLive ==
    running => stopChan >= 1 /\ loop[stopChan] \in Live /\ stopChan \notin closed

\* The goroutine of a monitor that was stopped exits.
CalmMonitorExits ==
    ~pressure => \A i \in Monitors : (i \in closed) ~> (loop[i] = "exited")

\* Start is able to restart the monitor: it waits for the previous goroutine
\* to exit and returns.
StartReturns ==
    \A c \in Caller : (pc[c] \in {"startLock", "startWait"}) ~> (pc[c] = "idle")

\* Stop and Start of a monitor while memory usage stays below the threshold: the
\* goroutine whose channel is closed exits, and Start, which waits for it, returns.
CalmRestart == CalmMonitorExits /\ (~pressure => StartReturns)
=============================================================================
