------------------------------ MODULE MCProcess ------------------------------
(***************************************************************************)
(* What a process keeps between calls, for TLC: the rate limiter, the      *)
(* admission control and the memory monitor.  A behaviour is one of a      *)
(* single part, and the other parts stay as they are made.                 *)
(***************************************************************************)
EXTENDS SimpleLimiter, MemoryMonitor, ResourceProtector

VARIABLE part
Parts == {"limiter", "monitor", "admission"}

ProcessInit ==
    /\ part \in Parts
    /\ Init /\ MonitorInit /\ AdmissionInit
    /\ part # "monitor" => ~pressure

ProcessNext ==
    /\ UNCHANGED part
    /\ \/ part = "limiter" /\ Next /\ UNCHANGED <<monitorVars, admissionVars>>
       \/ part = "monitor" /\ MonitorNext /\ UNCHANGED <<vars, admissionVars>>
       \/ part = "admission" /\ AdmissionNext /\ UNCHANGED <<vars, monitorVars>>

processVars == <<part, vars, monitorVars, admissionVars>>

\* A part that is not used has no step that fairness could ask for.
ProcessSpec ==
    ProcessInit /\ [][ProcessNext]_processVars /\ MonitorFairness /\ AdmissionFairness

\* One request at a time, two batches.
Limits == [k \in Kind |-> IF k = "request" THEN 1 ELSE 2]
=============================================================================
