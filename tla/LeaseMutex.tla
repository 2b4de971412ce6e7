----------------------------- MODULE LeaseMutex -----------------------------
(***************************************************************************)
(* What a lease promises its callers: at any time at most one process may  *)
(* rely on the lease, and between two holders there is a moment when       *)
(* nobody holds it.  The lease manager (module Lease) implements this.     *)
(***************************************************************************)
CONSTANT Process

VARIABLE holders   \* the processes that may rely on the lease now

\* Nobody holds the lease.
Init == holders = {}

\* A free lease is granted to one process (Acquire, or a Refresh whose answer
\* arrives after the previous term ran out).
Grant(p) == holders = {} /\ holders' = {p}

\* The holder gives the lease up, crashes, or its term runs out.
Lapse == holders # {} /\ holders' = {}

Next == Lapse \/ \E p \in Process : Grant(p)

Spec == Init /\ [][Next]_holders
=============================================================================
