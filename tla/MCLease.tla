------------------------------- MODULE MCLease -------------------------------
(* Small instances of Lease for TLC.                                       *)
EXTENDS Lease, TLC

\* Processes are interchangeable: no action or invariant names one.
ProcessSymmetry == Permutations(Process)
=============================================================================
