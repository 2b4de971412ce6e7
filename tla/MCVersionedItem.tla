--------------------------- MODULE MCVersionedItem ---------------------------
(* Small instances of VersionedItem for TLC.                               *)
EXTENDS VersionedItem, TLC

\* Callers are interchangeable: no action or invariant names one.
WriterSymmetry == Permutations(Writer)
=============================================================================
