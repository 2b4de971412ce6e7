----------------------------- MODULE MCCallers ------------------------------
(***************************************************************************)
(* Callers for TLC, as processes that contend for a lease or as writers of *)
(* a versioned item: both rest on conditional writes of one row.  A        *)
(* behaviour is one of the lease or one of the item.                       *)
(***************************************************************************)
EXTENDS Lease, VersionedItem, TLC

VARIABLE part

CallersInit == part \in {"lease", "item"} /\ Init /\ ItemInit

CallersNext ==
    /\ UNCHANGED part
    /\ \/ part = "lease" /\ Next /\ UNCHANGED itemVars
       \/ part = "item" /\ ItemNext /\ UNCHANGED vars

CallersSpec == CallersInit /\ [][CallersNext]_<<part, vars, itemVars>>

\* Writers are interchangeable: no action or invariant names one.
WriterSymmetry == Permutations(Writer)
=============================================================================
