-------------------------- MODULE MCTransactBuilder --------------------------
(* Small instances of TransactBuilder for TLC.                             *)
EXTENDS TransactBuilder, TLC

CONSTANTS k1, k2, b1, b2

Op(kind, key, conds, value, form) ==
    [kind |-> kind, key |-> key, conds |-> conds, value |-> value, form |-> form]

\* One Builder is filled beyond the limit and executed twice; it has an operation
\* that is rejected and one that does not build.  The other deletes an item that
\* the first one creates, or checks the version the first one writes.
AllOps ==
    (b1 :> {Op("UpdateWithBuilder", k1, {}, 1, "ok"),
            Op("Create", k2, {}, 1, "ok"),
            Op("Put", k1, {}, 2, "rejected"),
            Op("Update", k2, {}, 3, "unbuildable")})
      @@
    (b2 :> {Op("Delete", k2, {"PrimaryKeyExists"}, 1, "ok"),
            Op("ConditionCheck", k1, {"VersionEquals"}, 1, "ok")})

Asks == (b1 :> 3) @@ (b2 :> 1)
Executes == (b1 :> 2) @@ (b2 :> 1)
=============================================================================
