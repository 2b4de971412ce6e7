---------------------------- MODULE MCUpdateExpr ----------------------------
(* Small instances of UpdateExpr for TLC: n is a number, x is encrypted.   *)
EXTENDS UpdateExpr

StoredRowsDef == {[n |-> v, x |-> Seal(1)] : v \in {1, 2}}
UpdateCallsDef == {[form |-> "set", field |-> "n", index |-> 0, value |-> 5]}
CondsDef == {[field |-> "n", op |-> "=", value |-> v] : v \in {1, 2}}
WriteCondsDef == {[field |-> "x", op |-> "=", value |-> 2]}
UpperCaseDef == <<>>
=============================================================================
