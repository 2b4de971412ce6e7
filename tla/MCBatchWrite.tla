----------------------------- MODULE MCBatchWrite -----------------------------
(* Batch writes of a model with encrypted fields, for TLC.                 *)
EXTENDS BatchWrite

\* All items are well formed, or the second is not.
InvalidSets == {{}, {2}}
=============================================================================
