---------------------------- MODULE MCMultiAccount ----------------------------
(* The connections to partner accounts by themselves, for TLC.             *)
EXTENDS MultiAccount
=============================================================================
