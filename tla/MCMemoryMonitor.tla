--------------------------- MODULE MCMemoryMonitor ---------------------------
(* Small instances of MemoryMonitor for TLC.                               *)
EXTENDS MemoryMonitor
=============================================================================
