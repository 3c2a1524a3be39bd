---------------------------- MODULE MCHeapSnapshot ----------------------------
(* Two snapshots may be taken within four ticks of the clock.                   *)
EXTENDS HeapSnapshot
=============================================================================
