------------------------ MODULE MCManagedThreadList ------------------------
(* Three threads on as many OS threads, and a thread of the profiler's own. *)
EXTENDS ManagedThreadList

CONSTANTS t1, t2, t3, o1, o2, o3, native
=============================================================================
