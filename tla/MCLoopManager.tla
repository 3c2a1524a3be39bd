---------------------------- MODULE MCLoopManager ----------------------------
(* One or two threads, as model values. *)
EXTENDS LoopManager

CONSTANTS t1, t2
=============================================================================
