----------------------------- MODULE MCStackWalk -----------------------------
(* One application thread and the sampler, as model values. *)
EXTENDS StackWalk

CONSTANT t1
=============================================================================
