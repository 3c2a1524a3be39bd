-------------------------- MODULE MCServiceLifecycle --------------------------
(* Two application threads that make two guarded calls between them.         *)
EXTENDS ServiceLifecycle, TLC

CallerSymmetry == Permutations(Callers)
=============================================================================
