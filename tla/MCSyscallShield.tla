--------------------------- MODULE MCSyscallShield ---------------------------
(* Two application threads and the sampler, as model values. *)
EXTENDS SyscallShield, TLC

CONSTANTS t1, t2

Symmetry == Permutations(Threads)
=============================================================================
