------------------------------ MODULE MCCpuTimer ------------------------------
(* Two threads; the profiler is started twice and two signals are sent.      *)
EXTENDS CpuTimer
=============================================================================
