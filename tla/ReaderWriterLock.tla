--------------------------- MODULE ReaderWriterLock ---------------------------
(***************************************************************************)
(* What the users of a set of reader-writer locks rely on: a lock has      *)
(* either one writer or any number of readers, and only its holder gives   *)
(* it back.  Nothing is said of waiting, of fairness or of time-outs.      *)
(***************************************************************************)
CONSTANTS Procs, Mutexes

VARIABLE hold       \* how each process holds each lock

Modes == {"none", "shared", "exclusive"}

Init == hold = [m \in Mutexes |-> [p \in Procs |-> "none"]]

Takes(p, m, mode) ==
    /\ hold[m][p] = "none"
    /\ hold' = [hold EXCEPT ![m][p] = mode]

AcquireShared(p, m) ==
    /\ \A q \in Procs : hold[m][q] # "exclusive"
    /\ Takes(p, m, "shared")

AcquireExclusive(p, m) ==
    /\ \A q \in Procs : hold[m][q] = "none"
    /\ Takes(p, m, "exclusive")

Release(p, m) ==
    /\ hold[m][p] # "none"
    /\ hold' = [hold EXCEPT ![m][p] = "none"]

Next ==
    \E p \in Procs, m \in Mutexes :
        AcquireShared(p, m) \/ AcquireExclusive(p, m) \/ Release(p, m)

Spec == Init /\ [][Next]_hold
=============================================================================
