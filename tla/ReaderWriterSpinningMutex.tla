---------------------- MODULE ReaderWriterSpinningMutex ----------------------
(***************************************************************************)
(* ReaderWriterSpinningMutex: a reader-writer lock made of two atomics, so *)
(* that a signal handler may wait for it.  Each atomic operation of the    *)
(* code is one step; spinning, sleeping and looking at the clock are       *)
(* abstracted to "tries again" and, for a call with a deadline, "gives     *)
(* up".  A compare_exchange_weak loop that retries while other readers     *)
(* come and go is one step, taken when the exchange succeeds.              *)
(***************************************************************************)
EXTENDS Integers, FiniteSets

CONSTANTS
    Procs,        \* threads, and signal handlers that run on top of them
    Mutexes,
    NoMutex

ASSUME MutexAssumption ==
    /\ IsFiniteSet(Procs)
    /\ NoMutex \notin Mutexes

VARIABLES
    state,            \* _state: 0 free, -1 a writer, N readers
    waitingWriters,   \* _waitingWriters
    hold,             \* how each process holds each mutex
    at,               \* where a process is in its call on a mutex
    on,               \* the mutex of that call
    timed             \* the call has a deadline

callVars == <<at, on, timed>>
mutexVars == <<state, waitingWriters, hold, callVars>>

kFree == 0
kExclusive == -1

\* The steps of a writer while its WaitingWriterGuard is alive.
Waiting == {"spin", "gotIt", "gaveUp"}
\* A call that has returned and that its caller has not looked at yet.
Returned == {"owned", "failed"}
Places == {"idle", "try", "register", "look", "join", "lookAgain", "joinAgain"}
              \cup Waiting \cup Returned

\* The type of every variable; a process has a mutex in mind exactly while it is
\* in a call on it.
MutexTypeOK ==
    /\ state \in [Mutexes -> Int]
    /\ waitingWriters \in [Mutexes -> Int]
    /\ hold \in [Mutexes -> [Procs -> {"none", "shared", "exclusive"}]]
    /\ at \in [Procs -> Places]
    /\ on \in [Procs -> Mutexes \cup {NoMutex}]
    /\ timed \in [Procs -> BOOLEAN]
    /\ \A p \in Procs : at[p] # "idle" => on[p] \in Mutexes

MutexInit ==
    /\ state = [m \in Mutexes |-> kFree]
    /\ waitingWriters = [m \in Mutexes |-> 0]
    /\ hold = [m \in Mutexes |-> [p \in Procs |-> "none"]]
    /\ at = [p \in Procs |-> "idle"]
    /\ on = [p \in Procs |-> NoMutex]
    /\ timed = [p \in Procs |-> FALSE]

Goes(p, place) ==
    /\ at' = [at EXCEPT ![p] = place]
    /\ UNCHANGED <<on, timed>>

Holds(p, m, mode) == hold' = [hold EXCEPT ![m][p] = mode]

\* The beginning and the end of a call, as its caller sees them: these touch
\* nothing another process can see.
Begin(p, m, place, deadline) ==
    /\ at' = [at EXCEPT ![p] = place]
    /\ on' = [on EXCEPT ![p] = m]
    /\ timed' = [timed EXCEPT ![p] = deadline]

Lock(p, m) == Begin(p, m, "try", FALSE)

TryLockFor(p, m) == Begin(p, m, "try", TRUE)

LockShared(p, m) == Begin(p, m, "look", FALSE)

TryLockSharedFor(p, m) == Begin(p, m, "look", TRUE)

NoCall(p) == Begin(p, NoMutex, "idle", FALSE)

(***************************************************************************)
(* The writer.                                                             *)
(***************************************************************************)
\* try_lock, the fast path
TryLock(p) ==
    /\ at[p] = "try"
    /\ IF state[on[p]] = kFree
       THEN /\ state' = [state EXCEPT ![on[p]] = kExclusive]
            /\ Holds(p, on[p], "exclusive")
            /\ Goes(p, "owned")
       ELSE Goes(p, "register") /\ UNCHANGED <<state, hold>>
    /\ UNCHANGED waitingWriters

WaitingWriterGuard(p) ==
    /\ at[p] = "register"
    /\ waitingWriters' = [waitingWriters EXCEPT ![on[p]] = @ + 1]
    /\ Goes(p, "spin")
    /\ UNCHANGED <<state, hold>>

LockSlowUnchecked(p) ==
    /\ at[p] = "spin"
    /\ state[on[p]] # kExclusive
    /\ state' = [state EXCEPT ![on[p]] = kExclusive]
    /\ Holds(p, on[p], "exclusive")
    /\ Goes(p, "gotIt")
    /\ UNCHANGED waitingWriters

\* try_lock_exclusive_until_slow: the exchange that succeeds
LockSlow(p) ==
    /\ at[p] = "spin"
    /\ state[on[p]] = kFree
    /\ state' = [state EXCEPT ![on[p]] = kExclusive]
    /\ Holds(p, on[p], "exclusive")
    /\ Goes(p, "gotIt")
    /\ UNCHANGED waitingWriters

\* ... and the deadline that has passed
LockTimesOut(p) ==
    /\ at[p] = "spin"
    /\ timed[p]
    /\ Goes(p, "gaveUp")
    /\ UNCHANGED <<state, waitingWriters, hold>>

\* ~WaitingWriterGuard, however the call ends
WaitingWriterLeavesOnTimeout(p) ==
    /\ at[p] \in {"gotIt", "gaveUp"}
    /\ waitingWriters' =
          IF at[p] = "gaveUp" THEN [waitingWriters EXCEPT ![on[p]] = @ - 1] ELSE waitingWriters
    /\ Goes(p, IF at[p] = "gotIt" THEN "owned" ELSE "failed")
    /\ UNCHANGED <<state, hold>>

WaitingWriterLeaves(p) ==
    /\ at[p] \in {"gotIt", "gaveUp"}
    /\ waitingWriters' = [waitingWriters EXCEPT ![on[p]] = @ - 1]
    /\ Goes(p, IF at[p] = "gotIt" THEN "owned" ELSE "failed")
    /\ UNCHANGED <<state, hold>>

(***************************************************************************)
(* The reader.                                                             *)
(***************************************************************************)
LookWithoutFairness(p) ==
    /\ at[p] \in {"look", "lookAgain"}
    /\ Goes(p, IF at[p] = "look" THEN "join" ELSE "joinAgain")
    /\ UNCHANGED <<state, waitingWriters, hold>>

\* The first half of try_lock_shared and of each round of the slow path: read
\* _waitingWriters, and back off while a writer waits.
Look(p) ==
    /\ \/ /\ at[p] \in {"look", "lookAgain"}
          /\ waitingWriters[on[p]] = 0
          /\ Goes(p, IF at[p] = "look" THEN "join" ELSE "joinAgain")
       \/ /\ at[p] = "look"
          /\ waitingWriters[on[p]] # 0
          /\ Goes(p, "lookAgain")
    /\ UNCHANGED <<state, waitingWriters, hold>>

\* try_lock_shared_once, the second half; the process may have slept since it
\* looked.
TryLockSharedOnce(p) ==
    /\ at[p] \in {"join", "joinAgain"}
    /\ IF state[on[p]] >= kFree
       THEN /\ state' = [state EXCEPT ![on[p]] = @ + 1]
            /\ Holds(p, on[p], "shared")
            /\ Goes(p, "owned")
       ELSE Goes(p, "lookAgain") /\ UNCHANGED <<state, hold>>
    /\ UNCHANGED waitingWriters

\* The deadline is looked at in the slow path only, after another attempt.
LockSharedTimesOut(p) ==
    /\ at[p] = "lookAgain"
    /\ timed[p]
    /\ Goes(p, "failed")
    /\ UNCHANGED <<state, waitingWriters, hold>>

\* What the calls of the code cache are made of: no writer of it has a deadline.
MutexStep(p) ==
    \/ TryLock(p) \/ WaitingWriterGuard(p) \/ LockSlow(p) \/ WaitingWriterLeaves(p)
    \/ Look(p) \/ TryLockSharedOnce(p) \/ LockSharedTimesOut(p)

(***************************************************************************)
(* unlock is a plain store, unlock_shared a subtraction.                   *)
(***************************************************************************)
Unlock(p, m) ==
    /\ state' = [state EXCEPT ![m] = kFree]
    /\ Holds(p, m, "none")

UnlockShared(p, m) ==
    /\ state' = [state EXCEPT ![m] = @ - 1]
    /\ Holds(p, m, "none")

(***************************************************************************)
(* The mutexes on their own, used as their interface allows: a process     *)
(* does not ask for a mutex it holds and gives back what it holds; it may  *)
(* ask for the next mutex while it gives one back.                         *)
(***************************************************************************)
CallerMoves(p, free) ==
    /\ at[p] \in {"idle"} \cup Returned
    /\ \/ NoCall(p)
       \/ \E m \in {n \in Mutexes : n \in free \/ hold[n][p] = "none"} :
             Lock(p, m) \/ TryLockFor(p, m) \/ LockShared(p, m) \/ TryLockSharedFor(p, m)

Asks(p) ==
    /\ CallerMoves(p, {})
    /\ UNCHANGED <<state, waitingWriters, hold>>

GivesBack(p, m) ==
    /\ \/ hold[m][p] = "exclusive" /\ Unlock(p, m)
       \/ hold[m][p] = "shared" /\ UnlockShared(p, m)
    /\ CallerMoves(p, {m})
    /\ UNCHANGED waitingWriters

MutexNext ==
    \E p \in Procs :
        \/ MutexStep(p)
        \/ LockTimesOut(p)
        \/ Asks(p)
        \/ \E m \in Mutexes : GivesBack(p, m)

MutexSpec == MutexInit /\ [][MutexNext]_mutexVars

-----------------------------------------------------------------------------
Readers(m) == {p \in Procs : hold[m][p] = "shared"}
Writers(m) == {p \in Procs : hold[m][p] = "exclusive"}
WaitingOn(m) == {p \in Procs : on[p] = m /\ at[p] \in Waiting}

\* A process that has not got the mutex it asks for does not hold it.
AsksForOther ==
    \A p \in Procs :
        at[p] \notin {"idle", "owned", "gotIt"} => hold[on[p]][p] = "none"

\* The two atomics say what is so: _state is -1 when one writer holds the mutex
\* alone and otherwise the number of its readers, and _waitingWriters the number
\* of writers between the two ends of their WaitingWriterGuard: it never leaks
\* upward, also when writers time out.
WordsAreExact ==
    \A m \in Mutexes :
        /\ \/ /\ state[m] = kExclusive
              /\ Readers(m) = {}
              /\ \E p \in Procs : Writers(m) = {p}
           \/ /\ state[m] = Cardinality(Readers(m))
              /\ Writers(m) = {}
        /\ waitingWriters[m] = Cardinality(WaitingOn(m))

\* The inductive invariant.
MutexInv == MutexTypeOK /\ AsksForOther /\ WordsAreExact

RW == INSTANCE ReaderWriterLock
\* The mutexes implement the abstract reader-writer locks: a mutex has one
\* writer or any number of readers, whatever writers and readers race, give up
\* or come back in between.
ImplementsLock == RW!Spec
=============================================================================
