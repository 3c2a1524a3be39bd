------------------- MODULE ReaderWriterSpinningMutexProofs -------------------
(***************************************************************************)
(* For any number of processes and mutexes: the two atomics of             *)
(* ReaderWriterSpinningMutex count what they are meant to count            *)
(* (MutexInv is inductive), and the mutexes implement the abstract         *)
(* reader-writer locks.                                                    *)
(***************************************************************************)
EXTENDS ReaderWriterSpinningMutex, FiniteSetTheorems, TLAPS

USE ZenonT(5), SMTT(30)   \* the provers, in this order

Hold == [Mutexes -> [Procs -> {"none", "shared", "exclusive"}]]

\* The readers, the writers and the waiting writers of a mutex are finite sets,
\* since there are finitely many processes.
LEMMA Finite ==
    ASSUME NEW m \in Mutexes
    PROVE  /\ IsFiniteSet(Readers(m)) /\ Cardinality(Readers(m)) \in Nat
           /\ IsFiniteSet(WaitingOn(m)) /\ Cardinality(WaitingOn(m)) \in Nat
<1>1. Readers(m) \subseteq Procs /\ WaitingOn(m) \subseteq Procs
  BY DEF Readers, WaitingOn
<1>2. IsFiniteSet(Readers(m)) /\ IsFiniteSet(WaitingOn(m))
  BY <1>1, MutexAssumption, FS_Subset
<1>. QED  BY <1>2, FS_CardinalityType

\* One element more is one more in the count.
LEMMA CountUp ==
    ASSUME NEW S, IsFiniteSet(S), NEW x, x \notin S
    PROVE  Cardinality(S \cup {x}) = Cardinality(S) + 1
BY FS_AddElement

\* One element less is one less.
LEMMA CountDown ==
    ASSUME NEW S, IsFiniteSet(S), NEW x \in S
    PROVE  Cardinality(S \ {x}) = Cardinality(S) - 1
BY FS_RemoveElement

\* _state says who holds the mutex.
StateExact(m) ==
    \/ /\ state[m] = kExclusive
       /\ Readers(m) = {}
       /\ \E p \in Procs : Writers(m) = {p}
    \/ /\ state[m] = Cardinality(Readers(m))
       /\ Writers(m) = {}

\* _waitingWriters says how many wait.
CountExact(m) == waitingWriters[m] = Cardinality(WaitingOn(m))

\* A writer that finds _state free, and only it, holds the mutex afterwards.
LEMMA TakesExclusive ==
    ASSUME MutexInv, NEW p \in Procs, NEW m \in Mutexes, state[m] = kFree,
           state' = [state EXCEPT ![m] = kExclusive],
           hold' = [hold EXCEPT ![m][p] = "exclusive"]
    PROVE  /\ state' \in [Mutexes -> Int]
           /\ \A n \in Mutexes : StateExact(n)'
           /\ \A q \in Procs : hold[m][q] = "none"
<1>1. hold \in Hold /\ state \in [Mutexes -> Int]
  BY DEF MutexInv, MutexTypeOK, Hold
<1>2. Writers(m) = {} /\ Cardinality(Readers(m)) = 0
  BY Finite DEF MutexInv, WordsAreExact, kFree, kExclusive
<1>3. Readers(m) = {}
  BY <1>2, Finite, FS_EmptySet
<1>4. \A q \in Procs : hold[m][q] = "none"
  BY <1>1, <1>2, <1>3 DEF Readers, Writers, Hold
<1>5. /\ Readers(m)' = {} /\ Writers(m)' = {p}
      /\ \A n \in Mutexes \ {m} : Readers(n)' = Readers(n) /\ Writers(n)' = Writers(n)
  BY <1>1, <1>2, <1>3 DEF Hold, Readers, Writers
<1>6. state' \in [Mutexes -> Int]
  BY <1>1 DEF kExclusive
<1>7. ASSUME NEW n \in Mutexes PROVE StateExact(n)'
  <2>1. CASE n = m
    BY <2>1, <1>1, <1>5 DEF StateExact
  <2>2. CASE n # m
    <3>1. StateExact(n)
      BY DEF MutexInv, WordsAreExact, StateExact
    <3>2. state'[n] = state[n] /\ Readers(n)' = Readers(n) /\ Writers(n)' = Writers(n)
      BY <2>2, <1>1, <1>5
    <3>. QED  BY <3>1, <3>2 DEF StateExact
  <2>. QED  BY <2>1, <2>2
<1>. QED  BY <1>4, <1>6, <1>7

\* A reader that finds no writer in _state joins the readers.
LEMMA TakesShared ==
    ASSUME MutexInv, NEW p \in Procs, NEW m \in Mutexes, state[m] >= kFree,
           hold[m][p] = "none",
           state' = [state EXCEPT ![m] = @ + 1],
           hold' = [hold EXCEPT ![m][p] = "shared"]
    PROVE  /\ state' \in [Mutexes -> Int]
           /\ \A n \in Mutexes : StateExact(n)'
           /\ \A q \in Procs : hold[m][q] # "exclusive"
<1>1. hold \in Hold /\ state \in [Mutexes -> Int]
  BY DEF MutexInv, MutexTypeOK, Hold
<1>2. Writers(m) = {} /\ state[m] = Cardinality(Readers(m))
  BY DEF MutexInv, WordsAreExact, kFree, kExclusive
<1>3. \A q \in Procs : hold[m][q] # "exclusive"
  BY <1>2 DEF Writers
<1>4. p \notin Readers(m)
  BY DEF Readers
<1>5. /\ Readers(m)' = Readers(m) \cup {p} /\ Writers(m)' = {}
      /\ \A n \in Mutexes \ {m} : Readers(n)' = Readers(n) /\ Writers(n)' = Writers(n)
  BY <1>1, <1>2 DEF Hold, Readers, Writers
<1>6. Cardinality(Readers(m)') = Cardinality(Readers(m)) + 1
  BY <1>4, <1>5, Finite, CountUp
<1>7. state' \in [Mutexes -> Int]
  BY <1>1
<1>8. ASSUME NEW n \in Mutexes PROVE StateExact(n)'
  <2>1. CASE n = m
    BY <2>1, <1>1, <1>2, <1>5, <1>6 DEF StateExact
  <2>2. CASE n # m
    <3>1. StateExact(n)
      BY DEF MutexInv, WordsAreExact, StateExact
    <3>2. state'[n] = state[n] /\ Readers(n)' = Readers(n) /\ Writers(n)' = Writers(n)
      BY <2>2, <1>1, <1>5
    <3>. QED  BY <3>1, <3>2 DEF StateExact
  <2>. QED  BY <2>1, <2>2
<1>. QED  BY <1>3, <1>7, <1>8

\* A holder that gives the mutex back, by the operation that fits, takes itself
\* and nobody else out.
LEMMA GivesUp ==
    ASSUME MutexInv, NEW p \in Procs, NEW m \in Mutexes,
           \/ hold[m][p] = "exclusive" /\ Unlock(p, m)
           \/ hold[m][p] = "shared" /\ UnlockShared(p, m)
    PROVE  /\ state' \in [Mutexes -> Int]
           /\ hold' = [hold EXCEPT ![m][p] = "none"]
           /\ \A n \in Mutexes : StateExact(n)'
<1>1. hold \in Hold /\ state \in [Mutexes -> Int]
  BY DEF MutexInv, MutexTypeOK, Hold
<1>2. hold' = [hold EXCEPT ![m][p] = "none"]
  BY DEF Unlock, UnlockShared, Holds
<1>3. /\ Readers(m)' = Readers(m) \ {p} /\ Writers(m)' = Writers(m) \ {p}
      /\ \A n \in Mutexes \ {m} : Readers(n)' = Readers(n) /\ Writers(n)' = Writers(n)
  BY <1>1, <1>2 DEF Hold, Readers, Writers
<1>4. state' \in [Mutexes -> Int] /\ \A n \in Mutexes \ {m} : state'[n] = state[n]
  BY <1>1 DEF Unlock, UnlockShared, kFree
<1>5. StateExact(m)
  BY DEF MutexInv, WordsAreExact, StateExact
<1>6. StateExact(m)'
  <2>1. CASE hold[m][p] = "exclusive" /\ Unlock(p, m)
    <3>1. p \in Writers(m)
      BY <2>1 DEF Writers
    <3>2. Writers(m) = {p} /\ Readers(m) = {}
      BY <3>1, <1>5 DEF StateExact
    <3>3. Writers(m)' = {} /\ Readers(m)' = {} /\ state'[m] = 0
      BY <3>2, <2>1, <1>1, <1>3 DEF Unlock, kFree
    <3>. QED  BY <3>3, FS_EmptySet DEF StateExact
  <2>2. CASE hold[m][p] = "shared" /\ UnlockShared(p, m)
    <3>1. p \in Readers(m)
      BY <2>2 DEF Readers
    <3>2. Writers(m) = {} /\ state[m] = Cardinality(Readers(m))
      BY <3>1, <1>5 DEF StateExact
    <3>3. Cardinality(Readers(m)') = Cardinality(Readers(m)) - 1
      BY <3>1, <1>3, Finite, CountDown
    <3>4. Writers(m)' = {} /\ state'[m] = state[m] - 1
      BY <3>2, <2>2, <1>1, <1>3 DEF UnlockShared
    <3>. QED  BY <3>2, <3>3, <3>4 DEF StateExact
  <2>. QED  BY <2>1, <2>2
<1>7. ASSUME NEW n \in Mutexes, n # m PROVE StateExact(n)'
  <2>1. StateExact(n)
    BY DEF MutexInv, WordsAreExact, StateExact
  <2>. QED  BY <2>1, <1>3, <1>4, <1>7 DEF StateExact
<1>. QED  BY <1>2, <1>4, <1>6, <1>7

\* A step that leaves _state and the holders alone leaves them in agreement.
LEMMA StateSame ==
    ASSUME MutexInv, UNCHANGED <<state, hold>>
    PROVE  \A n \in Mutexes : StateExact(n)'
BY DEF MutexInv, WordsAreExact, StateExact, Readers, Writers

\* A step in which no process begins or ends waiting leaves _waitingWriters
\* exact.
LEMMA CountSame ==
    ASSUME MutexInv, UNCHANGED waitingWriters,
           \A n \in Mutexes : WaitingOn(n)' = WaitingOn(n)
    PROVE  \A n \in Mutexes : CountExact(n)'
BY DEF MutexInv, WordsAreExact, CountExact

\* The parts of the invariant together.
LEMMA Together ==
    ASSUME MutexTypeOK', AsksForOther', \A n \in Mutexes : StateExact(n)',
           \A n \in Mutexes : CountExact(n)'
    PROVE  MutexInv'
BY DEF MutexInv, WordsAreExact, StateExact, CountExact

\* Every step of a call on a mutex keeps the invariant.
LEMMA StepKeepsInv ==
    ASSUME MutexInv, NEW p \in Procs, MutexStep(p) \/ LockTimesOut(p)
    PROVE  MutexInv'
<1>. DEFINE m == on[p]
<1>0. at[p] # "idle"
  BY DEF MutexStep, TryLock, WaitingWriterGuard, LockSlow, LockTimesOut, WaitingWriterLeaves,
         Look, TryLockSharedOnce, LockSharedTimesOut
<1>1. /\ MutexTypeOK /\ AsksForOther
      /\ m \in Mutexes /\ hold \in Hold /\ state \in [Mutexes -> Int]
      /\ waitingWriters \in [Mutexes -> Int] /\ at \in [Procs -> Places]
  BY <1>0 DEF MutexInv, MutexTypeOK, Hold
<1>2. CASE TryLock(p)
  <2>1. CASE state[m] = kFree
    <3>1. /\ state' = [state EXCEPT ![m] = kExclusive]
          /\ hold' = [hold EXCEPT ![m][p] = "exclusive"]
          /\ Goes(p, "owned") /\ UNCHANGED waitingWriters
      BY <1>2, <2>1 DEF TryLock, Holds
    <3>2. state' \in [Mutexes -> Int] /\ \A n \in Mutexes : StateExact(n)'
      BY <2>1, <3>1, <1>1, TakesExclusive
    <3>3. \A n \in Mutexes : WaitingOn(n)' = WaitingOn(n)
      BY <1>1, <1>2, <3>1 DEF TryLock, WaitingOn, Waiting, Goes
    <3>4. MutexTypeOK'
      BY <1>1, <3>1, <3>2 DEF MutexTypeOK, Goes, Places, Returned
    <3>5. AsksForOther'
      BY <1>1, <3>1 DEF AsksForOther, MutexTypeOK, Goes
    <3>. QED  BY <3>1, <3>2, <3>3, <3>4, <3>5, CountSame, Together
  <2>2. CASE state[m] # kFree
    <3>1. Goes(p, "register") /\ UNCHANGED <<state, hold, waitingWriters>>
      BY <1>2, <2>2 DEF TryLock
    <3>2. \A n \in Mutexes : WaitingOn(n)' = WaitingOn(n)
      BY <1>1, <1>2, <3>1 DEF TryLock, WaitingOn, Waiting, Goes
    <3>3. MutexTypeOK'
      BY <1>1, <3>1 DEF MutexTypeOK, Goes, Places
    <3>4. AsksForOther'
      BY <1>1, <1>2, <3>1 DEF AsksForOther, MutexTypeOK, TryLock, Goes
    <3>. QED  BY <3>1, <3>2, <3>3, <3>4, StateSame, CountSame, Together
  <2>. QED  BY <2>1, <2>2
<1>3. CASE WaitingWriterGuard(p)
  <2>1. /\ waitingWriters' = [waitingWriters EXCEPT ![m] = @ + 1]
        /\ Goes(p, "spin") /\ UNCHANGED <<state, hold>>
    BY <1>3 DEF WaitingWriterGuard
  <2>2. \A n \in Mutexes : CountExact(n)'
    <3>1. \A n \in Mutexes : CountExact(n)
      BY DEF MutexInv, WordsAreExact, CountExact
    <3>2. ASSUME NEW n \in Mutexes, n = m PROVE CountExact(n)'
      <4>1. WaitingOn(n)' = WaitingOn(n) \cup {p} /\ p \notin WaitingOn(n)
        BY <1>1, <1>3, <2>1, <3>2 DEF WaitingWriterGuard, WaitingOn, Waiting, Goes
      <4>2. Cardinality(WaitingOn(n)') = Cardinality(WaitingOn(n)) + 1
        BY <4>1, Finite, CountUp
      <4>3. waitingWriters'[n] = waitingWriters[n] + 1
        BY <1>1, <2>1, <3>2
      <4>. QED  BY <4>2, <4>3, <3>1 DEF CountExact
    <3>3. ASSUME NEW n \in Mutexes, n # m PROVE CountExact(n)'
      <4>1. WaitingOn(n)' = WaitingOn(n) /\ waitingWriters'[n] = waitingWriters[n]
        BY <1>1, <2>1, <3>3 DEF WaitingOn, Waiting, Goes
      <4>. QED  BY <4>1, <3>1 DEF CountExact
    <3>. QED  BY <3>2, <3>3
  <2>3. MutexTypeOK'
    BY <1>1, <2>1 DEF MutexTypeOK, Goes, Places, Waiting
  <2>4. AsksForOther'
    BY <1>1, <1>3, <2>1 DEF AsksForOther, MutexTypeOK, WaitingWriterGuard, Goes
  <2>. QED  BY <2>1, <2>2, <2>3, <2>4, StateSame, Together
<1>4. CASE LockSlow(p)
  <2>1. /\ state[m] = kFree /\ state' = [state EXCEPT ![m] = kExclusive]
        /\ hold' = [hold EXCEPT ![m][p] = "exclusive"]
        /\ Goes(p, "gotIt") /\ UNCHANGED waitingWriters
    BY <1>4 DEF LockSlow, Holds
  <2>2. state' \in [Mutexes -> Int] /\ \A n \in Mutexes : StateExact(n)'
    BY <2>1, <1>1, TakesExclusive
  <2>3. \A n \in Mutexes : WaitingOn(n)' = WaitingOn(n)
    BY <1>1, <1>4, <2>1 DEF LockSlow, WaitingOn, Waiting, Goes
  <2>4. MutexTypeOK'
    BY <1>1, <2>1, <2>2 DEF MutexTypeOK, Goes, Places, Waiting
  <2>5. AsksForOther'
    BY <1>1, <2>1 DEF AsksForOther, MutexTypeOK, Goes
  <2>. QED  BY <2>1, <2>2, <2>3, <2>4, <2>5, CountSame, Together
<1>5. CASE LockTimesOut(p)
  <2>1. Goes(p, "gaveUp") /\ UNCHANGED <<state, waitingWriters, hold>>
    BY <1>5 DEF LockTimesOut
  <2>2. \A n \in Mutexes : WaitingOn(n)' = WaitingOn(n)
    BY <1>1, <1>5, <2>1 DEF LockTimesOut, WaitingOn, Waiting, Goes
  <2>3. MutexTypeOK'
    BY <1>1, <2>1 DEF MutexTypeOK, Goes, Places, Waiting
  <2>4. AsksForOther'
    BY <1>1, <1>5, <2>1 DEF AsksForOther, MutexTypeOK, LockTimesOut, Goes
  <2>. QED  BY <2>1, <2>2, <2>3, <2>4, StateSame, CountSame, Together
<1>6. CASE WaitingWriterLeaves(p)
  <2>. DEFINE place == IF at[p] = "gotIt" THEN "owned" ELSE "failed"
  <2>1. /\ waitingWriters' = [waitingWriters EXCEPT ![m] = @ - 1]
        /\ Goes(p, place) /\ UNCHANGED <<state, hold>>
    BY <1>6 DEF WaitingWriterLeaves
  <2>2. \A n \in Mutexes : CountExact(n)'
    <3>1. \A n \in Mutexes : CountExact(n)
      BY DEF MutexInv, WordsAreExact, CountExact
    <3>2. ASSUME NEW n \in Mutexes, n = m PROVE CountExact(n)'
      <4>1. WaitingOn(n)' = WaitingOn(n) \ {p} /\ p \in WaitingOn(n)
        BY <1>1, <1>6, <2>1, <3>2 DEF WaitingWriterLeaves, WaitingOn, Waiting, Goes
      <4>2. Cardinality(WaitingOn(n)') = Cardinality(WaitingOn(n)) - 1
        BY <4>1, Finite, CountDown
      <4>3. waitingWriters'[n] = waitingWriters[n] - 1
        BY <1>1, <2>1, <3>2
      <4>. QED  BY <4>2, <4>3, <3>1 DEF CountExact
    <3>3. ASSUME NEW n \in Mutexes, n # m PROVE CountExact(n)'
      <4>1. WaitingOn(n)' = WaitingOn(n) /\ waitingWriters'[n] = waitingWriters[n]
        BY <1>1, <2>1, <3>3 DEF WaitingOn, Waiting, Goes
      <4>. QED  BY <4>1, <3>1 DEF CountExact
    <3>. QED  BY <3>2, <3>3
  <2>3. MutexTypeOK'
    BY <1>1, <2>1 DEF MutexTypeOK, Goes, Places, Returned
  <2>4. AsksForOther'
    BY <1>1, <1>6, <2>1 DEF AsksForOther, MutexTypeOK, WaitingWriterLeaves, Goes
  <2>. QED  BY <2>1, <2>2, <2>3, <2>4, StateSame, Together
<1>7. CASE Look(p)
  <2>1. /\ UNCHANGED <<state, waitingWriters, hold>>
        /\ at[p] \in {"look", "lookAgain"}
        /\ \E place \in {"join", "joinAgain", "lookAgain"} : Goes(p, place)
    BY <1>7 DEF Look
  <2>2. \A n \in Mutexes : WaitingOn(n)' = WaitingOn(n)
    BY <1>1, <2>1 DEF WaitingOn, Waiting, Goes
  <2>3. MutexTypeOK'
    BY <1>1, <2>1 DEF MutexTypeOK, Goes, Places
  <2>4. AsksForOther'
    BY <1>1, <2>1 DEF AsksForOther, MutexTypeOK, Goes
  <2>. QED  BY <2>1, <2>2, <2>3, <2>4, StateSame, CountSame, Together
<1>8. CASE TryLockSharedOnce(p)
  <2>0. at[p] \in {"join", "joinAgain"}
    BY <1>8 DEF TryLockSharedOnce
  <2>1. CASE state[m] >= kFree
    <3>1. /\ state' = [state EXCEPT ![m] = @ + 1]
          /\ hold' = [hold EXCEPT ![m][p] = "shared"]
          /\ Goes(p, "owned") /\ UNCHANGED waitingWriters
      BY <1>8, <2>1 DEF TryLockSharedOnce, Holds
    <3>2. hold[m][p] = "none"
      BY <1>1, <2>0 DEF AsksForOther
    <3>3. state' \in [Mutexes -> Int] /\ \A n \in Mutexes : StateExact(n)'
      BY <2>1, <3>1, <3>2, <1>1, TakesShared
    <3>4. \A n \in Mutexes : WaitingOn(n)' = WaitingOn(n)
      BY <1>1, <2>0, <3>1 DEF WaitingOn, Waiting, Goes
    <3>5. MutexTypeOK'
      BY <1>1, <3>1, <3>3 DEF MutexTypeOK, Goes, Places, Returned
    <3>6. AsksForOther'
      BY <1>1, <3>1 DEF AsksForOther, MutexTypeOK, Goes
    <3>. QED  BY <3>1, <3>3, <3>4, <3>5, <3>6, CountSame, Together
  <2>2. CASE ~(state[m] >= kFree)
    <3>1. Goes(p, "lookAgain") /\ UNCHANGED <<state, hold, waitingWriters>>
      BY <1>8, <2>2 DEF TryLockSharedOnce
    <3>2. \A n \in Mutexes : WaitingOn(n)' = WaitingOn(n)
      BY <1>1, <2>0, <3>1 DEF WaitingOn, Waiting, Goes
    <3>3. MutexTypeOK'
      BY <1>1, <3>1 DEF MutexTypeOK, Goes, Places
    <3>4. AsksForOther'
      BY <1>1, <2>0, <3>1 DEF AsksForOther, MutexTypeOK, Goes
    <3>. QED  BY <3>1, <3>2, <3>3, <3>4, StateSame, CountSame, Together
  <2>. QED  BY <2>1, <2>2
<1>9. CASE LockSharedTimesOut(p)
  <2>1. /\ at[p] = "lookAgain" /\ Goes(p, "failed")
        /\ UNCHANGED <<state, waitingWriters, hold>>
    BY <1>9 DEF LockSharedTimesOut
  <2>2. \A n \in Mutexes : WaitingOn(n)' = WaitingOn(n)
    BY <1>1, <2>1 DEF WaitingOn, Waiting, Goes
  <2>3. MutexTypeOK'
    BY <1>1, <2>1 DEF MutexTypeOK, Goes, Places, Returned
  <2>4. AsksForOther'
    BY <1>1, <2>1 DEF AsksForOther, MutexTypeOK, Goes
  <2>. QED  BY <2>1, <2>2, <2>3, <2>4, StateSame, CountSame, Together
<1>. QED  BY <1>2, <1>3, <1>4, <1>5, <1>6, <1>7, <1>8, <1>9 DEF MutexStep

\* Beginning a call on a mutex one does not hold afterwards, or ending one,
\* changes nothing but the process's own place.
LEMMA CallerKeeps ==
    ASSUME MutexInv, NEW p \in Procs, NEW free \in SUBSET Mutexes, CallerMoves(p, free),
           state' \in [Mutexes -> Int], UNCHANGED waitingWriters,
           hold' \in Hold,
           \A n \in Mutexes, q \in Procs \ {p} : hold'[n][q] = hold[n][q],
           \A n \in Mutexes : hold'[n][p] = IF n \in free THEN "none" ELSE hold[n][p],
           \A n \in Mutexes : StateExact(n)'
    PROVE  MutexInv'
<1>1. /\ MutexTypeOK /\ AsksForOther
      /\ at \in [Procs -> Places] /\ at[p] \notin Waiting
  BY DEF MutexInv, MutexTypeOK, CallerMoves, Returned, Waiting
<1>2. \E place \in {"idle", "try", "look"}, mutex \in Mutexes \cup {NoMutex}, deadline \in BOOLEAN :
         /\ Begin(p, mutex, place, deadline)
         /\ place # "idle" => mutex \in Mutexes /\ hold'[mutex][p] = "none"
  BY ZenonT(60) DEF CallerMoves, NoCall, Lock, TryLockFor, LockShared, TryLockSharedFor
<1>3. MutexTypeOK'
  BY <1>1, <1>2 DEF MutexTypeOK, Begin, Places, Hold
<1>4. AsksForOther'
  BY <1>1, <1>2 DEF AsksForOther, MutexTypeOK, Begin
<1>5. \A n \in Mutexes : WaitingOn(n)' = WaitingOn(n)
  BY <1>1, <1>2 DEF WaitingOn, Waiting, Begin, MutexTypeOK
<1>. QED  BY <1>3, <1>4, <1>5, CountSame, Together

\* Every step of the mutexes keeps the invariant.
LEMMA NextKeepsInv ==
    ASSUME MutexInv, [MutexNext]_mutexVars
    PROVE  MutexInv'
<1>0. MutexTypeOK /\ hold \in Hold
  BY DEF MutexInv, MutexTypeOK, Hold
<1>1. ASSUME NEW p \in Procs, MutexStep(p) \/ LockTimesOut(p) PROVE MutexInv'
  BY <1>1, StepKeepsInv
<1>2. ASSUME NEW p \in Procs, Asks(p) PROVE MutexInv'
  <2>1. CallerMoves(p, {}) /\ UNCHANGED <<state, waitingWriters, hold>>
    BY <1>2 DEF Asks
  <2>2. \A n \in Mutexes : StateExact(n)'
    BY <2>1, StateSame
  <2>3. /\ state' \in [Mutexes -> Int] /\ UNCHANGED waitingWriters /\ hold' \in Hold
        /\ \A n \in Mutexes, q \in Procs \ {p} : hold'[n][q] = hold[n][q]
        /\ \A n \in Mutexes : hold'[n][p] = IF n \in {} THEN "none" ELSE hold[n][p]
    BY <1>0, <2>1 DEF MutexTypeOK
  <2>4. {} \in SUBSET Mutexes
    OBVIOUS
  <2>. QED  BY <2>1, <2>2, <2>3, <2>4, CallerKeeps
<1>3. ASSUME NEW p \in Procs, NEW m \in Mutexes, GivesBack(p, m) PROVE MutexInv'
  <2>1. /\ state' \in [Mutexes -> Int]
        /\ hold' = [hold EXCEPT ![m][p] = "none"]
        /\ \A n \in Mutexes : StateExact(n)'
    BY <1>3, GivesUp DEF GivesBack
  <2>2. /\ hold' \in Hold
        /\ \A n \in Mutexes, q \in Procs \ {p} : hold'[n][q] = hold[n][q]
        /\ \A n \in Mutexes : hold'[n][p] = IF n \in {m} THEN "none" ELSE hold[n][p]
    BY <1>0, <2>1 DEF Hold
  <2>3. CallerMoves(p, {m}) /\ UNCHANGED waitingWriters
    BY <1>3 DEF GivesBack
  <2>4. {m} \in SUBSET Mutexes
    OBVIOUS
  <2>. QED  BY <2>1, <2>2, <2>3, <2>4, CallerKeeps
<1>4. CASE UNCHANGED mutexVars
  <2>1. UNCHANGED <<state, waitingWriters, hold, at, on, timed>>
    BY <1>4 DEF mutexVars, callVars
  <2>2. MutexTypeOK'
    BY <1>0, <2>1 DEF MutexTypeOK
  <2>3. AsksForOther'
    BY <2>1 DEF MutexInv, AsksForOther
  <2>4. \A n \in Mutexes : WaitingOn(n)' = WaitingOn(n)
    BY <2>1 DEF WaitingOn
  <2>. QED  BY <2>1, <2>2, <2>3, <2>4, StateSame, CountSame, Together
<1>. QED  BY <1>1, <1>2, <1>3, <1>4 DEF MutexNext

\* Initially nobody holds a mutex or waits for one.
LEMMA InitInv == MutexInit => MutexInv
<1>. SUFFICES ASSUME MutexInit PROVE MutexInv
  OBVIOUS
<1>1. MutexTypeOK /\ AsksForOther
  BY DEF MutexInit, MutexTypeOK, AsksForOther, Places, kFree
<1>2. \A m \in Mutexes : Readers(m) = {} /\ Writers(m) = {} /\ WaitingOn(m) = {}
  BY DEF MutexInit, Readers, Writers, WaitingOn, Waiting
<1>3. Cardinality({}) = 0
  BY FS_EmptySet
<1>. QED  BY <1>1, <1>2, <1>3 DEF MutexInit, MutexInv, WordsAreExact, kFree

\* _state and _waitingWriters are exact at all times: try_lock, the slow paths,
\* their time-outs, unlock and unlock_shared keep MutexInv.
THEOREM Invariance == MutexSpec => []MutexInv
<1>1. MutexInit => MutexInv
  BY InitInv
<1>2. MutexInv /\ [MutexNext]_mutexVars => MutexInv'
  BY NextKeepsInv
<1>. QED  BY <1>1, <1>2, PTL DEF MutexSpec

\* The mutexes implement the abstract reader-writer locks of ReaderWriterLock:
\* a process comes to hold a mutex exclusively only when nobody holds it, and
\* shared only when no writer does.
THEOREM Implementation == MutexSpec => ImplementsLock
<1>1. MutexInit => RW!Init
  BY DEF MutexInit, RW!Init
<1>2. MutexInv /\ [MutexNext]_mutexVars => [RW!Next]_hold
  <2>. SUFFICES ASSUME MutexInv, [MutexNext]_mutexVars, hold' # hold PROVE RW!Next
    OBVIOUS
  <2>1. ASSUME NEW p \in Procs, MutexStep(p) \/ LockTimesOut(p) PROVE RW!Next
    <3>1. PICK m \in Mutexes : m = on[p]
      BY <2>1 DEF MutexInv, MutexTypeOK, MutexStep, TryLock, WaitingWriterGuard, LockSlow,
                  LockTimesOut, WaitingWriterLeaves, Look, TryLockSharedOnce, LockSharedTimesOut
    <3>2. CASE /\ at[p] \in {"try", "spin"} /\ state[m] = kFree
               /\ state' = [state EXCEPT ![m] = kExclusive]
               /\ hold' = [hold EXCEPT ![m][p] = "exclusive"]
      <4>1. \A q \in Procs : hold[m][q] = "none"
        BY <3>2, TakesExclusive
      <4>. QED  BY <3>2, <4>1 DEF RW!Next, RW!AcquireExclusive, RW!Takes
    <3>3. CASE /\ at[p] \in {"join", "joinAgain"} /\ state[m] >= kFree
               /\ state' = [state EXCEPT ![m] = @ + 1]
               /\ hold' = [hold EXCEPT ![m][p] = "shared"]
      <4>1. hold[m][p] = "none"
        BY <3>1, <3>3 DEF MutexInv, AsksForOther
      <4>2. \A q \in Procs : hold[m][q] # "exclusive"
        BY <3>3, <4>1, TakesShared
      <4>. QED  BY <3>3, <4>1, <4>2 DEF RW!Next, RW!AcquireShared, RW!Takes
    <3>. QED  BY <2>1, <3>1, <3>2, <3>3
              DEF MutexStep, TryLock, WaitingWriterGuard, LockSlow, LockTimesOut,
                  WaitingWriterLeaves, Look, TryLockSharedOnce, LockSharedTimesOut, Holds
  <2>2. ASSUME NEW p \in Procs, NEW m \in Mutexes, GivesBack(p, m) PROVE RW!Next
    <3>1. hold[m][p] # "none" /\ hold' = [hold EXCEPT ![m][p] = "none"]
      BY <2>2 DEF GivesBack, Unlock, UnlockShared, Holds
    <3>. QED  BY <3>1 DEF RW!Next, RW!Release
  <2>3. CASE \E p \in Procs : Asks(p)
    BY <2>3 DEF Asks
  <2>4. CASE UNCHANGED mutexVars
    BY <2>4 DEF mutexVars
  <2>. QED  BY <2>1, <2>2, <2>3, <2>4 DEF MutexNext
<1>. QED  BY <1>1, <1>2, Invariance, PTL DEF MutexSpec, ImplementsLock, RW!Spec
=============================================================================
