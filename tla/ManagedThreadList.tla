-------------------------- MODULE ManagedThreadList --------------------------
(***************************************************************************)
(* ManagedThreadList: the threads the sampler walks through, in the order  *)
(* they were registered, with two indexes and with iterators that are      *)
(* positions in the list.  The runtime's callbacks add and remove threads  *)
(* on the application's threads while the sampler calls LoopNext.          *)
(*                                                                         *)
(* The profiler has two lists: the managed one holds every thread the      *)
(* runtime tells of, the code hotspots one those that set a trace context. *)
(*                                                                         *)
(* Every method is a critical section of _mutex, so one step.  The counts  *)
(* kept for telemetry are left out.                                        *)
(***************************************************************************)
EXTENDS Naturals, Sequences, FiniteSets, Functions

CONSTANTS ClrThreads,       \* the runtime's thread ids
          OsThreads,     \* the operating system's thread ids
          NativeThreads, \* those of the profiler's own threads (NativeThreadList)
          None,          \* no thread, no id
          MaxIterators   \* bound on the iterators that are created

ASSUME ManagedThreadListAssumption ==
    /\ NativeThreads \subseteq OsThreads
    /\ None \notin ClrThreads \cup OsThreads
    /\ MaxIterators \in Nat

VARIABLES
    kind,         \* which of the two lists this is
    threads,      \* _threads
    byClrId,      \* the keys of _lookupByClrThreadId
    byOsId,       \* _lookupByOsThreadId
    osId,         \* _osThreadId of each ManagedThreadInfo
    handle,       \* whether its _osThreadHandle is valid
    iterators,    \* _iterators
    clr,          \* what the runtime has told of each thread
    returned,     \* what each iterator returned last
    passed,       \* who was returned since each thread last was (history)
    starved       \* the threads an iterator left out of a round (history)

listVars == <<threads, byClrId, byOsId, osId, handle>>
historyVars == <<returned, passed, starved>>

threadListVars == <<kind, listVars, iterators, clr, historyVars>>

Iterators == 1 .. MaxIterators
Listed == Range(threads)
Eligible(t) == t \in Listed /\ handle[t]

ListInit ==
    /\ kind \in {"managed", "codeHotspots"}
    /\ threads = <<>>
    /\ byClrId = {}
    /\ byOsId = [o \in OsThreads |-> None]
    /\ osId = [t \in ClrThreads |-> None]
    /\ handle = [t \in ClrThreads |-> FALSE]
    /\ iterators = <<>>
    /\ clr = [t \in ClrThreads |-> "none"]
    /\ returned = [i \in Iterators |-> None]
    /\ passed = [i \in Iterators |-> [t \in ClrThreads |-> {}]]
    /\ starved = {}

(***************************************************************************)
(* The list.                                                               *)
(***************************************************************************)
\* GetOrCreate, which only the managed list is asked for: a new entry has
\* neither an OS thread id nor a handle.
GetOrCreate(t) ==
    IF kind # "managed" \/ t \in byClrId
    THEN UNCHANGED <<threads, byClrId>>
    ELSE /\ threads' = Append(threads, t)
         /\ byClrId' = byClrId \cup {t}

IndexOf(t) == CHOOSE n \in DOMAIN threads : threads[n] = t

\* _threads.erase of the n-th element
Erase(s, n) == SubSeq(s, 1, n - 1) \o SubSeq(s, n + 1, Len(s))

UpdateIteratorsAtOrAfter(removalPos, size) ==
    [i \in DOMAIN iterators |->
        LET pos == IF removalPos <= iterators[i] /\ iterators[i] > 0
                   THEN iterators[i] - 1
                   ELSE iterators[i]
        IN  IF pos >= size THEN 0 ELSE pos]

\* UpdateIterators: positions after the removed one move left, and one past
\* the end goes back to the beginning.
UpdateIterators(removalPos, size) ==
    [i \in DOMAIN iterators |->
        LET pos == IF removalPos < iterators[i] THEN iterators[i] - 1 ELSE iterators[i]
        IN  IF pos >= size THEN 0 ELSE pos]

EraseClrIdOnly(t) == byOsId

\* _lookupByOsThreadId.erase(pInfo->GetOsThreadId())
EraseOsId(t) == [o \in OsThreads |-> IF o = osId[t] THEN None ELSE byOsId[o]]

UnregisterThread(t) ==
    IF t \in Listed
    THEN /\ threads' = Erase(threads, IndexOf(t))
         /\ byClrId' = byClrId \ {t}
         /\ byOsId' = EraseOsId(t)
         /\ iterators' = UpdateIterators(IndexOf(t) - 1, Len(threads) - 1)
    ELSE UNCHANGED <<threads, byClrId, byOsId, iterators>>

\* RegisterThread, of a thread whose info the caller has.
RegisterThread(t) ==
    IF t \in byClrId
    THEN UNCHANGED <<threads, byClrId>>
    ELSE /\ byClrId' = byClrId \cup {t}
         /\ threads' = Append(threads, t)

SetThreadOsInfo(t, o) ==
    /\ GetOrCreate(t)
    /\ osId' = [osId EXCEPT ![t] = o]
    /\ handle' = [handle EXCEPT ![t] = TRUE]
    /\ byOsId' = IF kind = "managed" THEN [byOsId EXCEPT ![o] = t] ELSE byOsId

(***************************************************************************)
(* The runtime's callbacks (CorProfilerCallback), on application threads.  *)
(***************************************************************************)
\* The list learns of a thread before it runs when thread lifetime events
\* are enabled, or when it is given a name.
ThreadCreated(t) ==
    /\ clr[t] = "none"
    /\ clr' = [clr EXCEPT ![t] = "created"]
    /\ GetOrCreate(t) \/ UNCHANGED <<threads, byClrId>>
    /\ UNCHANGED <<kind, byOsId, osId, handle, iterators, historyVars>>

ThreadNameChanged(t) ==
    /\ clr[t] \in {"created", "assigned"}
    /\ GetOrCreate(t)
    /\ UNCHANGED <<kind, byOsId, osId, handle, iterators, clr, historyVars>>

\* ThreadAssignedToOSThread adds the thread, then sets its OS thread; o is not
\* the OS thread of another live thread.
ThreadAssignedToOSThread(t) ==
    /\ clr[t] \in {"none", "created"}
    /\ clr' = [clr EXCEPT ![t] = "assigning"]
    /\ GetOrCreate(t)
    /\ UNCHANGED <<kind, byOsId, osId, handle, iterators, historyVars>>

OsThreadIsAssigned(t, o) ==
    /\ clr[t] = "assigning"
    /\ o \notin NativeThreads
    /\ \A u \in ClrThreads : clr[u] = "assigned" => osId[u] # o
    /\ clr' = [clr EXCEPT ![t] = "assigned"]
    /\ SetThreadOsInfo(t, o)
    /\ passed' = [i \in Iterators |-> [passed[i] EXCEPT ![t] = {}]]
    /\ UNCHANGED <<kind, iterators, returned, starved>>

\* One of the profiler's own threads is not added.
NativeThreadAssigned(t, o) ==
    /\ o \in NativeThreads
    /\ clr[t] = "none"
    /\ clr' = [clr EXCEPT ![t] = "native"]
    /\ UNCHANGED <<kind, listVars, iterators, historyVars>>

\* The id may be used for another thread afterwards.
ThreadDestroyed(t) ==
    /\ clr[t] \in {"created", "assigned", "native"}
    /\ clr' = [clr EXCEPT ![t] = "none"]
    /\ UnregisterThread(t)
    /\ osId' = [osId EXCEPT ![t] = None]
    /\ handle' = [handle EXCEPT ![t] = FALSE]
    /\ passed' = [i \in Iterators |->
                     [u \in ClrThreads |-> IF u = t THEN {} ELSE passed[i][u] \ {t}]]
    /\ UNCHANGED <<kind, returned, starved>>

\* GetPointerToNativeTraceContext, on thread t.
TraceContextIsSet(t) ==
    /\ kind = "codeHotspots"
    /\ clr[t] = "assigned"
    /\ RegisterThread(t)
    /\ passed' = [i \in Iterators |-> [passed[i] EXCEPT ![t] = IF t \in Listed THEN @ ELSE {}]]
    /\ UNCHANGED <<kind, byOsId, osId, handle, iterators, clr, returned, starved>>

(***************************************************************************)
(* The sampler.                                                            *)
(***************************************************************************)
CreateIterator ==
    /\ Len(iterators) < MaxIterators
    /\ iterators' = Append(iterators, 0)
    /\ UNCHANGED <<kind, listVars, clr, historyVars>>

\* The k-th thread from the iterator's position on, the first one for k = 1.
ThreadFrom(i, k) == threads[((iterators[i] + k - 1) % Len(threads)) + 1]

\* LoopNext looks at k threads, up to the first one with a handle.
Looked(i, k) ==
    /\ handle[ThreadFrom(i, k)]
    /\ \A j \in 1 .. k - 1 : ~handle[ThreadFrom(i, j)]

\* Iterator i returns u.
Returns(i, u) ==
    /\ returned' = [returned EXCEPT ![i] = u]
    /\ passed' = [passed EXCEPT ![i] =
          [t \in ClrThreads |-> IF t = u \/ ~Eligible(t) THEN {} ELSE passed[i][t] \cup {u}]]
    /\ starved' = starved \cup {t \in ClrThreads \ {u} : Eligible(t) /\ u \in passed[i][t]}

\* LoopNext found nothing: the list is empty, or it went all the way around.
LoopNextNull(i) ==
    /\ i \in DOMAIN iterators
    /\ \A k \in 1 .. Len(threads) - 1 : ~Looked(i, k)
    /\ returned' = [returned EXCEPT ![i] = None]
    /\ UNCHANGED <<kind, listVars, iterators, clr, passed, starved>>

LoopNextStays(i) ==
    /\ i \in DOMAIN iterators
    /\ \E k \in 1 .. Len(threads) - 1 : Looked(i, k) /\ Returns(i, ThreadFrom(i, k))
    /\ UNCHANGED <<kind, listVars, iterators, clr>>

LoopNextThread(i) ==
    /\ i \in DOMAIN iterators
    /\ \E k \in 1 .. Len(threads) - 1 :
          /\ Looked(i, k)
          /\ iterators' = [iterators EXCEPT ![i] = (@ + k) % Len(threads)]
          /\ Returns(i, ThreadFrom(i, k))
    /\ UNCHANGED <<kind, listVars, clr>>

LoopNext(i) == LoopNextNull(i) \/ LoopNextThread(i)

(***************************************************************************)
(* The specification.                                                      *)
(***************************************************************************)
ListNext ==
    \/ CreateIterator
    \/ \E t \in ClrThreads :
          \/ ThreadCreated(t) \/ ThreadNameChanged(t) \/ ThreadAssignedToOSThread(t)
          \/ \E o \in OsThreads : OsThreadIsAssigned(t, o) \/ NativeThreadAssigned(t, o)
          \/ TraceContextIsSet(t) \/ ThreadDestroyed(t)
    \/ \E i \in Iterators : LoopNext(i)

ListSpec == ListInit /\ [][ListNext]_threadListVars

\* The sampler comes back every sampling period.
FairListSpec == ListSpec /\ \A i \in Iterators : WF_threadListVars(LoopNext(i))

-----------------------------------------------------------------------------
(***************************************************************************)
(* Properties.                                                             *)
(***************************************************************************)
\* The variables have their types; a position is below the number of threads
\* there can be.
ListTypeOK ==
    /\ kind \in {"managed", "codeHotspots"}
    /\ threads \in Seq(ClrThreads)
    /\ byClrId \subseteq ClrThreads
    /\ byOsId \in [OsThreads -> ClrThreads \cup {None}]
    /\ osId \in [ClrThreads -> OsThreads \cup {None}]
    /\ handle \in [ClrThreads -> BOOLEAN]
    /\ iterators \in Seq(0 .. Cardinality(ClrThreads) - 1)
    /\ Len(iterators) <= MaxIterators
    /\ clr \in [ClrThreads -> {"none", "created", "assigning", "assigned", "native"}]
    /\ returned \in [Iterators -> ClrThreads \cup {None}]
    /\ passed \in [Iterators -> [ClrThreads -> SUBSET ClrThreads]]
    /\ starved \subseteq ClrThreads

\* The list and its two indexes hold the same threads: a lookup by OS thread
\* id never returns a thread that ended, also when the id is used again
\* (ManagedThreadList.cpp:147-150, 189).
IndexesAgree ==
    /\ IsInjective(threads)
    /\ byClrId = Listed
    /\ \A o \in OsThreads, t \in ClrThreads :
          byOsId[o] = t <=> kind = "managed" /\ t \in Listed /\ osId[t] = o

\* No thread with a handle is left out of a round: an iterator does not return
\* another thread twice before it (ManagedThreadList.cpp:248-284).
NobodyOvertaken == starved = {}

\* Once threads stop coming and going, two threads or more are all sampled
\* again and again, whatever threads without a handle lie between them
\* (StackSamplerLoop.cpp:286-331).
SampledAgainAndAgain ==
    \A i \in Iterators : \A t \in ClrThreads :
        /\ <>[](i \in DOMAIN iterators /\ Eligible(t) /\ \E u \in ClrThreads \ {t} : Eligible(u))
        /\ <>[][UNCHANGED threads]_threadListVars
        => []<>(returned[i] = t)

-----------------------------------------------------------------------------
(***************************************************************************)
(* The inductive invariants.                                               *)
(***************************************************************************)
\* A thread has an OS thread id from OsThreadIsAssigned to ThreadDestroyed, and
\* the managed list then has the thread.
ListInv ==
    /\ kind \in {"managed", "codeHotspots"}
    /\ threads \in Seq(ClrThreads)
    /\ byOsId \in [OsThreads -> ClrThreads \cup {None}]
    /\ osId \in [ClrThreads -> OsThreads \cup {None}]
    /\ handle \in [ClrThreads -> BOOLEAN]
    /\ clr \in [ClrThreads -> {"none", "created", "assigning", "assigned", "native"}]
    /\ \A t \in ClrThreads :
          /\ osId[t] # None \/ handle[t] => clr[t] = "assigned"
          /\ kind = "managed" /\ clr[t] = "assigned" => t \in Listed
    /\ IndexesAgree

\* From position p on, and around, the a-th thread comes before the b-th.
ComesBefore(p, a, b) == (p < a /\ (a < b \/ b <= p)) \/ (a < b /\ b <= p)

\* Whoever was returned since a thread last was comes behind it.
RoundInv ==
    /\ iterators \in Seq(Nat)
    /\ Len(iterators) <= MaxIterators
    /\ passed \in [Iterators -> [ClrThreads -> SUBSET ClrThreads]]
    /\ \A i \in DOMAIN iterators : iterators[i] = 0 \/ iterators[i] < Len(threads)
    /\ \A i \in Iterators, t \in ClrThreads :
          passed[i][t] # {} => i \in DOMAIN iterators /\ Eligible(t) /\ passed[i][t] \subseteq Listed
    /\ \A i \in DOMAIN iterators : \A a, b \in DOMAIN threads :
          threads[b] \in passed[i][threads[a]] => ComesBefore(iterators[i], a, b)
    /\ starved = {}
=============================================================================
