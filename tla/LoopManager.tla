----------------------------- MODULE LoopManager -----------------------------
(***************************************************************************)
(* StackSamplerLoopManager: the watcher thread that breaks the deadlocks a *)
(* suspended thread causes to the sampler, and stops sampling threads that *)
(* deadlock too often.  The sampler suspends its target, walks its stack   *)
(* (Windows64BitStackFramesCollector) and may get stuck on a lock that the *)
(* target holds; the watcher then resumes the target.                      *)
(*                                                                         *)
(* The manager's methods are critical sections of _watcherActivityLock,    *)
(* one step each, but for AllowStackWalk, which waits inside its critical  *)
(* section for the lock of the thread.                                     *)
(***************************************************************************)
EXTENDS Naturals, Sequences, FiniteSets

CONSTANTS Threads,
          NoThread,
          DeadlocksPerThreadThreshold,
          TotalDeadlocksThreshold,
          MaxSuspendCount, \* the operating system's limit
          MaxPeriods,      \* bound on the aggregation periods
          MaxStatistics    \* bound on the statistics that are published

ASSUME LoopManagerAssumption ==
    /\ NoThread \notin Threads
    /\ DeadlocksPerThreadThreshold \in Nat
    /\ TotalDeadlocksThreshold \in Nat
    /\ MaxSuspendCount \in Nat
    /\ MaxPeriods \in Nat
    /\ MaxStatistics \in Nat

VARIABLES
    \* the sampler thread
    spc,                \* where it is
    target,             \* the thread it samples
    \* the threads
    objLock,            \* who holds _objLock: nobody, "sampler" or "self"
    destroyed,          \* _isThreadDestroyed
    suspendCount,       \* the operating system's suspend count
    debugged,           \* suspended by somebody else as well
    deadlockCount,      \* _deadlockInPeriodCount
    deadlockPeriod,     \* _deadlockDetectionPeriod
    \* the manager
    activityLock,       \* the sampler is inside AllowStackWalk
    pTargetThread,      \* _pTargetThread
    collecting,         \* _collectionStartNs # 0
    targetSuspended,    \* _isTargetThreadSuspended
    intervention,       \* _deadlockInterventionInProgress
    abortRequested,     \* _isCurrentCollectionAbortRequested of the collector
    currentPeriod,      \* _currentPeriod
    deadlocksInPeriod,  \* _deadlocksInPeriod
    \* statistics
    published,          \* how many have been published
    ready,              \* _statisticsReadyToSend, 0 for none
    sending,            \* the ones the watcher is sending, 0 for none
    interventions,      \* the threads intervened on in this period, in order (history)
    faults              \* what may go wrong around the manager, fixed from the start

samplerVars == <<spc, target>>
threadVars == <<objLock, destroyed, suspendCount, debugged>>
deadlockVars == <<deadlockCount, deadlockPeriod, currentPeriod, deadlocksInPeriod, interventions>>
managerVars == <<activityLock, pTargetThread, collecting, targetSuspended, intervention,
                 abortRequested>>
statVars == <<published, ready, sending>>

vars == <<samplerVars, threadVars, deadlockVars, managerVars, statVars, faults>>

\* ResumeThread may return an error; somebody else may suspend threads too.
Faults == {"resumeFails", "debugger"}

SamplerStates == {"idle", "locking", "allowed", "suspended", "collecting", "stuck",
                  "collected", "ended", "resumed"}

Init ==
    /\ spc = "idle"
    /\ target = NoThread
    /\ objLock = [t \in Threads |-> "none"]
    /\ destroyed = [t \in Threads |-> FALSE]
    /\ suspendCount = [t \in Threads |-> 0]
    /\ debugged = [t \in Threads |-> FALSE]
    /\ deadlockCount = [t \in Threads |-> 0]
    /\ deadlockPeriod = [t \in Threads |-> 0]
    /\ activityLock = FALSE
    /\ pTargetThread = NoThread
    /\ collecting = FALSE
    /\ targetSuspended = FALSE
    /\ intervention = 0
    /\ abortRequested = FALSE
    /\ currentPeriod = 0
    /\ deadlocksInPeriod = 0
    /\ published = 0
    /\ ready = 0
    /\ sending = 0
    /\ interventions = <<>>
    /\ faults \in SUBSET Faults

(***************************************************************************)
(* The safety of collecting a thread.                                      *)
(***************************************************************************)
ShouldCollectThread(threadCount, globalCount) ==
    /\ threadCount <= DeadlocksPerThreadThreshold
    /\ globalCount <= TotalDeadlocksThreshold

StaleDeadlocksCount(t) == deadlockCount[t]

\* GetOrResetDeadlocksCount: counts of an earlier period are forgotten.
DeadlocksCount(t) == IF deadlockPeriod[t] = currentPeriod THEN deadlockCount[t] ELSE 0

(***************************************************************************)
(* The sampler thread: CollectOneThreadStackSample.                        *)
(***************************************************************************)
\* AllowStackWalk refuses an unsafe thread, or goes on to lock the thread.
AllowStackWalk(t) ==
    /\ spc = "idle"
    /\ deadlockCount' = [deadlockCount EXCEPT ![t] = DeadlocksCount(t)]
    /\ deadlockPeriod' = [deadlockPeriod EXCEPT ![t] = currentPeriod]
    /\ IF ShouldCollectThread(DeadlocksCount(t), deadlocksInPeriod)
       THEN /\ spc' = "locking"
            /\ target' = t
            /\ activityLock' = TRUE
       ELSE UNCHANGED <<spc, target, activityLock>>
    /\ UNCHANGED <<threadVars, currentPeriod, deadlocksInPeriod, interventions, pTargetThread,
                   collecting, targetSuspended, intervention, abortRequested, statVars, faults>>

ThreadLockedKeepsAbort ==
    /\ spc = "locking"
    /\ objLock[target] = "none"
    /\ ~destroyed[target]
    /\ activityLock' = FALSE
    /\ spc' = "allowed"
    /\ objLock' = [objLock EXCEPT ![target] = "sampler"]
    /\ pTargetThread' = target
    /\ targetSuspended' = FALSE
    /\ UNCHANGED <<target, destroyed, suspendCount, debugged, deadlockVars, collecting,
                   intervention, abortRequested, statVars, faults>>

\* The thread is locked, and PrepareForNextCollection clears the collector.
ThreadLocked ==
    /\ spc = "locking"
    /\ objLock[target] = "none"
    /\ ~destroyed[target]
    /\ activityLock' = FALSE
    /\ spc' = "allowed"
    /\ objLock' = [objLock EXCEPT ![target] = "sampler"]
    /\ pTargetThread' = target
    /\ targetSuspended' = FALSE
    /\ abortRequested' = FALSE
    /\ UNCHANGED <<target, destroyed, suspendCount, debugged, deadlockVars, collecting,
                   intervention, statVars, faults>>

ThreadWasDestroyed ==
    /\ spc = "locking"
    /\ objLock[target] = "none"
    /\ destroyed[target]
    /\ activityLock' = FALSE
    /\ spc' = "idle"
    /\ target' = NoThread
    /\ UNCHANGED <<threadVars, deadlockVars, pTargetThread, collecting, targetSuspended,
                   intervention, abortRequested, statVars, faults>>

\* SuspendThread; when the thread cannot be suspended the iteration is over.
SuspendTargetThread ==
    /\ spc = "allowed"
    /\ \/ /\ suspendCount[target] < MaxSuspendCount
          /\ suspendCount' = [suspendCount EXCEPT ![target] = @ + 1]
          /\ spc' = "suspended"
       \/ /\ spc' = "resumed"
          /\ UNCHANGED suspendCount
    /\ UNCHANGED <<target, objLock, destroyed, debugged, deadlockVars, managerVars, statVars,
                   faults>>

\* NotifyThreadState and NotifyCollectionStart.
NotifyCollectionStart ==
    /\ spc = "suspended"
    /\ spc' = "collecting"
    /\ targetSuspended' = TRUE
    /\ collecting' = TRUE
    /\ UNCHANGED <<target, threadVars, deadlockVars, activityLock, pTargetThread, intervention,
                   abortRequested, statVars, faults>>

\* The walk ends by itself, or waits for a lock that its suspended target holds.
CollectStackSample ==
    /\ spc = "collecting"
    /\ \/ spc' = "collected"
       \/ suspendCount[target] > 0 /\ spc' = "stuck"
    /\ UNCHANGED <<target, threadVars, deadlockVars, managerVars, statVars, faults>>

\* The target runs again and has released the lock.
LockReleased ==
    /\ spc = "stuck"
    /\ suspendCount[target] = 0
    /\ spc' = "collected"
    /\ UNCHANGED <<target, threadVars, deadlockVars, managerVars, statVars, faults>>

NotifyCollectionEnd ==
    /\ spc = "collected"
    /\ spc' = "ended"
    /\ collecting' = FALSE
    /\ intervention' = 0
    /\ UNCHANGED <<target, threadVars, deadlockVars, activityLock, pTargetThread, targetSuspended,
                   abortRequested, statVars, faults>>

\* ResumeThread decrements the suspend count, whoever incremented it.
ResumeThread(t) ==
    \/ suspendCount' = [suspendCount EXCEPT ![t] = IF @ = 0 THEN 0 ELSE @ - 1]
    \/ "resumeFails" \in faults /\ UNCHANGED suspendCount

ResumeForgotten ==
    /\ spc = "ended"
    /\ spc' = "resumed"
    /\ UNCHANGED <<target, threadVars, deadlockVars, managerVars, statVars, faults>>

\* The sampler resumes its target, unaware of what the watcher did.
ResumeTargetThread ==
    /\ spc = "ended"
    /\ spc' = "resumed"
    /\ ResumeThread(target)
    /\ UNCHANGED <<target, objLock, destroyed, debugged, deadlockVars, managerVars, statVars,
                   faults>>

\* Now and then the statistics of the last ten seconds are published.
NotifyIterationFinished ==
    /\ spc = "resumed"
    /\ spc' = "idle"
    /\ target' = NoThread
    /\ objLock' = [objLock EXCEPT ![pTargetThread] = "none"]
    /\ pTargetThread' = NoThread
    /\ collecting' = FALSE
    /\ targetSuspended' = FALSE
    /\ \/ UNCHANGED <<published, ready>>
       \/ /\ published < MaxStatistics
          /\ published' = published + 1
          /\ ready' = published + 1
    /\ UNCHANGED <<destroyed, suspendCount, debugged, deadlockVars, activityLock, intervention,
                   abortRequested, sending, faults>>

(***************************************************************************)
(* The watcher thread.                                                     *)
(***************************************************************************)
\* WatcherLoopIteration starts a new aggregation period when the last one is
\* over, the first time always.
Period(newPeriod) == IF newPeriod THEN currentPeriod + 1 ELSE currentPeriod

PeriodStarts(newPeriod) ==
    /\ ~activityLock
    /\ sending = 0
    /\ IF newPeriod THEN currentPeriod < MaxPeriods ELSE currentPeriod > 0
    /\ currentPeriod' = Period(newPeriod)

\* The interventions that the period, new or not, has seen.
InPeriod(newPeriod) == IF newPeriod THEN <<>> ELSE interventions

\* No collection, or one that does not take long yet, or one where the
\* intervention was noticed already.
NothingToDo(newPeriod) ==
    /\ PeriodStarts(newPeriod)
    /\ ~collecting \/ intervention # 1
    /\ deadlocksInPeriod' = IF newPeriod THEN 0 ELSE deadlocksInPeriod
    /\ interventions' = InPeriod(newPeriod)
    /\ UNCHANGED <<samplerVars, threadVars, deadlockCount, deadlockPeriod, managerVars, statVars,
                   faults>>

\* The intervention did not end the collection yet: log it once.
StillInProgress(newPeriod) ==
    /\ PeriodStarts(newPeriod)
    /\ collecting
    /\ intervention = 1
    /\ intervention' = 2
    /\ deadlocksInPeriod' = IF newPeriod THEN 0 ELSE deadlocksInPeriod
    /\ interventions' = InPeriod(newPeriod)
    /\ UNCHANGED <<samplerVars, threadVars, deadlockCount, deadlockPeriod, activityLock,
                   pTargetThread, collecting, targetSuspended, abortRequested, statVars, faults>>

InterventionWithoutResume(newPeriod) ==
    LET t == pTargetThread
        p == Period(newPeriod)
    IN  /\ PeriodStarts(newPeriod)
        /\ collecting
        /\ intervention = 0
        /\ intervention' = 1
        /\ deadlockCount' = [deadlockCount EXCEPT ![t] = IF deadlockPeriod[t] = p THEN @ + 1 ELSE 1]
        /\ deadlockPeriod' = [deadlockPeriod EXCEPT ![t] = p]
        /\ deadlocksInPeriod' = IF newPeriod THEN 1 ELSE deadlocksInPeriod + 1
        /\ interventions' = Append(InPeriod(newPeriod), t)
        /\ abortRequested' = TRUE
        /\ UNCHANGED <<samplerVars, threadVars, activityLock, pTargetThread,
                       collecting, targetSuspended, statVars, faults>>

\* The collection takes too long: count the deadlock, ask the collector to
\* abort, resume the target and log.
PerformDeadlockIntervention(newPeriod) ==
    LET t == pTargetThread
        p == Period(newPeriod)
    IN  /\ PeriodStarts(newPeriod)
        /\ collecting
        /\ intervention = 0
        /\ intervention' = 1
        /\ deadlockCount' = [deadlockCount EXCEPT ![t] = IF deadlockPeriod[t] = p THEN @ + 1 ELSE 1]
        /\ deadlockPeriod' = [deadlockPeriod EXCEPT ![t] = p]
        /\ deadlocksInPeriod' = IF newPeriod THEN 1 ELSE deadlocksInPeriod + 1
        /\ interventions' = Append(InPeriod(newPeriod), t)
        /\ abortRequested' = TRUE
        /\ IF targetSuspended THEN ResumeThread(t) ELSE UNCHANGED suspendCount
        /\ UNCHANGED <<samplerVars, objLock, destroyed, debugged, activityLock, pTargetThread,
                       collecting, targetSuspended, statVars, faults>>

\* SendStatistics, after the iteration and outside of the lock.
SendStatistics ==
    /\ ready # 0
    /\ sending = 0
    /\ sending' = ready
    /\ UNCHANGED <<samplerVars, threadVars, deadlockVars, managerVars, published, ready, faults>>

StatisticsSent ==
    /\ sending # 0
    /\ sending' = 0
    /\ ready' = 0
    /\ UNCHANGED <<samplerVars, threadVars, deadlockVars, managerVars, published, faults>>

(***************************************************************************)
(* The threads and whoever debugs them.                                    *)
(***************************************************************************)
\* A thread locks itself, for self collection.
LockSelf(t) ==
    /\ suspendCount[t] = 0
    /\ objLock[t] = "none"
    /\ ~destroyed[t]
    /\ objLock' = [objLock EXCEPT ![t] = "self"]
    /\ UNCHANGED <<samplerVars, destroyed, suspendCount, debugged, deadlockVars, managerVars,
                   statVars, faults>>

UnlockSelf(t) ==
    /\ suspendCount[t] = 0
    /\ objLock[t] = "self"
    /\ objLock' = [objLock EXCEPT ![t] = "none"]
    /\ UNCHANGED <<samplerVars, destroyed, suspendCount, debugged, deadlockVars, managerVars,
                   statVars, faults>>

SetThreadDestroyed(t) ==
    /\ suspendCount[t] = 0
    /\ objLock[t] = "none"
    /\ ~destroyed[t]
    /\ destroyed' = [destroyed EXCEPT ![t] = TRUE]
    /\ UNCHANGED <<samplerVars, objLock, suspendCount, debugged, deadlockVars, managerVars,
                   statVars, faults>>

DebuggerSuspends(t) ==
    /\ "debugger" \in faults
    /\ ~debugged[t]
    /\ suspendCount[t] < MaxSuspendCount
    /\ debugged' = [debugged EXCEPT ![t] = TRUE]
    /\ suspendCount' = [suspendCount EXCEPT ![t] = @ + 1]
    /\ UNCHANGED <<samplerVars, objLock, destroyed, deadlockVars, managerVars, statVars, faults>>

DebuggerResumes(t) ==
    /\ debugged[t]
    /\ debugged' = [debugged EXCEPT ![t] = FALSE]
    /\ suspendCount' = [suspendCount EXCEPT ![t] = IF @ = 0 THEN 0 ELSE @ - 1]
    /\ UNCHANGED <<samplerVars, objLock, destroyed, deadlockVars, managerVars, statVars, faults>>

(***************************************************************************)
(* The specification.                                                      *)
(***************************************************************************)
SamplerStep ==
    \/ ThreadLocked \/ ThreadWasDestroyed \/ SuspendTargetThread \/ NotifyCollectionStart
    \/ CollectStackSample \/ LockReleased \/ NotifyCollectionEnd \/ ResumeTargetThread
    \/ NotifyIterationFinished

Intervene == \E newPeriod \in BOOLEAN : PerformDeadlockIntervention(newPeriod)

Next ==
    \/ SamplerStep
    \/ Intervene
    \/ \E newPeriod \in BOOLEAN : NothingToDo(newPeriod) \/ StillInProgress(newPeriod)
    \/ SendStatistics
    \/ StatisticsSent
    \/ \E t \in Threads :
          \/ AllowStackWalk(t)
          \/ LockSelf(t) \/ UnlockSelf(t)
          \/ SetThreadDestroyed(t)
          \/ DebuggerSuspends(t) \/ DebuggerResumes(t)

Spec == Init /\ [][Next]_vars

\* Threads are scheduled; the watcher looks at a collection that lasts, and
\* its first iteration starts the first period.
FairSpec ==
    /\ Spec
    /\ WF_vars(SamplerStep)
    /\ WF_vars(Intervene)
    /\ WF_vars(StatisticsSent)
    /\ \A t \in Threads : WF_vars(UnlockSelf(t))

-----------------------------------------------------------------------------
(***************************************************************************)
(* Properties.                                                             *)
(***************************************************************************)
\* The variables have their types; an intervention is counted at most once
\* past the thresholds.
TypeOK ==
    /\ spc \in SamplerStates
    /\ target \in Threads \cup {NoThread}
    /\ objLock \in [Threads -> {"none", "sampler", "self"}]
    /\ destroyed \in [Threads -> BOOLEAN]
    /\ suspendCount \in [Threads -> 0 .. MaxSuspendCount]
    /\ debugged \in [Threads -> BOOLEAN]
    /\ deadlockCount \in [Threads -> 0 .. DeadlocksPerThreadThreshold + 1]
    /\ deadlockPeriod \in [Threads -> 0 .. MaxPeriods]
    /\ activityLock \in BOOLEAN
    /\ pTargetThread \in Threads \cup {NoThread}
    /\ collecting \in BOOLEAN
    /\ targetSuspended \in BOOLEAN
    /\ intervention \in 0 .. 2
    /\ abortRequested \in BOOLEAN
    /\ currentPeriod \in 0 .. MaxPeriods
    /\ deadlocksInPeriod \in 0 .. TotalDeadlocksThreshold + 1
    /\ published \in 0 .. MaxStatistics
    /\ ready \in 0 .. MaxStatistics
    /\ sending \in 0 .. MaxStatistics
    /\ interventions \in Seq(Threads)
    /\ faults \subseteq Faults

\* The interventions on a thread in the current period.
InterventionsOn(t) == Cardinality({n \in DOMAIN interventions : interventions[n] = t})

\* Counters that are only reset when somebody looks at them judge a thread by
\* exactly the interventions of the current period
\* (StackSamplerLoopManager.h:58-64).
SafetyIsPerPeriod ==
    \A t \in Threads :
        ShouldCollectThread(DeadlocksCount(t), deadlocksInPeriod) <=>
            /\ InterventionsOn(t) <= DeadlocksPerThreadThreshold
            /\ Len(interventions) <= TotalDeadlocksThreshold

\* A collection is not aborted because of an earlier one: an abort that is
\* requested was requested for the collection in progress
\* (StackFramesCollectorBase.cpp:56-62, 151-169).
AbortIsForThisCollection ==
    spc \in {"collecting", "stuck"} /\ abortRequested => intervention # 0

\* Between two collections no thread is left suspended by the profiler, unless
\* the system refused to resume it, although watcher and sampler both resume.
NoThreadLeftSuspended ==
    spc = "idle" /\ "resumeFails" \notin faults =>
        \A t \in Threads : suspendCount[t] <= (IF debugged[t] THEN 1 ELSE 0)

\* A sampler that is stuck on a lock of its suspended target gets going again,
\* when nobody else suspends the target and it can be resumed
\* (StackSamplerLoopManager.h:50-53).
DeadlockIsBroken == spc = "stuck" /\ faults = {} ~> spc = "idle"
=============================================================================
