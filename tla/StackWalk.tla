------------------------------ MODULE StackWalk ------------------------------
(***************************************************************************)
(* Sampling a thread's stack with a signal: the sampler thread picks a     *)
(* thread, sends it SIGUSR1 and waits up to two seconds; the handler on    *)
(* the interrupted thread walks its own stack into the sampler's buffer    *)
(* and notifies (LinuxStackFramesCollector and StackFramesCollectorBase,   *)
(* called from StackSamplerLoop::CollectOneThreadStackSample).             *)
(*                                                                         *)
(* Around it: the application installs signal handlers (SignalManager),    *)
(* sends SIGUSR1 itself, ends threads and walks the stack of its own       *)
(* threads (self collection).                                              *)
(***************************************************************************)
EXTENDS SignalManager, Naturals

CONSTANTS Threads,         \* the application's threads
          Sampler,         \* the sampler thread
          NoThread,        \* a null pointer, an empty buffer, a free lock
          MaxAppSignals,   \* bound on the SIGUSR1 the profiler did not send
          SpuriousWakeups  \* whether a wait on a condition may end unprompted

ASSUME StackWalkAssumption ==
    /\ Sampler \notin Threads
    /\ NoThread \notin Threads \cup {Sampler}
    /\ MaxAppSignals \in Nat
    /\ SpuriousWakeups \in BOOLEAN

VARIABLES
    \* the sampler thread and its collector
    spc,                \* where the sampler is
    target,             \* the thread it picked
    currentThreadInfo,  \* _pCurrentCollectionThreadInfo
    instance,           \* s_pInstanceCurrentlyStackWalking is not null
    notified,           \* the waiting sampler was notified
    lastErrorCode,      \* _lastStackWalkErrorCode
    buffer,             \* whose stack the snapshot buffer holds
    hr,                 \* the result of the collection
    \* locks
    walkMutex,          \* the thread whose handler holds s_stackWalkInProgressMutex
    objLock,            \* who holds the _objLock of each ManagedThreadInfo
    \* the threads
    life,               \* what the profiler knows of each thread
    apc,                \* what each thread does outside of the handler
    hpc,                \* where its signal handler is
    hcode,              \* what its handler's stack walk returned
    hsource,            \* who sent the signal it handles
    pending,            \* the profiler's signal is pending for the thread
    appSignals          \* how many signals the profiler did not send are to come

samplerVars == <<spc, target, currentThreadInfo, instance, notified,
                 lastErrorCode, buffer, hr>>
handlerVars == <<hpc, hcode, hsource, pending, appSignals>>
threadVars == <<life, apc>>

vars == <<sigVars, samplerVars, walkMutex, objLock, threadVars, handlerVars>>

SamplerStates == {"idle", "picked", "prepared", "waiting", "leaving"}
HandlerStates == {"none", "locking", "walking", "notifying"}
ThreadStates == {"running", "selfCollecting", "exited"}
Codes == {"ok", "fail", "abort"}
Sources == {"none", "profiler", "process", "otherProcess"}

Init ==
    /\ SigInit
    /\ spc = "idle"
    /\ target = NoThread
    /\ currentThreadInfo = NoThread
    /\ instance = FALSE
    /\ notified = FALSE
    /\ lastErrorCode = "ok"
    /\ buffer = NoThread
    /\ hr = "fail"
    /\ walkMutex = NoThread
    /\ objLock = [t \in Threads |-> NoThread]
    /\ life = [t \in Threads |-> "listed"]
    /\ apc = [t \in Threads |-> "running"]
    /\ hpc = [t \in Threads |-> "none"]
    /\ hcode = [t \in Threads |-> "ok"]
    /\ hsource = [t \in Threads |-> "none"]
    /\ pending = [t \in Threads |-> FALSE]
    /\ appSignals = MaxAppSignals

(***************************************************************************)
(* The collectors.  Constructing one, the sampler's or one for a thread's  *)
(* own use, installs the profiler's handler.                               *)
(***************************************************************************)
NewCollector ==
    /\ RegisterHandler
    /\ UNCHANGED <<samplerVars, walkMutex, objLock, threadVars, handlerVars>>

AppInstallsHandler ==
    /\ AppInstalls
    /\ UNCHANGED <<samplerVars, walkMutex, objLock, threadVars, handlerVars>>

(***************************************************************************)
(* The sampler thread.                                                     *)
(***************************************************************************)
Pick(t) ==
    /\ spc = "idle"
    /\ life[t] = "listed"
    /\ spc' = "picked"
    /\ target' = t
    /\ UNCHANGED <<sigVars, currentThreadInfo, instance, notified, lastErrorCode,
                   buffer, hr, walkMutex, objLock, threadVars, handlerVars>>

\* AllowStackWalk locks the thread and gives up on a destroyed one;
\* PrepareForNextCollection clears the collector.
AllowStackWalk ==
    /\ spc = "picked"
    /\ objLock[target] = NoThread
    /\ IF life[target] = "destroyed"
       THEN /\ spc' = "idle"
            /\ target' = NoThread
            /\ UNCHANGED <<objLock, buffer, currentThreadInfo>>
       ELSE /\ spc' = "prepared"
            /\ objLock' = [objLock EXCEPT ![target] = Sampler]
            /\ buffer' = NoThread
            /\ currentThreadInfo' = NoThread
            /\ UNCHANGED target
    /\ UNCHANGED <<sigVars, instance, notified, lastErrorCode, hr, walkMutex,
                   threadVars, handlerVars>>

HandlerNotInPlace ==
    /\ spc = "prepared"
    /\ ~isHandlerInPlace
    /\ spc' = "leaving"
    /\ hr' = "fail"
    /\ UNCHANGED <<sigVars, target, currentThreadInfo, instance, notified, lastErrorCode,
                   buffer, walkMutex, objLock, threadVars, handlerVars>>

\* tgkill succeeds and the sampler waits, releasing the mutex.
SendSignal ==
    /\ spc = "prepared"
    /\ isHandlerInPlace
    /\ walkMutex = NoThread
    /\ apc[target] # "exited"
    /\ spc' = "waiting"
    /\ currentThreadInfo' = target
    /\ instance' = TRUE
    /\ notified' = FALSE
    /\ pending' = [pending EXCEPT ![target] = TRUE]
    /\ UNCHANGED <<sigVars, target, lastErrorCode, buffer, hr, walkMutex, objLock,
                   threadVars, hpc, hcode, hsource, appSignals>>

\* tgkill returns -1, the thread is gone: the whole collection is one step.
SendSignalFails ==
    /\ spc = "prepared"
    /\ isHandlerInPlace
    /\ walkMutex = NoThread
    /\ apc[target] = "exited"
    /\ spc' = "leaving"
    /\ hr' = "fail"
    /\ UNCHANGED <<sigVars, target, currentThreadInfo, instance, notified, lastErrorCode,
                   buffer, walkMutex, objLock, threadVars, handlerVars>>

\* The wait is over, the mutex reacquired: no collection is in progress.
StopWaiting ==
    /\ spc = "waiting"
    /\ walkMutex = NoThread
    /\ spc' = "leaving"
    /\ instance' = FALSE
    /\ notified' = FALSE
    /\ currentThreadInfo' = NoThread
    /\ UNCHANGED <<target, buffer, walkMutex, objLock, threadVars, handlerVars>>

\* The wait has no predicate: any notification, or none, ends it, and
\* what the last handler stored is the result.
WakeNotified ==
    /\ notified \/ SpuriousWakeups
    /\ StopWaiting
    /\ hr' = IF lastErrorCode = "ok" THEN "ok" ELSE "fail"
    /\ UNCHANGED <<sigVars, lastErrorCode>>

\* Two seconds have passed; CheckSignalHandler may restore the handler.
WakeTimeout ==
    /\ StopWaiting
    /\ hr' = "fail"
    /\ \/ (CheckStillInstalled \/ CheckRestores) /\ lastErrorCode' = "abort"
       \/ CheckFails /\ lastErrorCode' = "fail"

\* NotifyIterationFinished unlocks the thread; a snapshot that has frames
\* becomes a sample of the target, whatever the result was, and is moved out.
Leave ==
    /\ spc = "leaving"
    /\ spc' = "idle"
    /\ objLock' = [objLock EXCEPT ![target] = NoThread]
    /\ target' = NoThread
    /\ buffer' = NoThread
    /\ hr' = "fail"
    /\ UNCHANGED <<sigVars, currentThreadInfo, instance, notified, lastErrorCode,
                   walkMutex, threadVars, handlerVars>>

(***************************************************************************)
(* The signal handler, on thread t.                                        *)
(***************************************************************************)
HandlerReturns(t) ==
    /\ hpc' = [hpc EXCEPT ![t] = "none"]
    /\ hsource' = [hsource EXCEPT ![t] = "none"]
    /\ hcode' = [hcode EXCEPT ![t] = "ok"]

\* A signal for t: the profiler's own, or one of the application's.
TakesSignal(t, source) ==
    /\ apc[t] # "exited"
    /\ hpc[t] = "none"
    /\ \/ /\ source = "profiler"
          /\ pending[t]
          /\ pending' = [pending EXCEPT ![t] = FALSE]
          /\ UNCHANGED appSignals
       \/ /\ source \in {"process", "otherProcess"}
          /\ appSignals > 0
          /\ appSignals' = appSignals - 1
          /\ UNCHANGED pending

\* The handler starts: it looks at the collector in progress without a lock,
\* and is done when there is none.  The application's handler may call it.
Deliver(t, source) ==
    /\ disposition \in {"profiler", "app"}
    /\ TakesSignal(t, source)
    /\ IF instance
       THEN /\ hpc' = [hpc EXCEPT ![t] = "locking"]
            /\ hsource' = [hsource EXCEPT ![t] = source]
       ELSE UNCHANGED <<hpc, hsource>>
    /\ UNCHANGED <<sigVars, samplerVars, walkMutex, objLock, threadVars, hcode>>

\* The application's handler does not call the one it replaced.
AppSwallows(t, source) ==
    /\ disposition = "app"
    /\ TakesSignal(t, source)
    /\ UNCHANGED <<sigVars, samplerVars, walkMutex, objLock, threadVars, hpc, hcode, hsource>>

CanCollectAnyThread(t) == currentThreadInfo # NoThread /\ hsource[t] # "otherProcess"

CanCollect(t) == currentThreadInfo = t /\ hsource[t] # "otherProcess"

\* The handler locks the mutex and looks again at the collector.  It may return
\* although CanCollect holds: it never walks the stack of a SIGSEGV handler.
LockMutex(t) ==
    /\ hpc[t] = "locking"
    /\ walkMutex = NoThread
    /\ \/ /\ instance
          /\ CanCollect(t)
          /\ walkMutex' = t
          /\ hpc' = [hpc EXCEPT ![t] = "walking"]
          /\ UNCHANGED <<hcode, hsource>>
       \/ /\ HandlerReturns(t)
          /\ UNCHANGED walkMutex
    /\ UNCHANGED <<sigVars, samplerVars, objLock, threadVars, pending, appSignals>>

WalkStackKeepsMutex(t) ==
    /\ hpc[t] = "walking"
    /\ \E code \in Codes :
          /\ hcode' = [hcode EXCEPT ![t] = code]
          /\ buffer' = IF code = "ok" THEN t ELSE buffer
    /\ hpc' = [hpc EXCEPT ![t] = "notifying"]
    /\ UNCHANGED <<sigVars, spc, target, currentThreadInfo, instance, notified,
                   lastErrorCode, hr, walkMutex, objLock, threadVars, hsource, pending, appSignals>>

\* The walk may find no frame, throw, or meet a wrapped function; then the
\* handler unlocks the mutex.
WalkStack(t) ==
    /\ hpc[t] = "walking"
    /\ \E code \in Codes :
          /\ hcode' = [hcode EXCEPT ![t] = code]
          /\ buffer' = IF code = "ok" THEN t ELSE buffer
    /\ walkMutex' = NoThread
    /\ hpc' = [hpc EXCEPT ![t] = "notifying"]
    /\ UNCHANGED <<sigVars, spc, target, currentThreadInfo, instance, notified,
                   lastErrorCode, hr, objLock, threadVars, hsource, pending, appSignals>>

\* NotifyStackWalkCompleted, without the mutex: the sampler that waits now is
\* woken up, whichever collection it waits for.
NotifyStackWalkCompleted(t) ==
    /\ hpc[t] = "notifying"
    /\ lastErrorCode' = hcode[t]
    /\ notified' = (spc = "waiting")
    /\ HandlerReturns(t)
    /\ UNCHANGED <<sigVars, spc, target, currentThreadInfo, instance, buffer, hr,
                   walkMutex, objLock, threadVars, pending, appSignals>>

(***************************************************************************)
(* Thread t outside of the handler.                                        *)
(***************************************************************************)
Runs(t) == hpc[t] = "none" /\ apc[t] # "exited"

SelfCollectNoLock(t) ==
    /\ Runs(t)
    /\ apc[t] = "running"
    /\ life[t] = "listed"
    /\ apc' = [apc EXCEPT ![t] = "selfCollecting"]
    /\ UNCHANGED <<sigVars, samplerVars, walkMutex, objLock, life, handlerVars>>

\* t walks its own stack, with a collector of its own, for an exception or an
\* allocation sample: it first locks itself against the sampler.
SelfCollect(t) ==
    /\ Runs(t)
    /\ apc[t] = "running"
    /\ life[t] = "listed"
    /\ objLock[t] = NoThread
    /\ objLock' = [objLock EXCEPT ![t] = t]
    /\ apc' = [apc EXCEPT ![t] = "selfCollecting"]
    /\ UNCHANGED <<sigVars, samplerVars, walkMutex, life, handlerVars>>

SelfCollectEnds(t) ==
    /\ Runs(t)
    /\ apc[t] = "selfCollecting"
    /\ objLock' = [objLock EXCEPT ![t] = NoThread]
    /\ apc' = [apc EXCEPT ![t] = "running"]
    /\ UNCHANGED <<sigVars, samplerVars, walkMutex, life, handlerVars>>

\* ThreadDestroyed takes t out of the list of managed threads ...
UnregisterThread(t) ==
    /\ life[t] = "listed"
    /\ apc[t] \in {"running", "exited"}
    /\ life' = [life EXCEPT ![t] = "unlisted"]
    /\ UNCHANGED <<sigVars, samplerVars, walkMutex, objLock, apc, handlerVars>>

SetThreadDestroyedNoLock(t) ==
    /\ life[t] = "unlisted"
    /\ life' = [life EXCEPT ![t] = "destroyed"]
    /\ UNCHANGED <<sigVars, samplerVars, walkMutex, objLock, apc, handlerVars>>

\* ... and then, under its lock, marks it destroyed.
SetThreadDestroyed(t) ==
    /\ life[t] = "unlisted"
    /\ objLock[t] = NoThread
    /\ life' = [life EXCEPT ![t] = "destroyed"]
    /\ UNCHANGED <<sigVars, samplerVars, walkMutex, objLock, apc, handlerVars>>

\* The operating system's thread ends, before or after ThreadDestroyed.
ThreadExits(t) ==
    /\ Runs(t)
    /\ apc[t] = "running"
    /\ apc' = [apc EXCEPT ![t] = "exited"]
    /\ pending' = [pending EXCEPT ![t] = FALSE]
    /\ UNCHANGED <<sigVars, samplerVars, walkMutex, objLock, life, hpc, hcode, hsource,
                   appSignals>>

(***************************************************************************)
(* The specification.                                                      *)
(***************************************************************************)
SamplerStep ==
    \/ AllowStackWalk \/ HandlerNotInPlace \/ SendSignal \/ SendSignalFails
    \/ WakeNotified \/ WakeTimeout \/ Leave

HandlerStep(t) == LockMutex(t) \/ WalkStack(t) \/ NotifyStackWalkCompleted(t)

Next ==
    \/ NewCollector
    \/ AppInstallsHandler
    \/ SamplerStep
    \/ \E t \in Threads :
          \/ Pick(t)
          \/ \E source \in Sources : Deliver(t, source) \/ AppSwallows(t, source)
          \/ HandlerStep(t)
          \/ SelfCollect(t) \/ SelfCollectEnds(t)
          \/ UnregisterThread(t) \/ SetThreadDestroyed(t) \/ ThreadExits(t)

Spec == Init /\ [][Next]_vars

\* Threads are scheduled: the sampler's next step, its two second timeout
\* among them, a handler that was entered, a self collection and a
\* ThreadDestroyed callback all go on.
FairSpec ==
    /\ Spec
    /\ WF_vars(SamplerStep)
    /\ \A t \in Threads :
          /\ WF_vars(HandlerStep(t))
          /\ WF_vars(SelfCollectEnds(t))
          /\ WF_vars(SetThreadDestroyed(t))

-----------------------------------------------------------------------------
(***************************************************************************)
(* Properties.                                                             *)
(***************************************************************************)
\* The variables have their types.
TypeOK ==
    /\ SigTypeOK
    /\ spc \in SamplerStates
    /\ target \in Threads \cup {NoThread}
    /\ currentThreadInfo \in Threads \cup {NoThread}
    /\ instance \in BOOLEAN
    /\ notified \in BOOLEAN
    /\ lastErrorCode \in Codes
    /\ buffer \in Threads \cup {NoThread}
    /\ hr \in {"ok", "fail"}
    /\ walkMutex \in Threads \cup {NoThread}
    /\ objLock \in [Threads -> Threads \cup {Sampler, NoThread}]
    /\ life \in [Threads -> {"listed", "unlisted", "destroyed"}]
    /\ apc \in [Threads -> ThreadStates]
    /\ hpc \in [Threads -> HandlerStates]
    /\ hcode \in [Threads -> Codes]
    /\ hsource \in [Threads -> Sources]
    /\ pending \in [Threads -> BOOLEAN]
    /\ appSignals \in 0 .. MaxAppSignals

\* A handler that walks a stack into the sampler's buffer does so while the
\* sampler waits for that very thread, has it locked and holds its buffer
\* ready; a signal that comes late never touches the buffer of a collection
\* that is over or that is for another thread
\* (LinuxStackFramesCollector.cpp:301-325).
WalkOnlyWhenAwaited ==
    \A t \in Threads : hpc[t] = "walking" =>
        /\ spc = "waiting"
        /\ target = t
        /\ objLock[t] = Sampler
        /\ walkMutex = t

\* The frames that become a sample of the target are the target's, even when
\* handlers of earlier signals, and of other processes' signals, still run
\* (StackSamplerLoop.cpp:563-571).
SampleIsOfTarget ==
    spc \in {"prepared", "waiting", "leaving"} => buffer \in {target, NoThread}

\* A thread that walks its own stack is not walked by the signal handler on
\* top of it (comment at LinuxStackFramesCollector.cpp:106-108).
SelfCollectUninterrupted ==
    \A t \in Threads : apc[t] = "selfCollecting" => hpc[t] # "walking"

\* A thread is not marked destroyed in the middle of its collection: once
\* AllowStackWalk has seen it alive it stays so until the sampler lets go
\* (StackSamplerLoopManager.cpp:424-476, ManagedThreadInfo.h:383-393).
NotDestroyedWhileSampled ==
    spc \in {"prepared", "waiting", "leaving"} => life[target] # "destroyed"

\* The runtime's ThreadDestroyed callback, which waits for the sampler and for
\* self collection, returns: a collection of the thread ends, whatever became
\* of its signal, swallowed, handled late or never.
ThreadDestroyedReturns ==
    \A t \in Threads : life[t] = "unlisted" ~> life[t] = "destroyed"

-----------------------------------------------------------------------------
Collecting == spc \in {"prepared", "waiting", "leaving"}

\* What the sampler knows of the thread it collects: it has it locked, found
\* it alive, and nobody but its handler wrote the buffer.
SamplerInv ==
    /\ spc # "idle" => target \in Threads
    /\ Collecting => /\ objLock[target] = Sampler
                     /\ life[target] # "destroyed"
                     /\ buffer \in {target, NoThread}

\* The collector in progress is visible to handlers exactly while the sampler
\* waits, and it is for the target.
InstanceInv ==
    /\ instance <=> spc = "waiting"
    /\ instance => currentThreadInfo = target

\* Who holds a thread's lock.
LockInv ==
    \A t \in Threads :
        /\ objLock[t] \in {NoThread, Sampler, t}
        /\ objLock[t] = Sampler => Collecting /\ target = t
        /\ apc[t] = "selfCollecting" => objLock[t] = t

\* A handler walks exactly while it holds the mutex, and only for the
\* collection in progress.
WalkInv ==
    \A t \in Threads :
        /\ hpc[t] = "walking" <=> walkMutex = t
        /\ hpc[t] = "walking" => spc = "waiting" /\ target = t

\* The inductive invariant: the sampler, the locks and the handlers agree.
IInv == TypeOK /\ SamplerInv /\ InstanceInv /\ LockInv /\ WalkInv
=============================================================================
