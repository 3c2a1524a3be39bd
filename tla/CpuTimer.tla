------------------------------- MODULE CpuTimer -------------------------------
(***************************************************************************)
(* TimerCreateCpuProfiler: every managed thread gets a kernel timer on its *)
(* own CPU clock, which sends it SIGPROF; the signal handler collects a    *)
(* sample.  The profiler is started and stopped (for good, or to be        *)
(* started again) while threads come, are sampled and end.                 *)
(*                                                                         *)
(* The actors are the controller (Start, Stop, StopWithState, one call at  *)
(* a time as ServiceBase sees to it) and the threads, each with its own    *)
(* code and the signal handler that interrupts it.                         *)
(***************************************************************************)
EXTENDS Naturals, FiniteSets

CONSTANTS
    Threads,      \* application threads
    MaxStarts,    \* bound: how often the profiler is started
    MaxFires      \* bound: how often timers fire, over all threads

ASSUME CpuTimerAssumption ==
    IsFiniteSet(Threads) /\ MaxStarts \in Nat /\ MaxFires \in Nat

VARIABLES
    state,          \* ServiceBase::_currentState
    control,        \* where the controller is
    final,          \* the stop under way is Stop(), not StopWithState(Init)
    engineActive,   \* callbacks of the runtime pass their EngineActiveGuard
    instance,       \* TimerCreateCpuProfiler::Instance is set
    installed,      \* SIGPROF goes to the profiler's handler; it is ignored otherwise
    readers,        \* threads that hold _registerLock shared
    life,           \* where each thread is in its life
    current,        \* threads whose ManagedThreadInfo::CurrentThreadInfo is set
    timerId,        \* threads whose ManagedThreadInfo has a timer id
    kernel,         \* threads with a timer in the kernel
    pending,        \* threads with a SIGPROF to be delivered
    handler,        \* where each thread is in the signal handler
    infoLock,       \* owner of each ManagedThreadInfo's _objLock
    nbThreadsInSignalHandler,
    excused,        \* threads that are known to have no timer although it is started
    starts, fires

controlVars == <<state, control, final, engineActive, instance, installed, starts>>
timerVars == <<timerId, kernel, excused>>
handlerVars == <<handler, infoLock, nbThreadsInSignalHandler>>
cpuTimerVars == <<controlVars, readers, life, current, timerVars, pending, handlerVars, fires>>

\* The type of every variable; a thread's lock is the handler's exactly while
\* its StackWalkLock lives.
TimerTypeOK ==
    /\ state \in {"Init", "Starting", "Started", "Stopping", "Stopped"}
    /\ control \in {"idle", "handler", "timers", "ready", "ignore", "delete", "check", "sleep"}
    /\ {final, engineActive, instance, installed} \subseteq BOOLEAN
    /\ life \in [Threads -> {"new", "listed", "registering", "live", "removed", "marking",
                             "unlisted", "destroyed", "finished"}]
    /\ {readers, current, timerId, kernel, pending, excused} \subseteq SUBSET Threads
    /\ handler \in [Threads -> {"out", "loaded", "counted", "locked", "leaving"}]
    /\ infoLock \in [Threads -> {"free", "handler", "self", "sampler"}]
    /\ \A t \in Threads : infoLock[t] = "handler" <=> handler[t] \in {"locked", "leaving"}
    /\ nbThreadsInSignalHandler \in Nat
    /\ starts \in 0..MaxStarts
    /\ fires \in 0..MaxFires

TimerInit ==
    /\ state = "Init"
    /\ control = "idle"
    /\ final = FALSE
    /\ engineActive = TRUE
    /\ instance = FALSE
    /\ installed = FALSE
    /\ readers = {}
    /\ life = [t \in Threads |-> "new"]
    /\ current = {}
    /\ timerId = {}
    /\ kernel = {}
    /\ pending = {}
    /\ handler = [t \in Threads |-> "out"]
    /\ infoLock = [t \in Threads |-> "free"]
    /\ nbThreadsInSignalHandler = 0
    /\ excused = {}
    /\ starts = 0
    /\ fires = 0

\* The threads in the managed thread list.
Listed == {t \in Threads : life[t] \in {"listed", "registering", "live"}}

(***************************************************************************)
(* RegisterThreadImpl for a set of threads, of which those in bad get no   *)
(* timer from timer_create, and UnregisterThreadImpl.                      *)
(***************************************************************************)
CreateTimers(ts, bad) ==
    LET new == (ts \ timerId) \ bad IN
    /\ timerId' = timerId \cup new
    /\ kernel' = kernel \cup new
    /\ excused' = (excused \ ts) \cup (bad \ timerId)

DeleteTimersKeepIds(ts) ==
    /\ kernel' = kernel \ (ts \cap timerId)
    /\ UNCHANGED timerId

DeleteTimers(ts) ==
    /\ kernel' = kernel \ (ts \cap timerId)
    /\ timerId' = timerId \ ts

(***************************************************************************)
(* The controller.                                                         *)
(***************************************************************************)
Start ==
    /\ control = "idle"
    /\ engineActive
    /\ state = "Init"
    /\ starts < MaxStarts
    /\ state' = "Starting"
    /\ control' = "handler"
    /\ starts' = starts + 1
    /\ UNCHANGED <<final, engineActive, instance, installed, readers, life, current, timerVars,
                   pending, handlerVars, fires>>

RegisterHandler ==
    /\ control = "handler"
    /\ \/ installed' = TRUE /\ control' = "timers" /\ UNCHANGED state
       \/ state' = "Init" /\ control' = "idle" /\ UNCHANGED installed
    /\ UNCHANGED <<final, engineActive, instance, starts, readers, life, current, timerVars,
                   pending, handlerVars, fires>>

\* Under the exclusive lock; timer_create may fail for any thread.
StartTimers ==
    /\ control = "timers"
    /\ readers = {}
    /\ instance' = TRUE
    /\ \E bad \in SUBSET Listed : CreateTimers(Listed, bad)
    /\ control' = "ready"
    /\ UNCHANGED <<state, final, engineActive, installed, starts, readers, life, current, pending,
                   handlerVars, fires>>

Started ==
    /\ control = "ready"
    /\ state' = "Started"
    /\ control' = "idle"
    /\ UNCHANGED <<final, engineActive, instance, installed, starts, readers, life, current,
                   timerVars, pending, handlerVars, fires>>

\* Stop, StopWithState(Init) from SetStackSamplerEnabled, and once more Stop
\* when the services are disposed of.
Stop ==
    /\ control = "idle"
    /\ state = "Started"
    /\ state' = "Stopping"
    /\ final' \in (IF engineActive THEN BOOLEAN ELSE {TRUE})
    /\ instance' = FALSE
    /\ control' = "ignore"
    /\ UNCHANGED <<engineActive, installed, starts, readers, life, current, timerVars, pending,
                   handlerVars, fires>>

\* Signals that are pending when they become ignored are discarded.
IgnoreSignal ==
    /\ control = "ignore"
    /\ installed' = FALSE
    /\ pending' = {}
    /\ control' = "delete"
    /\ UNCHANGED <<state, final, engineActive, instance, starts, readers, life, current,
                   timerVars, handlerVars, fires>>

StopTimers ==
    /\ control = "delete"
    /\ readers = {}
    /\ DeleteTimers(Listed)
    /\ control' = "check"
    /\ UNCHANGED <<state, final, engineActive, instance, installed, starts, readers, life,
                   current, excused, pending, handlerVars, fires>>

Stopped ==
    /\ nbThreadsInSignalHandler = 0
    /\ state' = IF final THEN "Stopped" ELSE "Init"
    /\ control' = "idle"
    /\ UNCHANGED excused

\* StopImpl returns false: the service is "Started", with no timers.
StopFails ==
    /\ nbThreadsInSignalHandler # 0
    /\ state' = "Started"
    /\ control' = "idle"
    /\ excused' = Listed

WaitForHandlers ==
    /\ control \in {"check", "sleep"}
    /\ \/ Stopped
       \/ control = "sleep" /\ StopFails
       \/ /\ control = "check"
          /\ nbThreadsInSignalHandler # 0
          /\ control' = "sleep"
          /\ UNCHANGED <<state, excused>>
    /\ UNCHANGED <<final, engineActive, instance, installed, starts, readers, life, current,
                   timerId, kernel, pending, handlerVars, fires>>

\* DisposeInternal, after Shutdown's own Stop.
Dispose ==
    /\ control = "idle"
    /\ engineActive
    /\ final
    /\ engineActive' = FALSE
    /\ UNCHANGED <<state, control, final, instance, installed, starts, readers, life, current,
                   timerVars, pending, handlerVars, fires>>

(***************************************************************************)
(* The code of a thread, interrupted while it is in the signal handler.    *)
(***************************************************************************)
Runs(t, from, to) ==
    /\ life[t] = from
    /\ handler[t] = "out"
    /\ life' = [life EXCEPT ![t] = to]

\* ThreadAssignedToOSThread: the thread enters the list with its OS thread id.
ThreadAssigned(t) ==
    /\ engineActive
    /\ Runs(t, "new", "listed")
    /\ current' = current \cup {t}
    /\ UNCHANGED <<controlVars, readers, timerVars, pending, handlerVars, fires>>

RegisterUnlocked(t) ==
    /\ Runs(t, "listed", IF state = "Started" THEN "registering" ELSE "live")
    /\ excused' = IF state = "Starting" THEN excused \cup {t} ELSE excused
    /\ UNCHANGED <<controlVars, readers, current, timerId, kernel, pending, handlerVars, fires>>

\* RegisterThread looks at the state under the shared lock and keeps it.  A
\* thread that comes while the profiler is "Starting" gets no timer here.
RegisterThread(t) ==
    /\ Runs(t, "listed", IF state = "Started" THEN "registering" ELSE "live")
    /\ readers' = IF state = "Started" THEN readers \cup {t} ELSE readers
    /\ excused' = IF state = "Starting" THEN excused \cup {t} ELSE excused
    /\ UNCHANGED <<controlVars, current, timerId, kernel, pending, handlerVars, fires>>

RegisterThreadImpl(t) ==
    /\ Runs(t, "registering", "live")
    /\ \E bad \in SUBSET {t} : CreateTimers({t}, bad)
    /\ readers' = readers \ {t}
    /\ UNCHANGED <<controlVars, current, pending, handlerVars, fires>>

\* ThreadDestroyed, step by step: off the list, marked under the thread's own
\* lock, and its timer deleted.
ThreadDestroyed(t) ==
    /\ engineActive
    /\ Runs(t, "live", "removed")
    /\ current' = current \ {t}
    /\ UNCHANGED <<controlVars, readers, timerVars, pending, handlerVars, fires>>

SetThreadDestroyed(t) ==
    /\ infoLock[t] = "free"
    /\ Runs(t, "removed", "marking")
    /\ infoLock' = [infoLock EXCEPT ![t] = "self"]
    /\ UNCHANGED <<controlVars, readers, current, timerVars, pending, handler,
                   nbThreadsInSignalHandler, fires>>

ThreadIsMarked(t) ==
    /\ Runs(t, "marking", "unlisted")
    /\ infoLock' = [infoLock EXCEPT ![t] = "free"]
    /\ UNCHANGED <<controlVars, readers, current, timerVars, pending, handler,
                   nbThreadsInSignalHandler, fires>>

UnregisterThread(t) ==
    /\ Runs(t, "unlisted", "destroyed")
    /\ DeleteTimers({t})
    /\ UNCHANGED <<controlVars, readers, current, excused, pending, handlerVars, fires>>

\* OnThreadRoutineFinished, for a thread whose ThreadDestroyed was ignored
\* because the engine is no longer active.
OnThreadRoutineFinished(t) ==
    /\ ~engineActive
    /\ Runs(t, "live", "finished")
    /\ IF t \in current THEN DeleteTimers({t}) ELSE UNCHANGED <<timerId, kernel>>
    /\ UNCHANGED <<controlVars, readers, current, excused, pending, handlerVars, fires>>

\* For the others CurrentThreadInfo is null by then.
ThreadFinishes(t) ==
    /\ Runs(t, "destroyed", "finished")
    /\ UNCHANGED <<controlVars, readers, current, timerVars, pending, handlerVars, fires>>

(***************************************************************************)
(* The environment: timers fire, and the wall time sampler walks a thread. *)
(***************************************************************************)
TimerFires(t) ==
    /\ t \in kernel
    /\ installed
    /\ t \notin pending
    /\ life[t] # "finished"
    /\ fires < MaxFires
    /\ fires' = fires + 1
    /\ pending' = pending \cup {t}
    /\ UNCHANGED <<controlVars, readers, life, current, timerVars, handlerVars>>

SamplerLocks(t) ==
    /\ life[t] = "live"
    /\ infoLock[t] = "free"
    /\ infoLock' = [infoLock EXCEPT ![t] = "sampler"]
    /\ UNCHANGED <<controlVars, readers, life, current, timerVars, pending, handler,
                   nbThreadsInSignalHandler, fires>>

SamplerUnlocks(t) ==
    /\ infoLock[t] = "sampler"
    /\ infoLock' = [infoLock EXCEPT ![t] = "free"]
    /\ UNCHANGED <<controlVars, readers, life, current, timerVars, pending, handler,
                   nbThreadsInSignalHandler, fires>>

(***************************************************************************)
(* The signal handler.  What it does with the sample is left out: whether  *)
(* it is discarded or kept, it leaves the same way.                        *)
(***************************************************************************)
HandlerUnchanged == UNCHANGED <<controlVars, readers, life, current, timerVars, fires>>

\* CollectStackSampleSignalHandler reads Instance; without one it returns.
HandlerBegins(t) ==
    /\ t \in pending
    /\ handler[t] = "out"
    /\ life[t] # "finished"
    /\ pending' = pending \ {t}
    /\ handler' = [handler EXCEPT ![t] = IF instance THEN "loaded" ELSE "out"]
    /\ UNCHANGED <<infoLock, nbThreadsInSignalHandler>>
    /\ HandlerUnchanged

CollectEnters(t) ==
    /\ handler[t] = "loaded"
    /\ handler' = [handler EXCEPT ![t] = "counted"]
    /\ nbThreadsInSignalHandler' = nbThreadsInSignalHandler + 1
    /\ UNCHANGED <<infoLock, pending>>
    /\ HandlerUnchanged

CollectGivesUpCounted(t) ==
    /\ handler[t] = "counted"
    /\ t \notin current \/ infoLock[t] # "free"
    /\ handler' = [handler EXCEPT ![t] = "out"]
    /\ UNCHANGED <<infoLock, pending, nbThreadsInSignalHandler>>
    /\ HandlerUnchanged

CollectWaits(t) ==
    /\ handler[t] = "counted"
    /\ t \notin current
    /\ handler' = [handler EXCEPT ![t] = "out"]
    /\ nbThreadsInSignalHandler' = nbThreadsInSignalHandler - 1
    /\ UNCHANGED <<infoLock, pending>>
    /\ HandlerUnchanged

\* The thread is not known (any more), or TryAcquireLock fails.
CollectGivesUp(t) ==
    /\ handler[t] = "counted"
    /\ t \notin current \/ infoLock[t] # "free"
    /\ handler' = [handler EXCEPT ![t] = "out"]
    /\ nbThreadsInSignalHandler' = nbThreadsInSignalHandler - 1
    /\ UNCHANGED <<infoLock, pending>>
    /\ HandlerUnchanged

CollectLocks(t) ==
    /\ handler[t] = "counted"
    /\ t \in current
    /\ infoLock[t] = "free"
    /\ infoLock' = [infoLock EXCEPT ![t] = "handler"]
    /\ handler' = [handler EXCEPT ![t] = "locked"]
    /\ UNCHANGED <<nbThreadsInSignalHandler, pending>>
    /\ HandlerUnchanged

\* CanCollect, GetRawSample, the walk and the sample; every way out counts down.
Collect(t) ==
    /\ handler[t] = "locked"
    /\ handler' = [handler EXCEPT ![t] = "leaving"]
    /\ nbThreadsInSignalHandler' = nbThreadsInSignalHandler - 1
    /\ UNCHANGED <<infoLock, pending>>
    /\ HandlerUnchanged

\* The destructors: the sample is committed, then the lock released.
CollectLeaves(t) ==
    /\ handler[t] = "leaving"
    /\ handler' = [handler EXCEPT ![t] = "out"]
    /\ infoLock' = [infoLock EXCEPT ![t] = "free"]
    /\ UNCHANGED <<nbThreadsInSignalHandler, pending>>
    /\ HandlerUnchanged

Control ==
    \/ RegisterHandler \/ StartTimers \/ Started
    \/ IgnoreSignal \/ StopTimers \/ WaitForHandlers

Code(t) ==
    \/ RegisterThread(t) \/ RegisterThreadImpl(t)
    \/ SetThreadDestroyed(t) \/ ThreadIsMarked(t) \/ UnregisterThread(t)

Handler(t) ==
    \/ CollectEnters(t) \/ CollectGivesUp(t) \/ CollectLocks(t)
    \/ Collect(t) \/ CollectLeaves(t)

TimerNext ==
    \/ Start \/ Stop \/ Dispose \/ Control
    \/ \E t \in Threads :
          \/ ThreadAssigned(t) \/ ThreadDestroyed(t)
          \/ OnThreadRoutineFinished(t) \/ ThreadFinishes(t)
          \/ TimerFires(t) \/ SamplerLocks(t) \/ SamplerUnlocks(t)
          \/ HandlerBegins(t)
          \/ Code(t) \/ Handler(t)

TimerSpec == TimerInit /\ [][TimerNext]_cpuTimerVars

\* A thread that is in a callback or in the handler is scheduled.
TimerFairness == \A t \in Threads : WF_cpuTimerVars(Code(t)) /\ WF_cpuTimerVars(Handler(t))

FairTimerSpec == TimerSpec /\ TimerFairness

-----------------------------------------------------------------------------
\* StopImpl trusts _nbThreadsInSignalHandler: it is the number of threads
\* between its increment and its decrement, on every way out of Collect.
CounterIsExact ==
    nbThreadsInSignalHandler = Cardinality({t \in Threads : handler[t] \in {"counted", "locked"}})

\* Once the profiler is stopped no timer is left, however many threads were
\* registering themselves meanwhile; a thread that ThreadDestroyed has taken
\* off the list deletes its own.  A thread that has ended left none behind,
\* whether ThreadDestroyed or only OnThreadRoutineFinished was there to delete it.
NoStrayTimer ==
    \A t \in kernel :
        /\ life[t] # "finished"
        /\ state \in {"Init", "Stopped"} => life[t] \in {"removed", "marking", "unlisted"}

\* While the profiler is started every live thread has a timer, also after it
\* was stopped and started again, but for those whose timer_create failed,
\* that registered while it was starting, or that an unsuccessful stop left
\* without.
LiveThreadHasTimer ==
    state = "Started" /\ control = "idle" =>
        \A t \in Threads \ excused : life[t] = "live" => t \in kernel

\* The handler never waits for the thread's lock: the wall time sampler may
\* hold it while it waits for this very thread, so nothing is assumed about
\* when it is released (StackWalkLock only tries).
HandlerReturns ==
    \A t \in Threads : handler[t] = "loaded" ~> handler[t] = "out"
=============================================================================
