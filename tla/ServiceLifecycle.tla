--------------------------- MODULE ServiceLifecycle ---------------------------
(***************************************************************************)
(* The services of the profiler engine: how ServiceBase starts and stops   *)
(* each, and who asks for it.  The deadlock watcher ("manager",            *)
(* StackSamplerLoopManager) and the sampler ("loop", StackSamplerLoop),    *)
(* which own a thread each, stand for the list of services; the            *)
(* timer_create-based CPU profiler ("cpu") is kept out of the list.        *)
(*                                                                         *)
(* The actors are the "starter" (StartServices, called by Initialize or,   *)
(* delayed, by OnStartDelayedProfiling), the callers (application threads  *)
(* in a callback of the runtime or in SetStackSamplerEnabled, both behind  *)
(* an EngineActiveGuard) and the "runtime" (Shutdown and DisposeInternal). *)
(* An actor's program is the sequence of service calls it has still to     *)
(* make; one call takes several steps.                                     *)
(***************************************************************************)
EXTENDS Naturals, Sequences, FiniteSets

CONSTANTS
    Callers,      \* application threads
    MaxCalls      \* bound: the number of guarded calls they make in all

ASSUME ServiceLifecycleAssumption ==
    /\ IsFiniteSet(Callers)
    /\ MaxCalls \in Nat
    /\ Callers \cap {"starter", "runtime", "none", "terminate"} = {}

Services == {"manager", "loop", "cpu"}
ThreadServices == {"manager", "loop"}
Actors == Callers \cup {"starter", "runtime"}

VARIABLES
    state,                \* _currentState of each service
    thread,               \* the OS thread of a service: none, created, running, ended
    object,               \* _pWatcherThread / _pLoopThread is not null
    shutdownRequested,    \* _isWatcherShutdownRequested / _shutdownRequested
    todo,                 \* what each actor has still to call
    phase,                \* where it is in the first of these calls, or in its own code
    startOk,              \* result of StartServices
    delayed,              \* services are started later, while the application runs
    isInitialized,        \* _isInitialized
    isServicesShutdown,   \* _isServicesShutdown
    exclusive,            \* the runtime holds _engineLifetimeMutex
    guards,               \* the callers whose EngineActiveGuard is active
    toggleLock,           \* owner of _stackSamplerToggleLock
    destroyed,            \* _services.clear() has destroyed the services
    fault,                \* undefined behaviour or std::terminate, and by whom
    implFailed,           \* some StartImpl or StopImpl has returned false
    calls                 \* guarded calls made so far

serviceVars == <<state, thread, object, shutdownRequested>>
actorVars == <<todo, phase>>
engineVars == <<isInitialized, isServicesShutdown, exclusive, guards, toggleLock, destroyed>>
vars == <<serviceVars, actorVars, startOk, delayed, engineVars, fault, implFailed, calls>>

NoOwner == "none"
Ops == {"ensure", "start", "stop", "park", "use"}

\* The type of every variable; a thread object exists exactly while its thread
\* has been created and not yet joined (_pLoopThread and _pWatcherThread).
TypeOK ==
    /\ state \in [Services -> {"Init", "Starting", "Started", "Stopping", "Stopped"}]
    /\ thread \in [ThreadServices -> {"none", "created", "running", "ended"}]
    /\ object \in [ThreadServices -> BOOLEAN]
    /\ \A s \in ThreadServices : object[s] <=> thread[s] # "none"
    /\ shutdownRequested \in [ThreadServices -> BOOLEAN]
    /\ \A a \in Actors : \A i \in 1..Len(todo[a]) : todo[a][i] \in Ops \X Services
    /\ phase \in [Actors -> {"idle", "locking", "next", "startImpl", "wait",
                             "stopImpl", "join", "dispose", "exclusive", "clear", "done"}]
    /\ startOk \in BOOLEAN
    /\ delayed \in BOOLEAN
    /\ isInitialized \in BOOLEAN
    /\ isServicesShutdown \in BOOLEAN
    /\ exclusive \in BOOLEAN
    /\ guards \subseteq Callers
    /\ toggleLock \in Callers \cup {NoOwner}
    /\ destroyed \subseteq Services
    /\ fault \in {"none", "terminate"} \cup Actors
    /\ implFailed \in BOOLEAN
    /\ calls \in 0..MaxCalls

(***************************************************************************)
(* The programs.  "ensure" skips a service that is started already, "park" *)
(* is StopWithState(Init), "use" is any other use of a service.            *)
(***************************************************************************)
StartServices == << <<"ensure", "manager">>, <<"ensure", "loop">>, <<"start", "cpu">> >>

StopServices == << <<"stop", "cpu">>, <<"stop", "loop">>, <<"stop", "manager">> >>

Shutdown == << <<"stop", "loop">>, <<"stop", "manager">>, <<"stop", "cpu">> >>

EnableSampler == << <<"start", "manager">>, <<"start", "loop">>, <<"start", "cpu">> >>

DisableSampler == << <<"park", "cpu">>, <<"park", "loop">>, <<"park", "manager">> >>

Callback == << <<"use", "manager">> >>

Init ==
    /\ state = [s \in Services |-> "Init"]
    /\ thread = [s \in ThreadServices |-> "none"]
    /\ object = [s \in ThreadServices |-> FALSE]
    /\ shutdownRequested = [s \in ThreadServices |-> FALSE]
    /\ todo = [a \in Actors |-> <<>>]
    /\ phase = [a \in Actors |-> "idle"]
    /\ startOk = TRUE
    /\ delayed \in BOOLEAN
    /\ isInitialized = TRUE
    /\ isServicesShutdown = FALSE
    /\ exclusive = FALSE
    /\ guards = {}
    /\ toggleLock = NoOwner
    /\ destroyed = {}
    /\ fault = "none"
    /\ implFailed = FALSE
    /\ calls = 0

Op(a) == Head(todo[a])[1]
Svc(a) == Head(todo[a])[2]

\* Without a delay the services are started by Initialize, before any managed
\* code runs and before the runtime may shut the profiler down.
Running == delayed \/ phase["starter"] = "done"

\* The actor's next call finds its service alive.
Calling(a, op) ==
    /\ fault = "none"
    /\ phase[a] = "next"
    /\ todo[a] # <<>>
    /\ Op(a) = op
    /\ Svc(a) \notin destroyed

Inside(a, p) ==
    /\ fault = "none"
    /\ phase[a] = p
    /\ Svc(a) \notin destroyed

\* The call of a is over; StartServices remembers whether it failed.
Returns(a, ok) ==
    /\ todo' = [todo EXCEPT ![a] = Tail(@)]
    /\ phase' = [phase EXCEPT ![a] = "next"]
    /\ startOk' = IF a = "starter" /\ Op(a) = "start" THEN startOk /\ ok ELSE startOk

Goes(a, p) == phase' = [phase EXCEPT ![a] = p] /\ UNCHANGED <<todo, startOk>>

SetState(s, st) == state' = [state EXCEPT ![s] = st]

(***************************************************************************)
(* ServiceBase::Start.                                                     *)
(***************************************************************************)
Start(a) ==
    /\ Calling(a, "start")
    /\ state[Svc(a)] = "Init"
    /\ SetState(Svc(a), "Starting")
    /\ Goes(a, "startImpl")
    /\ UNCHANGED <<thread, object, shutdownRequested, delayed, engineVars, fault, implFailed, calls>>

StartRefused(a) ==
    /\ Calling(a, "start")
    /\ state[Svc(a)] # "Init"
    /\ Returns(a, FALSE)
    /\ UNCHANGED <<serviceVars, delayed, engineVars, fault, implFailed, calls>>

\* StartServices asks IsStarted() first, then calls Start().
SkipStarted(a) ==
    /\ Calling(a, "ensure")
    /\ IF state[Svc(a)] = "Started"
       THEN Returns(a, TRUE)
       ELSE /\ todo' = [todo EXCEPT ![a] = << <<"start", Svc(a)>> >> \o Tail(@)]
            /\ UNCHANGED <<phase, startOk>>
    /\ UNCHANGED <<serviceVars, delayed, engineVars, fault, implFailed, calls>>

StartSucceeds(a) ==
    /\ SetState(Svc(a), "Started")
    /\ Returns(a, TRUE)
    /\ UNCHANGED implFailed

StartFails(a) ==
    /\ SetState(Svc(a), "Init")
    /\ Returns(a, FALSE)
    /\ implFailed' = TRUE

\* The CPU profiler has no thread; it fails when the signal cannot be had.
StartImpl(a) ==
    /\ Inside(a, "startImpl")
    /\ Svc(a) = "cpu"
    /\ StartSucceeds(a) \/ StartFails(a)
    /\ UNCHANGED <<thread, object, shutdownRequested, delayed, engineVars, fault, calls>>

CreateThread(a) ==
    /\ shutdownRequested' = [shutdownRequested EXCEPT ![Svc(a)] = FALSE]
    /\ thread' = [thread EXCEPT ![Svc(a)] = "created"]
    /\ object' = [object EXCEPT ![Svc(a)] = TRUE]
    /\ Goes(a, "wait")
    /\ UNCHANGED <<state, delayed, engineVars, fault, implFailed, calls>>

StartLoopUnchecked(a) ==
    /\ Inside(a, "startImpl")
    /\ Svc(a) = "loop"
    /\ CreateThread(a)

\* StackSamplerLoop::StartImpl refuses to run next to a thread left behind.
StartLoop(a) ==
    /\ Inside(a, "startImpl")
    /\ Svc(a) = "loop"
    /\ ~object["loop"]
    /\ CreateThread(a)

StartLoopRefused(a) ==
    /\ Inside(a, "startImpl")
    /\ Svc(a) = "loop"
    /\ object["loop"]
    /\ StartFails(a)
    /\ UNCHANGED <<thread, object, shutdownRequested, delayed, engineVars, fault, calls>>

RunWatcher(a) ==
    /\ Inside(a, "startImpl")
    /\ Svc(a) = "manager"
    /\ ~object["manager"]
    /\ CreateThread(a)

\* RunWatcher has no such test: the assignment to _pWatcherThread destroys a
\* std::thread that is still joinable, which calls std::terminate.
RunWatcherOverThread(a) ==
    /\ Inside(a, "startImpl")
    /\ Svc(a) = "manager"
    /\ object["manager"]
    /\ fault' = "terminate"
    /\ UNCHANGED <<serviceVars, actorVars, startOk, delayed, engineVars, implFailed, calls>>

ThreadCreationFails(a) ==
    /\ Inside(a, "startImpl")
    /\ Svc(a) \in ThreadServices
    /\ ~object[Svc(a)]
    /\ shutdownRequested' = [shutdownRequested EXCEPT ![Svc(a)] = FALSE]
    /\ StartFails(a)
    /\ UNCHANGED <<thread, object, delayed, engineVars, fault, calls>>

\* The promise is fulfilled before the time-out.
ThreadIsReady(a) ==
    /\ Inside(a, "wait")
    /\ thread[Svc(a)] = "running"
    /\ StartSucceeds(a)
    /\ UNCHANGED <<thread, object, shutdownRequested, delayed, engineVars, fault, calls>>

ThreadStartTimesOutSilently(a) ==
    /\ Inside(a, "wait")
    /\ thread[Svc(a)] = "created"
    /\ StartFails(a)
    /\ UNCHANGED <<thread, object, shutdownRequested, delayed, engineVars, fault, calls>>

ThreadStartTimesOut(a) ==
    /\ Inside(a, "wait")
    /\ thread[Svc(a)] = "created"
    /\ shutdownRequested' = [shutdownRequested EXCEPT ![Svc(a)] = TRUE]
    /\ StartFails(a)
    /\ UNCHANGED <<thread, object, delayed, engineVars, fault, calls>>

(***************************************************************************)
(* ServiceBase::Stop and StopWithState.                                    *)
(***************************************************************************)
Stop(a) ==
    /\ Calling(a, "stop") \/ Calling(a, "park")
    /\ state[Svc(a)] = "Started"
    /\ SetState(Svc(a), "Stopping")
    /\ Goes(a, "stopImpl")
    /\ UNCHANGED <<thread, object, shutdownRequested, delayed, engineVars, fault, implFailed, calls>>

StopRefused(a) ==
    /\ Calling(a, "stop") \/ Calling(a, "park")
    /\ state[Svc(a)] # "Started"
    /\ Returns(a, FALSE)
    /\ UNCHANGED <<serviceVars, delayed, engineVars, fault, implFailed, calls>>

StopSucceeds(a) ==
    /\ SetState(Svc(a), IF Op(a) = "park" THEN "Init" ELSE "Stopped")
    /\ Returns(a, TRUE)
    /\ UNCHANGED implFailed

\* The CPU profiler's StopImpl fails when a thread stays in the signal handler.
StopFails(a) ==
    /\ SetState(Svc(a), "Started")
    /\ Returns(a, FALSE)
    /\ implFailed' = TRUE

StopImpl(a) ==
    /\ Inside(a, "stopImpl")
    /\ Svc(a) = "cpu"
    /\ StopSucceeds(a) \/ StopFails(a)
    /\ UNCHANGED <<thread, object, shutdownRequested, delayed, engineVars, fault, calls>>

\* A started service has its thread: it is asked to end, then joined.
StopThread(a) ==
    /\ Inside(a, "stopImpl")
    /\ Svc(a) \in ThreadServices
    /\ shutdownRequested' = [shutdownRequested EXCEPT ![Svc(a)] = TRUE]
    /\ Goes(a, "join")
    /\ UNCHANGED <<state, thread, object, delayed, engineVars, fault, implFailed, calls>>

Joined(s) ==
    /\ thread' = [thread EXCEPT ![s] = "none"]
    /\ object' = [object EXCEPT ![s] = FALSE]

JoinThread(a) ==
    /\ Inside(a, "join")
    /\ thread[Svc(a)] = "ended"
    /\ Joined(Svc(a))
    /\ StopSucceeds(a)
    /\ UNCHANGED <<shutdownRequested, delayed, engineVars, fault, calls>>

(***************************************************************************)
(* The threads of the services: they signal that they run, and end when    *)
(* they next look at their shutdown flag.                                  *)
(***************************************************************************)
ThreadRuns(s) ==
    /\ fault = "none"
    /\ thread[s] = "created"
    /\ thread' = [thread EXCEPT ![s] = "running"]
    /\ UNCHANGED <<state, object, shutdownRequested, actorVars, startOk, delayed, engineVars,
                   fault, implFailed, calls>>

ThreadEnds(s) ==
    /\ fault = "none"
    /\ thread[s] = "running"
    /\ shutdownRequested[s]
    /\ thread' = [thread EXCEPT ![s] = "ended"]
    /\ UNCHANGED <<state, object, shutdownRequested, actorVars, startOk, delayed, engineVars,
                   fault, implFailed, calls>>

(***************************************************************************)
(* The starter.  Delayed, it looks at _isInitialized once, takes no lock,  *)
(* and undoes everything when one service has not started.                 *)
(***************************************************************************)
StarterBegins ==
    /\ fault = "none"
    /\ phase["starter"] = "idle"
    /\ IF isInitialized
       THEN /\ todo' = [todo EXCEPT !["starter"] = StartServices]
            /\ phase' = [phase EXCEPT !["starter"] = "next"]
       ELSE /\ phase' = [phase EXCEPT !["starter"] = "done"]
            /\ UNCHANGED todo
    /\ UNCHANGED <<serviceVars, startOk, delayed, engineVars, fault, implFailed, calls>>

\* startOk is true again once StopServices is under way.
StarterEnds ==
    /\ fault = "none"
    /\ phase["starter"] = "next"
    /\ todo["starter"] = <<>>
    /\ IF startOk
       THEN phase' = [phase EXCEPT !["starter"] = "done"] /\ UNCHANGED todo
       ELSE todo' = [todo EXCEPT !["starter"] = StopServices] /\ UNCHANGED phase
    /\ startOk' = TRUE
    /\ UNCHANGED <<serviceVars, delayed, engineVars, fault, implFailed, calls>>

\* Nothing keeps the services alive under the feet of StartServices.
UsesDestroyed(a) ==
    /\ fault = "none"
    /\ phase[a] \in {"next", "startImpl", "wait", "stopImpl", "join"}
    /\ todo[a] # <<>>
    /\ Svc(a) \in destroyed
    /\ fault' = a
    /\ UNCHANGED <<serviceVars, actorVars, startOk, delayed, engineVars, implFailed, calls>>

(***************************************************************************)
(* The callers.  EngineActiveGuard tries the shared lock, then reads the   *)
(* two flags; SetStackSamplerEnabled takes the toggle lock behind it.  A   *)
(* call that finds the engine inactive returns at once and changes nothing. *)
(***************************************************************************)
IsActive == ~exclusive /\ isInitialized /\ ~isServicesShutdown

TakeGuardUnlocked(c) ==
    /\ isInitialized /\ ~isServicesShutdown
    /\ UNCHANGED guards

TakeGuard(c) ==
    /\ IsActive
    /\ guards' = guards \cup {c}

CallBegins(c, program, p) ==
    /\ fault = "none"
    /\ Running
    /\ phase[c] = "idle"
    /\ calls < MaxCalls
    /\ TakeGuard(c)
    /\ todo' = [todo EXCEPT ![c] = program]
    /\ phase' = [phase EXCEPT ![c] = p]
    /\ calls' = calls + 1
    /\ UNCHANGED <<serviceVars, startOk, delayed, isInitialized, isServicesShutdown, exclusive,
                   toggleLock, destroyed, fault, implFailed>>

CallbackBegins(c) == CallBegins(c, Callback, "next")

SetStackSamplerEnabled(c) ==
    \E program \in {EnableSampler, DisableSampler} : CallBegins(c, program, "locking")

SkipToggleLock(c) ==
    /\ fault = "none"
    /\ phase[c] = "locking"
    /\ Goes(c, "next")
    /\ UNCHANGED <<serviceVars, delayed, engineVars, fault, implFailed, calls>>

TakeToggleLock(c) ==
    /\ fault = "none"
    /\ phase[c] = "locking"
    /\ toggleLock = NoOwner
    /\ toggleLock' = c
    /\ Goes(c, "next")
    /\ UNCHANGED <<serviceVars, delayed, isInitialized, isServicesShutdown, exclusive, guards,
                   destroyed, fault, implFailed, calls>>

UseService(c) ==
    /\ Calling(c, "use")
    /\ Returns(c, TRUE)
    /\ UNCHANGED <<serviceVars, delayed, engineVars, fault, implFailed, calls>>

CallEnds(c) ==
    /\ fault = "none"
    /\ phase[c] = "next"
    /\ todo[c] = <<>>
    /\ toggleLock' = IF toggleLock = c THEN NoOwner ELSE toggleLock
    /\ guards' = guards \ {c}
    /\ Goes(c, "idle")
    /\ UNCHANGED <<serviceVars, delayed, isInitialized, isServicesShutdown, exclusive,
                   destroyed, fault, implFailed, calls>>

(***************************************************************************)
(* The runtime calls Shutdown, or destroys the callback object without it. *)
(***************************************************************************)
RuntimeBegins ==
    /\ fault = "none"
    /\ Running
    /\ phase["runtime"] = "idle"
    /\ \E program \in {Shutdown, <<>>} : todo' = [todo EXCEPT !["runtime"] = program]
    /\ phase' = [phase EXCEPT !["runtime"] = "next"]
    /\ UNCHANGED <<serviceVars, startOk, delayed, engineVars, fault, implFailed, calls>>

DisposeInternal ==
    /\ fault = "none"
    /\ phase["runtime"] = "next"
    /\ todo["runtime"] = <<>>
    /\ isInitialized
    /\ isInitialized' = FALSE
    /\ Goes("runtime", "dispose")
    /\ UNCHANGED <<serviceVars, delayed, isServicesShutdown, exclusive, guards, toggleLock,
                   destroyed, fault, implFailed, calls>>

DisposeServices ==
    /\ fault = "none"
    /\ phase["runtime"] = "dispose"
    /\ guards = {}
    /\ exclusive' = TRUE
    /\ isServicesShutdown' = TRUE
    /\ todo' = [todo EXCEPT !["runtime"] = StopServices]
    /\ phase' = [phase EXCEPT !["runtime"] = "next"]
    /\ UNCHANGED <<serviceVars, startOk, delayed, isInitialized, guards, toggleLock, destroyed,
                   fault, implFailed, calls>>

ClearServices ==
    /\ fault = "none"
    /\ phase["runtime"] = "next"
    /\ todo["runtime"] = <<>>
    /\ exclusive
    /\ Goes("runtime", "clear")
    /\ UNCHANGED <<serviceVars, delayed, engineVars, fault, implFailed, calls>>

\* The destructors run in the order of registration; the CPU profiler lives on.
BeingDestroyed(s) ==
    /\ fault = "none"
    /\ phase["runtime"] = "clear"
    /\ \/ s = "manager" /\ destroyed = {}
       \/ s = "loop" /\ destroyed = {"manager"}

DestructorAsks(s) ==
    /\ BeingDestroyed(s)
    /\ object[s]
    /\ ~shutdownRequested[s]
    /\ shutdownRequested' = [shutdownRequested EXCEPT ![s] = TRUE]
    /\ UNCHANGED <<state, thread, object, actorVars, startOk, delayed, engineVars, fault,
                   implFailed, calls>>

Destroyed(s) ==
    /\ destroyed' = destroyed \cup {s}
    /\ UNCHANGED <<state, shutdownRequested, actorVars, startOk, delayed, isInitialized,
                   isServicesShutdown, exclusive, guards, toggleLock, fault, implFailed, calls>>

DestructorJoins(s) ==
    /\ BeingDestroyed(s)
    /\ IF object[s]
       THEN thread[s] = "ended" /\ Joined(s)
       ELSE UNCHANGED <<thread, object>>
    /\ Destroyed(s)

DisposeEnds ==
    /\ fault = "none"
    /\ phase["runtime"] = "clear"
    /\ destroyed = ThreadServices
    /\ exclusive' = FALSE
    /\ Goes("runtime", "done")
    /\ UNCHANGED <<serviceVars, delayed, isInitialized, isServicesShutdown, guards, toggleLock,
                   destroyed, fault, implFailed, calls>>

ServiceCall(a) ==
    \/ Start(a) \/ StartRefused(a) \/ SkipStarted(a) \/ StartImpl(a)
    \/ StartLoop(a) \/ StartLoopRefused(a) \/ RunWatcher(a) \/ RunWatcherOverThread(a)
    \/ ThreadCreationFails(a) \/ ThreadIsReady(a) \/ ThreadStartTimesOut(a)
    \/ Stop(a) \/ StopRefused(a) \/ StopImpl(a) \/ StopThread(a) \/ JoinThread(a)
    \/ UsesDestroyed(a)

Call(c) == TakeToggleLock(c) \/ UseService(c) \/ CallEnds(c)

Dispose ==
    \/ DisposeInternal \/ DisposeServices \/ ClearServices \/ DisposeEnds
    \/ \E s \in ThreadServices : DestructorAsks(s) \/ DestructorJoins(s)

ThreadStep(s) == ThreadRuns(s) \/ ThreadEnds(s)

\* Everything has been said and done, or the process is gone.
Over ==
    /\ \/ fault # "none"
       \/ /\ phase["runtime"] = "done"
          /\ phase["starter"] = "done"
          /\ \A c \in Callers : phase[c] = "idle"
    /\ UNCHANGED vars

Next ==
    \/ \E a \in Actors : ServiceCall(a)
    \/ \E c \in Callers :
          CallbackBegins(c) \/ SetStackSamplerEnabled(c) \/ Call(c)
    \/ \E s \in ThreadServices : ThreadStep(s)
    \/ StarterBegins \/ StarterEnds
    \/ RuntimeBegins \/ Dispose
    \/ Over

Spec == Init /\ [][Next]_vars

-----------------------------------------------------------------------------
\* A callback or SetStackSamplerEnabled that got past its EngineActiveGuard
\* never reaches a service that DisposeServices has destroyed.
GuardProtects == fault \notin Callers

ImplPhases == {"startImpl", "wait", "stopImpl", "join"}

\* A thread of a service that is not started (a start that timed out, a stop)
\* is gone or has been asked to go: it does not sample or watch on its own.  When
\* the destructor of the service has run, it has ended.
NoThreadLeftBehind ==
    \A s \in ThreadServices :
        /\ state[s] \in {"Init", "Stopped"} =>
              thread[s] \in {"none", "ended"} \/ shutdownRequested[s]
        /\ s \in destroyed => thread[s] = "none"

\* StartImpl never puts a new thread in the place of one not yet joined.
NoThreadReplaced ==
    [][\A s \in ThreadServices :
          thread[s] # "none" => thread'[s] = thread[s] \/ thread'[s] # "created"]_vars

\* As long as no start or stop fails, concurrent calls of
\* SetStackSamplerEnabled leave the watcher, the sampler and the CPU profiler
\* in the same state (_stackSamplerToggleLock).
TogglesAgree ==
    /\ ~implFailed
    /\ phase["runtime"] = "idle"
    /\ phase["starter"] = IF delayed THEN "idle" ELSE "done"
    /\ \A c \in Callers : phase[c] \in {"idle", "locking"} \/ todo[c] = Callback
    => state["manager"] = state["loop"] /\ state["loop"] = state["cpu"]

\* A delayed start takes the services that are started already as they are: it
\* stops everything only if some service really failed to start.
AlreadyStartedIsNoFailure ==
    /\ ~implFailed
    /\ phase["runtime"] = "idle"
    /\ todo["starter"] # <<>>
    => Op("starter") # "stop"

-----------------------------------------------------------------------------
(***************************************************************************)
(* The inductive invariant behind TogglesAgree.                            *)
(***************************************************************************)
InStart == {"startImpl", "wait"}
InStop == {"stopImpl", "join"}

Pending(a) == {todo[a][k][2] : k \in DOMAIN todo[a]}

\* Actor a takes the services, one call each, from the state old over mid to new.
Toggles(a, ops, old, mid, new, impl) ==
    /\ phase[a] \in {"next"} \cup impl
    /\ \A k \in DOMAIN todo[a] : todo[a][k][1] \in ops
    /\ \A j, k \in DOMAIN todo[a] : todo[a][j][2] = todo[a][k][2] => j = k
    /\ \A s \in Services :
          state[s] = IF s \notin Pending(a) THEN new
                     ELSE IF phase[a] \in impl /\ s = Svc(a) THEN mid
                     ELSE old

SwitchesOn(a, old) == Toggles(a, {"ensure", "start"}, old, "Starting", "Started", InStart)
SwitchesOff(a, old) == Toggles(a, {"park"}, old, "Stopping", "Init", InStop)

\* A caller that does not hold the toggle lock.
StaysOut(c) ==
    \/ phase[c] = "idle"
    \/ phase[c] = "locking" /\ todo[c] \in {EnableSampler, DisableSampler}
    \/ phase[c] = "next" /\ \A k \in DOMAIN todo[c] : todo[c][k][1] = "use"

Undisturbed ==
    /\ ~implFailed
    /\ phase["runtime"] = "idle"
    /\ delayed => phase["starter"] = "idle"

\* Initialize starts the services before anybody else can.
Initializing ==
    /\ toggleLock = NoOwner
    /\ \A c \in Callers : phase[c] = "idle"
    /\ startOk
    /\ IF phase["starter"] = "idle"
       THEN \A s \in Services : state[s] = "Init"
       ELSE SwitchesOn("starter", "Init")

\* Then only the owner of the toggle lock starts and stops them.
Toggling ==
    /\ \A c \in Callers \ {toggleLock} : StaysOut(c)
    /\ \E old \in {"Init", "Started"} :
          IF toggleLock = NoOwner
          THEN \A s \in Services : state[s] = old
          ELSE SwitchesOn(toggleLock, old) \/ SwitchesOff(toggleLock, old)

ToggleInv ==
    /\ toggleLock \in Callers \cup {NoOwner}
    /\ Undisturbed => IF Running THEN Toggling ELSE Initializing
=============================================================================
