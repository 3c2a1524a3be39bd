------------------------ MODULE ServiceLifecycleProofs ------------------------
(***************************************************************************)
(* For any set of callers and any number of calls: an EngineActiveGuard    *)
(* keeps the services alive for its holder, no thread of a service is left *)
(* behind, none is put in the place of another, and the toggle lock makes  *)
(* the three services of the CPU sampler change together.                  *)
(***************************************************************************)
EXTENDS ServiceLifecycle, TLAPS

USE ZenonT(5), SMTT(30)   \* the provers, in this order

Calls == Seq(Ops \X Services)

(***************************************************************************)
(* An actor's program, and what one step of it can be to its service.  The *)
(* states Starting and Stopping are what keeps two actors from being       *)
(* inside StartImpl or StopImpl of one service at the same time.           *)
(***************************************************************************)
ProgramInv ==
    /\ DOMAIN phase = Actors
    /\ todo \in [Actors -> Calls]
    /\ DOMAIN state = Services
    /\ \A a \in Actors : phase[a] \in ImplPhases => todo[a] # <<>>

OwnInv ==
    /\ \A a \in Actors : phase[a] \in InStart => state[Svc(a)] = "Starting"
    /\ \A a \in Actors : phase[a] \in InStop => state[Svc(a)] = "Stopping"
    /\ \A a \in Actors : phase[a] \in {"wait", "join"} => Svc(a) \in ThreadServices
    /\ \A a, b \in Actors :
          phase[a] \in ImplPhases /\ phase[b] \in ImplPhases /\ Svc(a) = Svc(b) => a = b

\* The other actors stay where they are.
OnlyActor(a) ==
    /\ DOMAIN phase' = Actors
    /\ todo' \in [Actors -> Calls]
    /\ DOMAIN state' = Services
    /\ \A b \in Actors \ {a} : phase'[b] = phase[b] /\ todo'[b] = todo[b]

Enters(a) ==
    /\ OnlyActor(a)
    /\ todo' = todo
    /\ todo[a] # <<>>
    /\ phase[a] \notin ImplPhases
    /\ \/ state[Svc(a)] = "Init" /\ SetState(Svc(a), "Starting") /\ phase'[a] = "startImpl"
       \/ state[Svc(a)] = "Started" /\ SetState(Svc(a), "Stopping") /\ phase'[a] = "stopImpl"

Moves(a) ==
    /\ OnlyActor(a)
    /\ todo' = todo
    /\ state' = state
    /\ Svc(a) \in ThreadServices
    /\ \/ phase[a] = "startImpl" /\ phase'[a] = "wait"
       \/ phase[a] = "stopImpl" /\ phase'[a] = "join"

Leaves(a) ==
    /\ OnlyActor(a)
    /\ phase[a] \in ImplPhases
    /\ phase'[a] \notin ImplPhases
    /\ \E st : SetState(Svc(a), st)

Stays(a) ==
    /\ OnlyActor(a)
    /\ state' = state
    /\ \/ phase'[a] \notin ImplPhases
       \/ phase'[a] = phase[a] /\ todo'[a] = todo[a]

\* The service of an actor with something to do is a service.
LEMMA ServiceType ==
    ASSUME ProgramInv, NEW a \in Actors, todo[a] # <<>>
    PROVE  Svc(a) \in Services /\ Op(a) \in Ops /\ Tail(todo[a]) \in Calls
<1>1. todo[a] \in Seq(Ops \X Services)
  BY DEF ProgramInv, Calls
<1>2. Head(todo[a]) \in Ops \X Services /\ Tail(todo[a]) \in Seq(Ops \X Services)
  BY <1>1
<1>. QED  BY <1>2 DEF Svc, Op, Calls

\* The service of an actor that does nothing remains the same.
LEMMA OtherService ==
    ASSUME NEW a, OnlyActor(a), NEW b \in Actors, b # a
    PROVE  Svc(b)' = Svc(b)
BY DEF OnlyActor, Svc

\* None of these kinds of steps lets two actors into one service.
LEMMA OwnStep ==
    ASSUME ProgramInv, OwnInv, NEW a \in Actors,
           Enters(a) \/ Moves(a) \/ Leaves(a) \/ Stays(a)
    PROVE  ProgramInv' /\ OwnInv'
<1>. USE DEF ImplPhases, InStart, InStop
<1>0. OnlyActor(a) /\ \A b \in Actors \ {a} : Svc(b)' = Svc(b)
  BY OtherService DEF Enters, Moves, Leaves, Stays
<1>1. \A b \in Actors : phase[b] \in ImplPhases => Svc(b) \in Services
  BY ServiceType DEF ProgramInv
<1>2. CASE Enters(a)
  <2>1. Svc(a) \in Services /\ Svc(a)' = Svc(a)
    BY <1>2, ServiceType DEF Enters, Svc
  <2>2. ProgramInv'
    BY <1>0, <1>2 DEF Enters, OnlyActor, ProgramInv
  <2>3. \A b \in Actors : phase[b] \in ImplPhases => Svc(b) # Svc(a)
    BY <1>2 DEF OwnInv, Enters
  <2>4. OwnInv'
    BY <1>0, <1>1, <1>2, <2>1, <2>3 DEF Enters, OnlyActor, OwnInv, SetState, ProgramInv
  <2>. QED  BY <2>2, <2>4
<1>3. CASE Moves(a)
  <2>1. Svc(a)' = Svc(a)
    BY <1>3 DEF Moves, Svc
  <2>. QED  BY <1>0, <1>3, <2>1 DEF Moves, OnlyActor, OwnInv, ProgramInv
<1>4. CASE Leaves(a)
  <2>1. \A b \in Actors \ {a} : phase[b] \in ImplPhases => Svc(b) # Svc(a)
    BY <1>4 DEF Leaves, OwnInv
  <2>2. ProgramInv'
    BY <1>0, <1>4 DEF Leaves, OnlyActor, ProgramInv
  <2>3. OwnInv'
    BY <1>0, <1>1, <1>4, <2>1 DEF Leaves, OnlyActor, OwnInv, SetState, ProgramInv
  <2>. QED  BY <2>2, <2>3
<1>5. CASE Stays(a)
  <2>1. todo'[a] = todo[a] => Svc(a)' = Svc(a)
    BY DEF Svc
  <2>. QED  BY <1>0, <1>5, <2>1 DEF Stays, OnlyActor, OwnInv, ProgramInv
<1>. QED  BY <1>2, <1>3, <1>4, <1>5

\* A call that returns, and one that goes on.
LEMMA ReturnsOrGoes ==
    ASSUME ProgramInv, NEW a \in Actors, DOMAIN state' = Services,
           \/ todo[a] # <<>> /\ \E ok \in BOOLEAN : Returns(a, ok)
           \/ \E p : Goes(a, p)
    PROVE  OnlyActor(a)
<1>1. CASE todo[a] # <<>> /\ \E ok \in BOOLEAN : Returns(a, ok)
  <2>1. Tail(todo[a]) \in Calls
    BY <1>1, ServiceType
  <2>. QED  BY <1>1, <2>1 DEF Returns, OnlyActor, ProgramInv
<1>2. CASE \E p : Goes(a, p)
  BY <1>2 DEF Goes, OnlyActor, ProgramInv
<1>. QED  BY <1>1, <1>2

\* The steps of a service call.
LEMMA CallKind ==
    ASSUME ProgramInv, NEW a \in Actors, ServiceCall(a)
    PROVE  Enters(a) \/ Moves(a) \/ Leaves(a) \/ Stays(a)
<1>. USE DEF ImplPhases, ProgramInv
<1>1. CASE Start(a) \/ Stop(a)
  <2>1. OnlyActor(a)
    BY <1>1, ReturnsOrGoes DEF Start, Stop, SetState
  <2>. QED  BY <1>1, <2>1 DEF Start, Stop, Calling, Goes, Enters
<1>2. CASE StartLoop(a) \/ RunWatcher(a) \/ StopThread(a)
  <2>1. OnlyActor(a)
    BY <1>2, ReturnsOrGoes DEF StartLoop, RunWatcher, StopThread, CreateThread
  <2>. QED  BY <1>2, <2>1 DEF StartLoop, RunWatcher, StopThread, CreateThread, Inside, Goes, Moves,
                                ThreadServices
<1>3. CASE \/ StartImpl(a) \/ StartLoopRefused(a) \/ ThreadCreationFails(a) \/ ThreadIsReady(a)
           \/ ThreadStartTimesOut(a) \/ StopImpl(a) \/ JoinThread(a)
  <2>. USE <1>3 DEF StartImpl, StartLoopRefused, ThreadCreationFails, ThreadIsReady,
            ThreadStartTimesOut, StopImpl, JoinThread, StartSucceeds, StartFails, StopSucceeds,
            StopFails
  <2>1. phase[a] \in ImplPhases
    BY DEF Inside
  <2>2. \E ok \in BOOLEAN : Returns(a, ok)
    OBVIOUS
  <2>3. \E st : SetState(Svc(a), st)
    OBVIOUS
  <2>4. phase'[a] = "next" /\ DOMAIN state' = Services
    BY <2>2, <2>3 DEF Returns, SetState
  <2>5. OnlyActor(a)
    BY <2>1, <2>2, <2>4, ReturnsOrGoes
  <2>. QED  BY <2>1, <2>3, <2>4, <2>5 DEF Leaves
<1>4. CASE StartRefused(a) \/ StopRefused(a)
  <2>1. OnlyActor(a)
    BY <1>4, ReturnsOrGoes DEF StartRefused, StopRefused, Calling, serviceVars
  <2>. QED  BY <1>4, <2>1 DEF StartRefused, StopRefused, Returns, Stays, serviceVars
<1>5. CASE SkipStarted(a)
  <2>0. todo[a] # <<>> /\ state' = state
    BY <1>5 DEF SkipStarted, Calling, serviceVars
  <2>1. CASE Returns(a, TRUE)
    <3>1. OnlyActor(a)
      BY <2>0, <2>1, ReturnsOrGoes
    <3>. QED  BY <2>0, <2>1, <3>1 DEF Returns, Stays
  <2>2. CASE /\ todo' = [todo EXCEPT ![a] = << <<"start", Svc(a)>> >> \o Tail(@)]
             /\ UNCHANGED phase
    <3>1. <<"start", Svc(a)>> \in Ops \X Services /\ Tail(todo[a]) \in Seq(Ops \X Services)
      BY <2>0, ServiceType DEF Ops, Calls
    <3>2. << <<"start", Svc(a)>> >> \in Seq(Ops \X Services)
      BY <3>1
    <3>3. << <<"start", Svc(a)>> >> \o Tail(todo[a]) \in Calls
      BY <3>1, <3>2 DEF Calls
    <3>. QED  BY <1>5, <2>0, <2>2, <3>3 DEF SkipStarted, Calling, Stays, OnlyActor
  <2>. QED  BY <1>5, <2>1, <2>2 DEF SkipStarted
<1>6. CASE RunWatcherOverThread(a) \/ UsesDestroyed(a)
  BY <1>6 DEF RunWatcherOverThread, UsesDestroyed, serviceVars, actorVars, Stays, OnlyActor
<1>. QED  BY <1>1, <1>2, <1>3, <1>4, <1>5, <1>6 DEF ServiceCall

\* The programs are sequences of calls.
LEMMA ProgramTypes ==
    {StartServices, StopServices, Shutdown, EnableSampler, DisableSampler, Callback, <<>>}
        \subseteq Calls
BY DEF StartServices, StopServices, Shutdown, EnableSampler, DisableSampler, Callback, Calls, Ops,
       Services

\* The steps of a caller outside of service calls.
LEMMA CallerKind ==
    ASSUME ProgramInv, NEW c \in Callers,
           CallbackBegins(c) \/ SetStackSamplerEnabled(c) \/ Call(c)
    PROVE  Stays(c) /\ c \in Actors
<1>. USE DEF ImplPhases, ProgramInv, Actors
<1>1. CASE CallbackBegins(c) \/ SetStackSamplerEnabled(c)
  <2>1. PICK program \in Calls, p \in {"next", "locking"} : CallBegins(c, program, p)
    BY <1>1, ProgramTypes DEF CallbackBegins, SetStackSamplerEnabled
  <2>. QED  BY <2>1 DEF CallBegins, serviceVars, Stays, OnlyActor
<1>2. CASE TakeToggleLock(c) \/ CallEnds(c)
  <2>1. OnlyActor(c)
    BY <1>2, ReturnsOrGoes DEF TakeToggleLock, CallEnds, serviceVars
  <2>. QED  BY <1>2, <2>1 DEF TakeToggleLock, CallEnds, Goes, serviceVars, Stays
<1>3. CASE UseService(c)
  <2>1. OnlyActor(c)
    BY <1>3, ReturnsOrGoes DEF UseService, Calling, serviceVars
  <2>. QED  BY <1>3, <2>1 DEF UseService, Returns, serviceVars, Stays
<1>. QED  BY <1>1, <1>2, <1>3 DEF Call

\* The steps of the starter and the runtime outside of service calls.
LEMMA EngineKind ==
    ASSUME ProgramInv
    PROVE  /\ StarterBegins \/ StarterEnds => Stays("starter") /\ "starter" \in Actors
           /\ RuntimeBegins \/ DisposeInternal \/ DisposeServices \/ ClearServices \/ DisposeEnds
                  => Stays("runtime") /\ "runtime" \in Actors
<1>. USE DEF ImplPhases, ProgramInv, Actors, Stays, OnlyActor, serviceVars
<1>1. ASSUME StarterBegins PROVE Stays("starter")
  BY <1>1, ProgramTypes DEF StarterBegins
<1>2. ASSUME StarterEnds PROVE Stays("starter")
  BY <1>2, ProgramTypes DEF StarterEnds
<1>3. ASSUME RuntimeBegins PROVE Stays("runtime")
  BY <1>3, ProgramTypes DEF RuntimeBegins
<1>4. ASSUME DisposeServices PROVE Stays("runtime")
  BY <1>4, ProgramTypes DEF DisposeServices
<1>5. ASSUME DisposeInternal \/ ClearServices \/ DisposeEnds PROVE Stays("runtime")
  BY <1>5 DEF DisposeInternal, ClearServices, DisposeEnds, Goes
<1>. QED  BY <1>1, <1>2, <1>3, <1>4, <1>5

\* The steps of no actor: threads and destructors.
LEMMA ThreadsKind ==
    ASSUME \/ \E s \in ThreadServices : ThreadStep(s) \/ DestructorAsks(s) \/ DestructorJoins(s)
           \/ Over \/ UNCHANGED vars
    PROVE  UNCHANGED <<state, todo, phase>>
BY DEF ThreadStep, ThreadRuns, ThreadEnds, DestructorAsks, DestructorJoins, Destroyed, Over, vars,
       serviceVars, actorVars

\* Every step keeps the services to one actor each.
LEMMA OwnNext ==
    ASSUME ProgramInv, OwnInv, [Next]_vars
    PROVE  ProgramInv' /\ OwnInv'
<1>1. CASE \E a \in Actors : ServiceCall(a)
  BY <1>1, CallKind, OwnStep
<1>2. CASE \E c \in Callers : CallbackBegins(c) \/ SetStackSamplerEnabled(c) \/ Call(c)
  BY <1>2, CallerKind, OwnStep
<1>3. CASE StarterBegins \/ StarterEnds
  BY <1>3, EngineKind, OwnStep
<1>4. CASE RuntimeBegins \/ DisposeInternal \/ DisposeServices \/ ClearServices \/ DisposeEnds
  BY <1>4, EngineKind, OwnStep
<1>5. CASE UNCHANGED <<state, todo, phase>>
  BY <1>5 DEF ProgramInv, OwnInv, Svc
<1>. QED  BY <1>1, <1>2, <1>3, <1>4, <1>5, ThreadsKind DEF Next, Dispose

-----------------------------------------------------------------------------
(***************************************************************************)
(* The guard.                                                              *)
(***************************************************************************)
GuardInv ==
    /\ fault \notin Callers
    /\ \A c \in Callers : phase[c] # "idle" => c \in guards
    /\ isServicesShutdown => guards = {}
    /\ exclusive => isServicesShutdown
    /\ destroyed # {} => isServicesShutdown
    /\ phase["runtime"] = "clear" => isServicesShutdown

\* What a service call leaves alone, and who is to blame when it goes wrong.
LEMMA CallFrame ==
    ASSUME ProgramInv, NEW a \in Actors, ServiceCall(a)
    PROVE  /\ UNCHANGED engineVars
           /\ phase[a] # "idle"
           /\ phase'[a] # "clear"
           /\ \/ fault' \in {fault, "terminate"}
              \/ fault' = a /\ destroyed # {}
<1>. USE DEF ProgramInv
<1>1. CASE Start(a) \/ Stop(a) \/ StartRefused(a) \/ StopRefused(a) \/ SkipStarted(a)
  BY <1>1
     DEF Start, Stop, StartRefused, StopRefused, SkipStarted, Calling, Goes, Returns
<1>2. CASE StartLoop(a) \/ RunWatcher(a) \/ StopThread(a)
  BY <1>2 DEF StartLoop, RunWatcher, StopThread, CreateThread, Inside, Goes
<1>3. CASE \/ StartImpl(a) \/ StartLoopRefused(a) \/ ThreadCreationFails(a) \/ ThreadIsReady(a)
           \/ ThreadStartTimesOut(a) \/ StopImpl(a) \/ JoinThread(a)
  BY <1>3
     DEF StartImpl, StartLoopRefused, ThreadCreationFails, ThreadIsReady, ThreadStartTimesOut,
              StopImpl, JoinThread, StartSucceeds, StartFails, StopSucceeds, StopFails, Inside,
              Returns
<1>4. CASE RunWatcherOverThread(a) \/ UsesDestroyed(a)
  BY <1>4 DEF RunWatcherOverThread, UsesDestroyed, Inside, actorVars
<1>. QED  BY <1>1, <1>2, <1>3, <1>4 DEF ServiceCall

\* The guard's invariant through a service call.
LEMMA GuardCall ==
    ASSUME ProgramInv, GuardInv, NEW a \in Actors, ServiceCall(a)
    PROVE  GuardInv'
<1>1. OnlyActor(a)
  BY CallKind DEF Enters, Moves, Leaves, Stays
<1>2. \A b \in Actors : phase'[b] # "idle" => phase[b] # "idle"
  BY <1>1, CallFrame DEF OnlyActor
<1>3. phase'["runtime"] = "clear" => phase["runtime"] = "clear"
  BY <1>1, CallFrame DEF OnlyActor, Actors
<1>4. fault' \notin Callers
  BY CallFrame, ServiceLifecycleAssumption DEF GuardInv
<1>. QED  BY <1>2, <1>3, <1>4, CallFrame DEF GuardInv, engineVars, Actors

\* The guard's invariant through the other steps.
LEMMA GuardOther ==
    ASSUME ProgramInv, GuardInv, [Next]_vars, \A a \in Actors : ~ServiceCall(a)
    PROVE  GuardInv'
<1>. USE ServiceLifecycleAssumption DEF GuardInv, ProgramInv, Actors
<1>1. ASSUME NEW c \in Callers, CallbackBegins(c) \/ SetStackSamplerEnabled(c) PROVE GuardInv'
  BY <1>1 DEF CallbackBegins, SetStackSamplerEnabled, CallBegins, TakeGuard, IsActive
<1>2. ASSUME NEW c \in Callers, TakeToggleLock(c) \/ UseService(c) PROVE GuardInv'
  BY <1>2 DEF TakeToggleLock, UseService, Calling, Goes, Returns, engineVars
<1>3. ASSUME NEW c \in Callers, CallEnds(c) PROVE GuardInv'
  BY <1>3 DEF CallEnds, Goes
<1>4. CASE StarterBegins \/ StarterEnds \/ RuntimeBegins
  BY <1>4 DEF StarterBegins, StarterEnds, RuntimeBegins, engineVars
<1>5. CASE DisposeInternal
  BY <1>5 DEF DisposeInternal, Goes
<1>6. CASE DisposeServices
  BY <1>6 DEF DisposeServices
<1>7. CASE ClearServices
  BY <1>7 DEF ClearServices, Goes, engineVars
<1>8. CASE DisposeEnds
  BY <1>8 DEF DisposeEnds, Goes
<1>9. ASSUME NEW s \in ThreadServices, DestructorAsks(s) PROVE GuardInv'
  BY <1>9 DEF DestructorAsks, actorVars, engineVars
<1>10. ASSUME NEW s \in ThreadServices, DestructorJoins(s) PROVE GuardInv'
  BY <1>10 DEF DestructorJoins, BeingDestroyed, Destroyed, actorVars
<1>11. ASSUME NEW s \in ThreadServices, ThreadStep(s) PROVE GuardInv'
  BY <1>11 DEF ThreadStep, ThreadRuns, ThreadEnds, actorVars, engineVars
<1>12. CASE Over \/ UNCHANGED vars
  BY <1>12 DEF Over, vars, actorVars, engineVars
<1>. QED
  BY <1>1, <1>2, <1>3, <1>4, <1>5, <1>6, <1>7, <1>8, <1>9, <1>10, <1>11, <1>12
     DEF Next, Call, Dispose

-----------------------------------------------------------------------------
(***************************************************************************)
(* The threads.                                                            *)
(***************************************************************************)
ThreadTypes ==
    /\ DOMAIN thread = ThreadServices
    /\ object \in [ThreadServices -> BOOLEAN]
    /\ shutdownRequested \in [ThreadServices -> BOOLEAN]

\* The thread of s is not there, or has been asked to end.
Gone(s) == thread[s] \in {"none", "ended"} \/ shutdownRequested[s]

ThreadInv ==
    /\ ThreadTypes
    /\ \A s \in ThreadServices : object[s] <=> thread[s] # "none"
    /\ \A s \in ThreadServices : s \in destroyed => thread[s] = "none"
    /\ \A s \in ThreadServices : state[s] \in {"Init", "Stopped"} => Gone(s)
    /\ \A a \in Actors : phase[a] = "startImpl" /\ Svc(a) \in ThreadServices => Gone(Svc(a))

\* A step that touches no thread.
LEMMA ThreadsRest ==
    ASSUME ProgramInv, ThreadInv, NEW a \in Actors,
           \/ Enters(a)
           \/ Stays(a)
           \/ Leaves(a) /\ Svc(a) = "cpu",
           UNCHANGED <<thread, object, shutdownRequested, destroyed>>
    PROVE  ThreadInv'
<1>. USE DEF ThreadInv, ThreadTypes, Gone
<1>0. OnlyActor(a) /\ \A b \in Actors \ {a} : Svc(b)' = Svc(b)
  BY OtherService DEF Enters, Stays, Leaves
<1>1. CASE Enters(a)
  <2>1. Svc(a) \in Services /\ Svc(a)' = Svc(a)
    BY <1>1, ServiceType DEF Enters, Svc
  <2>2. \A s \in ThreadServices :
            /\ Gone(s)' <=> Gone(s)
            /\ state'[s] \in {"Init", "Stopped"} => state'[s] = state[s]
    BY <1>1, ZenonT(60) DEF Enters, SetState, ProgramInv, ThreadServices, Services
  <2>3. phase'[a] = "startImpl" /\ Svc(a) \in ThreadServices => Gone(Svc(a))
    BY <1>1 DEF Enters
  <2>4. \A b \in Actors : phase'[b] = "startImpl" /\ Svc(b)' \in ThreadServices => Gone(Svc(b))'
    BY <1>0, <2>1, <2>3 DEF OnlyActor
  <2>. QED  BY <2>2, <2>4
<1>2. CASE Stays(a)
  <2>1. todo'[a] = todo[a] => Svc(a)' = Svc(a)
    BY DEF Svc
  <2>. QED  BY <1>0, <1>2, <2>1 DEF Stays, OnlyActor, ImplPhases
<1>3. CASE Leaves(a) /\ Svc(a) = "cpu"
  <2>1. \A s \in ThreadServices : state'[s] = state[s]
    BY <1>3 DEF Leaves, SetState, ThreadServices, ProgramInv, Services
  <2>. QED  BY <1>0, <1>3, <2>1 DEF Leaves, OnlyActor, ImplPhases
<1>. QED  BY <1>1, <1>2, <1>3

\* A step of the actor inside StartImpl or StopImpl of a service with a thread:
\* it concerns that service only.
LEMMA ThreadsOwned ==
    ASSUME ProgramInv, OwnInv, ThreadInv, NEW a \in Actors, NEW s \in ThreadServices,
           Moves(a) \/ Leaves(a), s = Svc(a), phase[a] \in ImplPhases,
           ThreadTypes', destroyed' = destroyed, s \notin destroyed,
           \A r \in ThreadServices \ {s} :
               /\ thread'[r] = thread[r]
               /\ object'[r] = object[r]
               /\ shutdownRequested'[r] = shutdownRequested[r],
           object'[s] <=> thread'[s] # "none",
           state'[s] \in {"Init", "Stopped"} => Gone(s)'
    PROVE  ThreadInv'
<1>1. OnlyActor(a) /\ \A b \in Actors \ {a} : Svc(b)' = Svc(b)
  BY OtherService DEF Moves, Leaves
<1>2. phase'[a] # "startImpl"
  BY DEF Moves, Leaves, ImplPhases
<1>3. \A b \in Actors \ {a} : phase[b] \in ImplPhases => Svc(b) # s
  BY DEF OwnInv
<1>4. \A r \in ThreadServices \ {s} : state'[r] = state[r] /\ (Gone(r)' <=> Gone(r))
  BY DEF Moves, Leaves, SetState, ProgramInv, Services, ThreadServices, Gone
<1>5. \A b \in Actors : phase'[b] = "startImpl" /\ Svc(b)' \in ThreadServices => Gone(Svc(b))'
  <2>. SUFFICES ASSUME NEW b \in Actors, phase'[b] = "startImpl", Svc(b)' \in ThreadServices
                PROVE  Gone(Svc(b))'
    OBVIOUS
  <2>1. b # a /\ phase[b] = "startImpl" /\ Svc(b)' = Svc(b)
    BY <1>1, <1>2 DEF OnlyActor
  <2>2. Svc(b) # s /\ Gone(Svc(b))
    BY <1>3, <2>1 DEF ThreadInv, ImplPhases
  <2>. QED  BY <1>4, <2>1, <2>2 DEF Gone
<1>. QED  BY <1>4, <1>5, ZenonT(60) DEF ThreadInv

\* Starting a service with a thread.
LEMMA ThreadsStarting ==
    ASSUME ProgramInv, OwnInv, ThreadInv, NEW a \in Actors,
           \/ StartLoop(a) \/ RunWatcher(a) \/ StartLoopRefused(a)
           \/ ThreadCreationFails(a)
    PROVE  ThreadInv'
<1>0. PICK s : s = Svc(a)
  OBVIOUS
<1>1. phase[a] = "startImpl" /\ s \in ThreadServices /\ s \notin destroyed /\ destroyed' = destroyed
  BY <1>0 DEF StartLoop, RunWatcher, StartLoopRefused, ThreadCreationFails, CreateThread, Inside,
         ThreadServices, engineVars
<1>2. Gone(s) /\ state[s] = "Starting" /\ s \in Services
  BY <1>0, <1>1 DEF ThreadInv, OwnInv, InStart, ThreadServices, Services
<1>3. Moves(a) \/ Leaves(a)
  <2>1. ServiceCall(a) /\ phase'[a] # phase[a] /\ todo[a] # <<>>
    BY <1>0, <1>1 DEF ServiceCall, StartLoop, RunWatcher, StartLoopRefused, ThreadCreationFails,
                CreateThread, StartFails, Goes, Returns, ProgramInv, ImplPhases
  <2>2. phase'[a] \in {"wait", "next"}
    BY DEF StartLoop, RunWatcher, StartLoopRefused, ThreadCreationFails, CreateThread, StartFails,
           Goes, Returns, ProgramInv
  <2>3. CASE phase'[a] = "wait"
    BY <1>0, <1>1, <2>1, <2>3, CallKind DEF Enters, Moves, Leaves, Stays, ImplPhases
  <2>4. CASE phase'[a] = "next"
    <3>1. \E st : SetState(s, st)
      BY <1>0, <2>4
         DEF StartLoop, RunWatcher, StartLoopRefused, ThreadCreationFails, CreateThread,
                  StartFails, Goes, ProgramInv
    <3>. QED
      BY <1>0, <1>1, <2>1, <2>4, <3>1, CallKind
         DEF Enters, Moves, Leaves, Stays, ImplPhases
  <2>. QED  BY <2>2, <2>3, <2>4
<1>4. CASE StartLoop(a) \/ RunWatcher(a)
  <2>1. /\ shutdownRequested' = [shutdownRequested EXCEPT ![s] = FALSE]
        /\ thread' = [thread EXCEPT ![s] = "created"]
        /\ object' = [object EXCEPT ![s] = TRUE]
        /\ state' = state
    BY <1>0, <1>4 DEF StartLoop, RunWatcher, CreateThread
  <2>. QED  BY <1>0, <1>1, <1>2, <1>3, <2>1, ThreadsOwned
               DEF ThreadInv, ThreadTypes, ImplPhases
<1>5. CASE StartLoopRefused(a)
  <2>1. UNCHANGED <<thread, object, shutdownRequested>>
    BY <1>0, <1>5 DEF StartLoopRefused
  <2>2. Gone(s)'
    BY <1>0, <1>2, <2>1 DEF Gone
  <2>. QED  BY <1>0, <1>1, <1>3, <2>1, <2>2, ThreadsOwned
               DEF ThreadInv, ThreadTypes, ImplPhases
<1>6. CASE ThreadCreationFails(a)
  <2>1. /\ shutdownRequested' = [shutdownRequested EXCEPT ![s] = FALSE]
        /\ UNCHANGED <<thread, object>> /\ ~object[s]
    BY <1>0, <1>6 DEF ThreadCreationFails
  <2>2. thread'[s] = "none"
    BY <1>0, <1>1, <2>1 DEF ThreadInv
  <2>. QED
    BY <1>0, <1>1, <1>3, <2>1, <2>2, ThreadsOwned
       DEF ThreadInv, ThreadTypes, ImplPhases, Gone
<1>. QED  BY <1>0, <1>4, <1>5, <1>6

\* Waiting for the thread of a service, and stopping it.
LEMMA ThreadsStopping ==
    ASSUME ProgramInv, OwnInv, ThreadInv, NEW a \in Actors,
           ThreadIsReady(a) \/ ThreadStartTimesOut(a) \/ StopThread(a) \/ JoinThread(a)
    PROVE  ThreadInv'
<1>0. PICK s : s = Svc(a)
  OBVIOUS
<1>1. phase[a] \in ImplPhases /\ s \in ThreadServices /\ s \notin destroyed /\ destroyed' = destroyed
  BY <1>0
     DEF ThreadIsReady, ThreadStartTimesOut, StopThread, JoinThread, Inside, ImplPhases,
              OwnInv, engineVars
<1>2. s \in Services /\ DOMAIN state = Services /\ todo[a] # <<>> /\ phase[a] # "startImpl"
  BY <1>1
     DEF ThreadServices, Services, ProgramInv, ThreadIsReady, ThreadStartTimesOut, StopThread,
              JoinThread, Inside, ImplPhases
<1>3. ServiceCall(a)
  BY DEF ServiceCall
<1>4. CASE ThreadIsReady(a)
  <2>1. /\ UNCHANGED <<thread, object, shutdownRequested>> /\ SetState(s, "Started")
        /\ phase'[a] = "next"
    BY <1>0, <1>4 DEF ThreadIsReady, StartSucceeds, Returns, ProgramInv
  <2>2. state'[s] = "Started"
    BY <1>2, <2>1 DEF SetState
  <2>3. Leaves(a)
    BY <1>0, <1>1, <1>2, <1>3, <2>1, CallKind DEF Enters, Moves, Leaves, Stays, ImplPhases
  <2>. QED  BY <1>0, <1>1, <2>1, <2>2, <2>3, ThreadsOwned DEF ThreadInv, ThreadTypes
<1>5. CASE ThreadStartTimesOut(a)
  <2>1. /\ UNCHANGED <<thread, object>> /\ SetState(s, "Init") /\ phase'[a] = "next"
        /\ shutdownRequested' = [shutdownRequested EXCEPT ![s] = TRUE]
    BY <1>0, <1>5 DEF ThreadStartTimesOut, StartFails, Returns, ProgramInv
  <2>2. Gone(s)'
    BY <1>1, <2>1 DEF Gone, ThreadInv, ThreadTypes
  <2>3. Leaves(a)
    BY <1>0, <1>1, <1>2, <1>3, <2>1, CallKind DEF Enters, Moves, Leaves, Stays, ImplPhases
  <2>. QED  BY <1>0, <1>1, <2>1, <2>2, <2>3, ThreadsOwned DEF ThreadInv, ThreadTypes
<1>6. CASE StopThread(a)
  <2>1. /\ UNCHANGED <<thread, object, state, todo>>
        /\ shutdownRequested' = [shutdownRequested EXCEPT ![s] = TRUE]
    BY <1>0, <1>6 DEF StopThread, Goes
  <2>2. Gone(s)'
    BY <1>1, <2>1 DEF Gone, ThreadInv, ThreadTypes
  <2>3. Moves(a)
    <3>1. OnlyActor(a)
      BY <1>2, <2>1, <1>6, ReturnsOrGoes DEF StopThread
    <3>. QED  BY <1>0, <1>1, <1>6, <2>1, <3>1
                 DEF StopThread, Inside, Goes, Moves, ProgramInv
  <2>. QED  BY <1>0, <1>1, <2>1, <2>2, <2>3, ThreadsOwned DEF ThreadInv, ThreadTypes
<1>7. CASE JoinThread(a)
  <2>1. /\ Joined(s) /\ UNCHANGED shutdownRequested /\ phase'[a] = "next"
        /\ \E st : SetState(s, st)
    BY <1>0, <1>7 DEF JoinThread, StopSucceeds, Returns, ProgramInv
  <2>2. thread'[s] = "none" /\ object'[s] = FALSE
    BY <1>1, <2>1 DEF Joined, ThreadInv, ThreadTypes
  <2>3. Leaves(a)
    BY <1>0, <1>1, <1>2, <1>3, <2>1, CallKind
       DEF Enters, Moves, Leaves, Stays, ImplPhases
  <2>. QED
    BY <1>0, <1>1, <2>1, <2>2, <2>3, ThreadsOwned
       DEF ThreadInv, ThreadTypes, Joined, Gone
<1>. QED  BY <1>4, <1>5, <1>6, <1>7

\* The other steps of a service call.
LEMMA ThreadsElse ==
    ASSUME ProgramInv, OwnInv, ThreadInv, NEW a \in Actors,
           \/ Start(a) \/ StartRefused(a) \/ SkipStarted(a) \/ StartImpl(a) \/ RunWatcherOverThread(a)
           \/ Stop(a) \/ StopRefused(a) \/ StopImpl(a) \/ UsesDestroyed(a)
    PROVE  ThreadInv'
<1>1. UNCHANGED <<thread, object, shutdownRequested, destroyed>>
  BY DEF Start, StartRefused, SkipStarted, StartImpl, RunWatcherOverThread, Stop, StopRefused,
         StopImpl, UsesDestroyed, serviceVars, engineVars
<1>2. ServiceCall(a)
  BY DEF ServiceCall
<1>3. Moves(a) => FALSE
  BY DEF Moves, Start, StartRefused, SkipStarted, StartImpl, RunWatcherOverThread, Stop,
         StopRefused, StopImpl, UsesDestroyed, Calling, Inside, actorVars, ThreadServices
<1>4. Leaves(a) => Svc(a) = "cpu"
  BY DEF Leaves, ImplPhases, Start, StartRefused, SkipStarted, StartImpl, RunWatcherOverThread,
         Stop, StopRefused, StopImpl, UsesDestroyed, Calling, Inside, actorVars
<1>. QED  BY <1>1, <1>2, <1>3, <1>4, CallKind, ThreadsRest

\* The threads of the services, and the destructors.
LEMMA ThreadsThemselves ==
    ASSUME ThreadInv, NEW s \in ThreadServices,
           ThreadStep(s) \/ DestructorAsks(s) \/ DestructorJoins(s)
    PROVE  ThreadInv'
<1>1. UNCHANGED <<state, todo, phase>> /\ \A a \in Actors : Svc(a)' = Svc(a)
  <2>1. \E r \in ThreadServices : ThreadStep(r) \/ DestructorAsks(r) \/ DestructorJoins(r)
    OBVIOUS
  <2>2. UNCHANGED <<state, todo, phase>>
    BY <2>1, ThreadsKind
  <2>3. todo' = todo
    BY <2>2
  <2>. QED  BY <2>2, <2>3 DEF Svc
<1>2. \A r \in ThreadServices : Gone(r) => Gone(r)'
  <2>. TAKE r \in ThreadServices
  <2>1. DOMAIN thread = ThreadServices /\ DOMAIN shutdownRequested = ThreadServices
    BY DEF ThreadInv, ThreadTypes
  <2>2. CASE ThreadRuns(s)
    <3>1. /\ thread[s] = "created" /\ shutdownRequested' = shutdownRequested
          /\ r # s => thread'[r] = thread[r]
      BY <2>1, <2>2 DEF ThreadRuns
    <3>. QED  BY <3>1 DEF Gone
  <2>3. CASE ThreadEnds(s)
    <3>1. /\ thread'[s] = "ended" /\ shutdownRequested' = shutdownRequested
          /\ r # s => thread'[r] = thread[r]
      BY <2>1, <2>3 DEF ThreadEnds
    <3>. QED  BY <3>1 DEF Gone
  <2>4. CASE DestructorAsks(s)
    <3>1. thread' = thread /\ shutdownRequested' = [shutdownRequested EXCEPT ![s] = TRUE]
      BY <2>4 DEF DestructorAsks
    <3>2. CASE r = s
      <4>1. shutdownRequested'[r]
        BY <2>1, <3>1, <3>2
      <4>. QED  BY <4>1 DEF Gone
    <3>3. CASE r # s
      <4>1. shutdownRequested'[r] = shutdownRequested[r]
        BY <2>1, <3>1, <3>3
      <4>. QED  BY <3>1, <4>1 DEF Gone
    <3>. QED  BY <3>2, <3>3
  <2>5. CASE DestructorJoins(s)
    <3>1. /\ shutdownRequested' = shutdownRequested
          /\ thread'[r] = thread[r] \/ thread'[r] = "none"
      BY <2>1, <2>5 DEF DestructorJoins, Joined, Destroyed
    <3>. QED  BY <3>1 DEF Gone
  <2>. QED  BY <2>2, <2>3, <2>4, <2>5 DEF ThreadStep
<1>3. ThreadTypes'
  BY DEF ThreadInv, ThreadTypes, ThreadStep, ThreadRuns, ThreadEnds, DestructorAsks,
         DestructorJoins, Joined, Destroyed
<1>4. \A r \in ThreadServices : object'[r] <=> thread'[r] # "none"
  BY ZenonT(60) DEF ThreadInv, ThreadTypes, ThreadStep, ThreadRuns, ThreadEnds, DestructorAsks,
         DestructorJoins, Joined, Destroyed
<1>5. \A r \in ThreadServices : r \in destroyed' => thread'[r] = "none"
  BY DEF ThreadInv, ThreadTypes, ThreadStep, ThreadRuns, ThreadEnds, DestructorAsks,
         DestructorJoins, Joined, Destroyed, engineVars
<1>. QED  BY <1>1, <1>2, <1>3, <1>4, <1>5 DEF ThreadInv

\* Every step keeps track of the threads.
LEMMA ThreadsNext ==
    ASSUME ProgramInv, OwnInv, ThreadInv, [Next]_vars
    PROVE  ThreadInv'
<1>1. CASE \E a \in Actors : ServiceCall(a)
  BY <1>1, ThreadsStarting, ThreadsStopping, ThreadsElse DEF ServiceCall
<1>2. ASSUME NEW c \in Callers, CallbackBegins(c) \/ SetStackSamplerEnabled(c) \/ Call(c)
      PROVE  ThreadInv'
  <2>1. UNCHANGED <<thread, object, shutdownRequested, destroyed>>
    BY <1>2
       DEF CallbackBegins, SetStackSamplerEnabled, CallBegins, Call, TakeToggleLock,
                UseService, CallEnds, serviceVars, engineVars
  <2>. QED  BY <1>2, <2>1, CallerKind, ThreadsRest
<1>3. CASE StarterBegins \/ StarterEnds
  <2>1. UNCHANGED <<thread, object, shutdownRequested, destroyed>>
    BY <1>3 DEF StarterBegins, StarterEnds, serviceVars, engineVars
  <2>. QED  BY <1>3, <2>1, EngineKind, ThreadsRest
<1>4. CASE RuntimeBegins \/ DisposeInternal \/ DisposeServices \/ ClearServices \/ DisposeEnds
  <2>1. UNCHANGED <<thread, object, shutdownRequested, destroyed>>
    BY <1>4 DEF RuntimeBegins, DisposeInternal, DisposeServices, ClearServices, DisposeEnds,
                serviceVars, engineVars
  <2>. QED  BY <1>4, <2>1, EngineKind, ThreadsRest
<1>5. CASE \E s \in ThreadServices : ThreadStep(s) \/ DestructorAsks(s) \/ DestructorJoins(s)
  BY <1>5, ThreadsThemselves
<1>6. CASE Over \/ UNCHANGED vars
  <2>1. UNCHANGED <<thread, object, shutdownRequested, destroyed, state, todo, phase>>
    BY <1>6 DEF Over, vars, serviceVars, actorVars, engineVars
  <2>. QED  BY <2>1 DEF ThreadInv, ThreadTypes, Gone, Svc
<1>. QED  BY <1>1, <1>2, <1>3, <1>4, <1>5, <1>6 DEF Next, Dispose

-----------------------------------------------------------------------------
LifecycleInv == ProgramInv /\ OwnInv /\ GuardInv /\ ThreadInv

\* At first nobody does anything.
LEMMA LifecycleInitially == Init => LifecycleInv
<1>. SUFFICES ASSUME Init PROVE LifecycleInv
  OBVIOUS
<1>1. ProgramInv
  BY ProgramTypes DEF Init, ProgramInv, ImplPhases
<1>2. OwnInv
  BY DEF Init, OwnInv, ImplPhases, InStart, InStop
<1>3. GuardInv
  BY ServiceLifecycleAssumption DEF Init, GuardInv, Actors
<1>4. ThreadInv
  BY DEF Init, ThreadInv, ThreadTypes, Gone
<1>. QED  BY <1>1, <1>2, <1>3, <1>4 DEF LifecycleInv

\* The inductive invariant: one actor inside a service at a time, a guard for
\* every caller, a thread object for every thread.
THEOREM LifecycleInvariance == Spec => []LifecycleInv
<1>1. LifecycleInv /\ [Next]_vars => LifecycleInv'
  BY OwnNext, GuardCall, GuardOther, ThreadsNext DEF LifecycleInv, Next
<1>. QED  BY <1>1, LifecycleInitially, PTL DEF Spec

\* No callback behind its EngineActiveGuard reaches a destroyed service.
THEOREM GuardAlwaysProtects == Spec => []GuardProtects
<1>1. LifecycleInv => GuardProtects
  BY DEF LifecycleInv, GuardInv, GuardProtects
<1>. QED  BY <1>1, LifecycleInvariance, PTL

\* The thread of a service that is not started is gone or asked to go, and that
\* of a destroyed one is gone.
THEOREM NoThreadIsLeftBehind == Spec => []NoThreadLeftBehind
<1>1. LifecycleInv => NoThreadLeftBehind
  BY DEF LifecycleInv, ThreadInv, Gone, NoThreadLeftBehind
<1>. QED  BY <1>1, LifecycleInvariance, PTL

\* StartImpl creates a thread only where there is none.
THEOREM NoThreadIsReplaced == Spec => NoThreadReplaced
<1>. DEFINE Keeps == \A s \in ThreadServices :
                 thread[s] # "none" => thread'[s] = thread[s] \/ thread'[s] # "created"
<1>1. LifecycleInv /\ [Next]_vars => [Keeps]_vars
  <2>. SUFFICES ASSUME LifecycleInv, Next PROVE Keeps
    OBVIOUS
  <2>. USE DEF LifecycleInv, ThreadInv, ThreadTypes
  <2>1. ASSUME NEW a \in Actors, StartLoop(a) \/ RunWatcher(a) PROVE Keeps
    BY <2>1, ZenonT(60) DEF StartLoop, RunWatcher, CreateThread
  <2>2. ASSUME NEW a \in Actors, JoinThread(a) PROVE Keeps
    BY <2>2 DEF JoinThread, Joined
  <2>3. ASSUME NEW s \in ThreadServices, ThreadStep(s) \/ DestructorJoins(s) PROVE Keeps
    BY <2>3, ZenonT(60) DEF ThreadStep, ThreadRuns, ThreadEnds, DestructorJoins, Joined
  <2>4. ASSUME NEW a \in Actors,
               \/ Start(a) \/ StartRefused(a) \/ SkipStarted(a) \/ StartImpl(a)
               \/ StartLoopRefused(a) \/ RunWatcherOverThread(a) \/ ThreadCreationFails(a)
               \/ ThreadIsReady(a) \/ ThreadStartTimesOut(a)
               \/ Stop(a) \/ StopRefused(a) \/ StopImpl(a) \/ StopThread(a) \/ UsesDestroyed(a)
        PROVE  thread' = thread
    BY <2>4
       DEF Start, StartRefused, SkipStarted, StartImpl, StartLoopRefused, RunWatcherOverThread,
                ThreadCreationFails, ThreadIsReady, ThreadStartTimesOut, Stop, StopRefused,
                StopImpl,
                StopThread, UsesDestroyed, serviceVars
  <2>5. ASSUME \/ \E c \in Callers : CallbackBegins(c) \/ SetStackSamplerEnabled(c) \/ Call(c)
               \/ StarterBegins \/ StarterEnds \/ RuntimeBegins
               \/ DisposeInternal \/ DisposeServices \/ ClearServices \/ DisposeEnds
               \/ \E s \in ThreadServices : DestructorAsks(s)
               \/ Over
        PROVE  thread' = thread
    BY <2>5
       DEF CallbackBegins, SetStackSamplerEnabled, CallBegins, Call, TakeToggleLock, UseService,
                CallEnds, StarterBegins, StarterEnds, RuntimeBegins, DisposeInternal,
                DisposeServices, ClearServices, DisposeEnds, DestructorAsks, Over, vars, serviceVars
  <2>6. thread' = thread => Keeps
    OBVIOUS
  <2>. HIDE DEF Keeps
  <2>. QED  BY <2>1, <2>2, <2>3, <2>4, <2>5, <2>6 DEF Next, ServiceCall, Dispose
<1>. QED  BY <1>1, LifecycleInvariance, PTL DEF Spec, NoThreadReplaced

-----------------------------------------------------------------------------
(***************************************************************************)
(* The toggle lock.                                                        *)
(***************************************************************************)
Distinct(t) == \A j, k \in DOMAIN t : t[j][2] = t[k][2] => j = k
ServicesOf(t) == {t[k][2] : k \in DOMAIN t}

\* What is left of a program after its first call.
LEMMA Popped ==
    ASSUME NEW t \in Calls, t # <<>>, Distinct(t), NEW r, r = Tail(t)
    PROVE  /\ Distinct(r)
           /\ \A k \in DOMAIN r : \E j \in DOMAIN t : r[k] = t[j]
           /\ ServicesOf(r) = ServicesOf(t) \ {Head(t)[2]}
<1>1. /\ Len(t) \in Nat \ {0} /\ DOMAIN t = 1..Len(t) /\ Head(t) = t[1]
      /\ DOMAIN r = 1..(Len(t) - 1) /\ \A k \in 1..(Len(t) - 1) : r[k] = t[k + 1]
  BY DEF Calls
<1>2. \A k \in DOMAIN r : k + 1 \in DOMAIN t /\ k + 1 # 1 /\ r[k] = t[k + 1]
  BY <1>1
<1>3. Distinct(r)
  BY <1>1, <1>2 DEF Distinct
<1>4. \A j \in DOMAIN t : j # 1 => j - 1 \in DOMAIN r /\ r[j - 1] = t[j]
  BY <1>1
<1>5. {r[k][2] : k \in DOMAIN r} = {t[k][2] : k \in DOMAIN t} \ {Head(t)[2]}
  <2>1. 1 \in DOMAIN t
    BY <1>1
  <2>2. ASSUME NEW k \in DOMAIN r PROVE r[k][2] \in {t[j][2] : j \in DOMAIN t} \ {Head(t)[2]}
    BY <1>1, <1>2, <2>1 DEF Distinct
  <2>3. ASSUME NEW j \in DOMAIN t, t[j][2] # Head(t)[2] PROVE t[j][2] \in {r[k][2] : k \in DOMAIN r}
    BY <1>1, <1>4, <2>3
  <2>. QED  BY <2>2, <2>3
<1>. QED  BY <1>2, <1>3, <1>5 DEF ServicesOf

\* The first call of a program is one of its calls.
LEMMA FirstCall ==
    ASSUME ProgramInv, NEW a \in Actors, todo[a] # <<>>
    PROVE  /\ 1 \in DOMAIN todo[a] /\ Head(todo[a]) = todo[a][1] /\ todo[a] \in Calls
           /\ Svc(a) \in Pending(a) /\ Svc(a) \in Services
<1>1. todo[a] \in Seq(Ops \X Services)
  BY DEF ProgramInv, Calls
<1>2. 1 \in DOMAIN todo[a] /\ Head(todo[a]) = todo[a][1]
  BY <1>1
<1>. QED  BY <1>1, <1>2, ServiceType DEF Pending, Svc, Calls

\* The actor enters the service of its next call.
LEMMA ToggleEnters ==
    ASSUME ProgramInv, NEW a \in Actors, NEW ops, NEW old, NEW mid, NEW new, NEW impl,
           "next" \notin impl, Toggles(a, ops, old, mid, new, impl), phase[a] = "next", todo[a] # <<>>,
           SetState(Svc(a), mid), todo' = todo, NEW p \in impl, phase' = [phase EXCEPT ![a] = p]
    PROVE  Toggles(a, ops, old, mid, new, impl)'
<1>1. Svc(a)' = Svc(a) /\ Pending(a)' = Pending(a) /\ phase'[a] = p
  BY DEF Svc, Pending, ProgramInv
<1>2. Svc(a) \in Pending(a) /\ Svc(a) \in Services
  BY FirstCall
<1>. QED  BY <1>1, <1>2 DEF Toggles, SetState, ProgramInv

\* It stays inside.
LEMMA ToggleMoves ==
    ASSUME NEW a \in Actors, NEW ops, NEW old, NEW mid, NEW new, NEW impl,
           Toggles(a, ops, old, mid, new, impl), UNCHANGED <<state, todo>>,
           phase'[a] \in {"next"} \cup impl, phase'[a] \in impl <=> phase[a] \in impl
    PROVE  Toggles(a, ops, old, mid, new, impl)'
<1>1. Svc(a)' = Svc(a) /\ Pending(a)' = Pending(a)
  BY DEF Svc, Pending
<1>. QED  BY <1>1 DEF Toggles

\* It has the service in the new state, and goes on to the next call.
LEMMA ToggleReturns ==
    ASSUME ProgramInv, NEW a \in Actors, NEW ops, NEW old, NEW mid, NEW new, NEW impl,
           "next" \notin impl, Toggles(a, ops, old, mid, new, impl), todo[a] # <<>>,
           todo' = [todo EXCEPT ![a] = Tail(@)], phase' = [phase EXCEPT ![a] = "next"],
           \A s \in Services : state'[s] = IF s = Svc(a) THEN new ELSE state[s]
    PROVE  Toggles(a, ops, old, mid, new, impl)'
<1>1. todo[a] \in Calls /\ Distinct(todo[a])
  BY FirstCall DEF Toggles, Distinct
<1>2. todo'[a] = Tail(todo[a]) /\ phase'[a] = "next"
  BY DEF ProgramInv
<1>3. /\ Distinct(todo'[a])
      /\ \A k \in DOMAIN todo'[a] : \E j \in DOMAIN todo[a] : todo'[a][k] = todo[a][j]
      /\ Pending(a)' = Pending(a) \ {Svc(a)}
  <2>1. /\ Distinct(todo'[a])
        /\ \A k \in DOMAIN todo'[a] : \E j \in DOMAIN todo[a] : todo'[a][k] = todo[a][j]
        /\ ServicesOf(todo'[a]) = ServicesOf(todo[a]) \ {Head(todo[a])[2]}
    BY <1>1, <1>2, Popped
  <2>. QED  BY <2>1 DEF Pending, Svc, ServicesOf
<1>4. \A k \in DOMAIN todo'[a] : todo'[a][k][1] \in ops
  BY <1>3 DEF Toggles
<1>5. \A s \in Services : state'[s] = IF s \notin Pending(a)' THEN new ELSE old
  BY <1>3 DEF Toggles
<1>. QED  BY <1>2, <1>3, <1>4, <1>5 DEF Toggles, Distinct

\* Where an actor that toggles is, and in which state its service is.
LEMMA ToggleAt ==
    ASSUME ProgramInv, NEW a \in Actors, NEW ops, NEW old, NEW mid, NEW new, NEW impl,
           impl \subseteq ImplPhases, Toggles(a, ops, old, mid, new, impl), ServiceCall(a)
    PROVE  /\ phase[a] = "next" \/ phase[a] \in impl
           /\ todo[a] # <<>> /\ Op(a) \in ops /\ Svc(a) \in Services
           /\ state[Svc(a)] = IF phase[a] = "next" THEN old ELSE mid
<1>1. todo[a] # <<>>
  BY DEF ProgramInv, ServiceCall, Start, Stop, StartRefused, StopRefused, SkipStarted, Calling,
         StartLoop,
         RunWatcher, StopThread, StartImpl, StartLoopRefused, ThreadCreationFails, ThreadIsReady,
         ThreadStartTimesOut, StopImpl, JoinThread, RunWatcherOverThread, UsesDestroyed, Inside,
         ImplPhases
<1>2. 1 \in DOMAIN todo[a] /\ Head(todo[a]) = todo[a][1] /\ Svc(a) \in Pending(a) /\ Svc(a) \in Services
  BY <1>1, FirstCall
<1>3. Op(a) \in ops
  BY <1>2 DEF Op, Toggles
<1>. QED  BY <1>1, <1>2, <1>3 DEF Toggles, ImplPhases

\* A call that ensures a service has started becomes one that starts it, and the
\* calls keep their order and their services.
LEMMA SkipsToStart ==
    ASSUME NEW q \in Seq(Ops \X Services), q # <<>>,
           NEW r, r = << <<"start", Head(q)[2]>> >> \o Tail(q)
    PROVE  /\ DOMAIN r = DOMAIN q /\ Head(r)[2] = Head(q)[2]
           /\ \A k \in DOMAIN q :
                 /\ r[k][2] = q[k][2]
                 /\ r[k][1] = "start" \/ r[k][1] = q[k][1]
OBVIOUS

\* One step of an actor that starts the services.
LEMMA SwitchingOn ==
    ASSUME ProgramInv, NEW a \in Actors, NEW old \in {"Init", "Started"}, SwitchesOn(a, old),
           ServiceCall(a), ~implFailed'
    PROVE  SwitchesOn(a, old)' /\ (old = "Init" /\ startOk => startOk')
<1>. DEFINE T == Toggles(a, {"ensure", "start"}, old, "Starting", "Started", InStart)
<1>1. T /\ "next" \notin InStart /\ InStart \subseteq ImplPhases
  BY DEF SwitchesOn, InStart, ImplPhases
<1>2. /\ phase[a] = "next" \/ phase[a] \in InStart
      /\ todo[a] # <<>> /\ Op(a) \in {"ensure", "start"} /\ Svc(a) \in Services
      /\ state[Svc(a)] = IF phase[a] = "next" THEN old ELSE "Starting"
  BY <1>1, ToggleAt
<1>3. CASE Start(a)
  <2>1. /\ SetState(Svc(a), "Starting") /\ todo' = todo /\ startOk' = startOk
        /\ phase' = [phase EXCEPT ![a] = "startImpl"] /\ phase[a] = "next"
    BY <1>3 DEF Start, Goes, Calling
  <2>2. T'
    BY <1>1, <1>2, <2>1, ToggleEnters DEF InStart
  <2>. QED  BY <2>1, <2>2 DEF SwitchesOn
<1>4. CASE StartRefused(a)
  <2>1. /\ todo' = [todo EXCEPT ![a] = Tail(@)] /\ phase' = [phase EXCEPT ![a] = "next"]
        /\ state' = state /\ phase[a] = "next" /\ state[Svc(a)] # "Init"
    BY <1>4 DEF StartRefused, Returns, Calling, serviceVars
  <2>2. old = "Started" /\ state[Svc(a)] = "Started"
    BY <1>2, <2>1
  <2>3. T'
    BY <1>1, <1>2, <2>1, <2>2, ToggleReturns
  <2>. QED  BY <2>2, <2>3 DEF SwitchesOn
<1>5. CASE SkipStarted(a)
  <2>0. phase[a] = "next" /\ state' = state
    BY <1>5 DEF SkipStarted, Calling, serviceVars
  <2>1. CASE state[Svc(a)] = "Started"
    <3>1. /\ todo' = [todo EXCEPT ![a] = Tail(@)] /\ phase' = [phase EXCEPT ![a] = "next"]
      BY <1>5, <2>1 DEF SkipStarted, Returns
    <3>2. T'
      BY <1>1, <1>2, <2>0, <2>1, <3>1, ToggleReturns
    <3>. QED  BY <1>2, <2>0, <2>1, <3>2 DEF SwitchesOn
  <2>2. CASE state[Svc(a)] # "Started"
    <3>1. /\ todo' = [todo EXCEPT ![a] = << <<"start", Svc(a)>> >> \o Tail(@)]
          /\ UNCHANGED <<phase, startOk>>
      BY <1>5, <2>2 DEF SkipStarted
    <3>2. todo'[a] = << <<"start", Head(todo[a])[2]>> >> \o Tail(todo[a]) /\ Svc(a) = Head(todo[a])[2]
      BY <3>1 DEF ProgramInv, Svc
    <3>3. todo[a] \in Seq(Ops \X Services)
      BY DEF ProgramInv, Calls
    <3>4. /\ DOMAIN todo'[a] = DOMAIN todo[a] /\ Head(todo'[a])[2] = Head(todo[a])[2]
          /\ \A k \in DOMAIN todo[a] :
                /\ todo'[a][k][2] = todo[a][k][2]
                /\ todo'[a][k][1] = "start" \/ todo'[a][k][1] = todo[a][k][1]
      BY <1>2, <3>2, <3>3, SkipsToStart
    <3>5. Svc(a)' = Svc(a)
      BY <3>4 DEF Svc
    <3>7. \A k \in DOMAIN todo[a] : todo'[a][k][2] = todo[a][k][2] /\ todo'[a][k][1] \in {"ensure", "start"}
      BY <1>1, <3>4 DEF Toggles
    <3>8. Pending(a)' = Pending(a)
      <4>1. DOMAIN todo'[a] = DOMAIN todo[a] /\ \A k \in DOMAIN todo[a] : todo'[a][k][2] = todo[a][k][2]
        BY <3>4
      <4>. QED  BY <4>1, ZenonT(60) DEF Pending
    <3>9. T'
      <4>1. \A j, k \in DOMAIN todo'[a] : todo'[a][j][2] = todo'[a][k][2] => j = k
        BY <1>1, <3>4, <3>7 DEF Toggles
      <4>2. \A k \in DOMAIN todo'[a] : todo'[a][k][1] \in {"ensure", "start"}
        BY <3>4, <3>7
      <4>3. \A s \in Services : state'[s] = IF s \notin Pending(a)' THEN "Started"
                                            ELSE IF phase'[a] \in InStart /\ s = Svc(a)' THEN "Starting"
                                            ELSE old
        BY <1>1, <2>0, <3>1, <3>8 DEF Toggles
      <4>. QED  BY <2>0, <3>1, <4>1, <4>2, <4>3 DEF Toggles
    <3>. QED  BY <3>1, <3>9 DEF SwitchesOn
  <2>. QED  BY <2>1, <2>2
<1>6. CASE StartLoop(a) \/ RunWatcher(a)
  <2>1. /\ UNCHANGED <<state, todo, startOk>> /\ phase' = [phase EXCEPT ![a] = "wait"]
        /\ phase[a] = "startImpl"
    BY <1>6 DEF StartLoop, RunWatcher, CreateThread, Inside, Goes
  <2>2. T'
    BY <1>1, <2>1, ToggleMoves DEF InStart, ProgramInv
  <2>. QED  BY <2>1, <2>2 DEF SwitchesOn
<1>7. CASE StartSucceeds(a)
  <2>1. /\ todo' = [todo EXCEPT ![a] = Tail(@)] /\ phase' = [phase EXCEPT ![a] = "next"]
        /\ state' = [state EXCEPT ![Svc(a)] = "Started"] /\ (startOk => startOk')
    BY <1>7 DEF StartSucceeds, Returns, SetState
  <2>2. T'
    BY <1>1, <1>2, <2>1, ToggleReturns DEF ProgramInv
  <2>. QED  BY <2>1, <2>2 DEF SwitchesOn
<1>8. CASE UNCHANGED <<state, todo, phase, startOk>>
  <2>1. T'
    <3>1. phase'[a] \in {"next"} \cup InStart /\ (phase'[a] \in InStart <=> phase[a] \in InStart)
      BY <1>2, <1>8
    <3>. QED  BY <1>1, <1>8, <3>1, ToggleMoves
  <2>. QED  BY <1>8, <2>1 DEF SwitchesOn
<1>9. ~StartFails(a) /\ ~Stop(a) /\ ~StopRefused(a) /\ ~StopImpl(a) /\ ~StopThread(a) /\ ~JoinThread(a)
  BY <1>2
     DEF StartFails, Stop, StopRefused, Calling, StopImpl, StopThread, JoinThread, Inside, InStart
<1>10. RunWatcherOverThread(a) \/ UsesDestroyed(a) => UNCHANGED <<state, todo, phase, startOk>>
  BY DEF RunWatcherOverThread, UsesDestroyed, serviceVars, actorVars
<1>11. \/ StartImpl(a) \/ StartLoopRefused(a) \/ ThreadCreationFails(a) \/ ThreadIsReady(a) \/ ThreadStartTimesOut(a)
       => StartSucceeds(a) \/ StartFails(a)
  BY DEF StartImpl, StartLoopRefused, ThreadCreationFails, ThreadIsReady, ThreadStartTimesOut
<1>. QED  BY <1>3, <1>4, <1>5, <1>6, <1>7, <1>8, <1>9, <1>10, <1>11 DEF ServiceCall

\* One step of an actor that stops them so that they can be started again.
LEMMA SwitchingOff ==
    ASSUME ProgramInv, NEW a \in Actors, NEW old \in {"Init", "Started"}, SwitchesOff(a, old),
           ServiceCall(a), ~implFailed'
    PROVE  SwitchesOff(a, old)'
<1>. DEFINE T == Toggles(a, {"park"}, old, "Stopping", "Init", InStop)
<1>1. T /\ "next" \notin InStop /\ InStop \subseteq ImplPhases
  BY DEF SwitchesOff, InStop, ImplPhases
<1>2. /\ phase[a] = "next" \/ phase[a] \in InStop
      /\ todo[a] # <<>> /\ Op(a) = "park" /\ Svc(a) \in Services
      /\ state[Svc(a)] = IF phase[a] = "next" THEN old ELSE "Stopping"
  BY <1>1, ToggleAt
<1>3. CASE Stop(a)
  <2>1. /\ SetState(Svc(a), "Stopping") /\ todo' = todo
        /\ phase' = [phase EXCEPT ![a] = "stopImpl"] /\ phase[a] = "next"
    BY <1>3 DEF Stop, Goes, Calling
  <2>2. T'
    BY <1>1, <1>2, <2>1, ToggleEnters DEF InStop
  <2>. QED  BY <2>2 DEF SwitchesOff
<1>4. CASE StopRefused(a)
  <2>1. /\ todo' = [todo EXCEPT ![a] = Tail(@)] /\ phase' = [phase EXCEPT ![a] = "next"]
        /\ state' = state /\ phase[a] = "next" /\ state[Svc(a)] # "Started"
    BY <1>4 DEF StopRefused, Returns, Calling, serviceVars
  <2>2. state[Svc(a)] = "Init"
    BY <1>2, <2>1
  <2>3. T'
    BY <1>1, <1>2, <2>1, <2>2, ToggleReturns
  <2>. QED  BY <2>3 DEF SwitchesOff
<1>5. CASE StopThread(a)
  <2>1. UNCHANGED <<state, todo>> /\ phase' = [phase EXCEPT ![a] = "join"] /\ phase[a] = "stopImpl"
    BY <1>5 DEF StopThread, Inside, Goes
  <2>2. T'
    BY <1>1, <2>1, ToggleMoves DEF InStop, ProgramInv
  <2>. QED  BY <2>2 DEF SwitchesOff
<1>6. CASE StopSucceeds(a)
  <2>1. /\ todo' = [todo EXCEPT ![a] = Tail(@)] /\ phase' = [phase EXCEPT ![a] = "next"]
        /\ state' = [state EXCEPT ![Svc(a)] = "Init"]
    BY <1>2, <1>6 DEF StopSucceeds, Returns, SetState
  <2>2. T'
    BY <1>1, <1>2, <2>1, ToggleReturns DEF ProgramInv
  <2>. QED  BY <2>2 DEF SwitchesOff
<1>7. CASE UNCHANGED <<state, todo, phase>>
  <2>1. T'
    <3>1. phase'[a] \in {"next"} \cup InStop /\ (phase'[a] \in InStop <=> phase[a] \in InStop)
      BY <1>2, <1>7
    <3>. QED  BY <1>1, <1>7, <3>1, ToggleMoves
  <2>. QED  BY <2>1 DEF SwitchesOff
<1>8. /\ ~StopFails(a) /\ ~Start(a) /\ ~StartRefused(a) /\ ~SkipStarted(a) /\ ~StartImpl(a) /\ ~StartLoop(a)
      /\ ~StartLoopRefused(a) /\ ~RunWatcher(a) /\ ~ThreadCreationFails(a) /\ ~ThreadIsReady(a)
      /\ ~ThreadStartTimesOut(a)
  BY <1>2
     DEF StopFails, Start, StartRefused, SkipStarted, Calling, StartImpl, StartLoop,
         StartLoopRefused,
              RunWatcher, ThreadCreationFails, ThreadIsReady, ThreadStartTimesOut, Inside, InStop
<1>9. RunWatcherOverThread(a) \/ UsesDestroyed(a) => UNCHANGED <<state, todo, phase>>
  BY DEF RunWatcherOverThread, UsesDestroyed, serviceVars, actorVars
<1>10. StopImpl(a) \/ JoinThread(a) => StopSucceeds(a) \/ StopFails(a)
  BY DEF StopImpl, JoinThread
<1>. QED  BY <1>3, <1>4, <1>5, <1>6, <1>7, <1>8, <1>9, <1>10 DEF ServiceCall

\* A service call of one who stays out of the toggles is a use of a destroyed
\* service: no call of theirs starts or stops anything.
LEMMA StayingOut ==
    ASSUME ProgramInv, NEW a \in Actors, StaysOut(a) \/ phase[a] = "done", ServiceCall(a)
    PROVE  UNCHANGED <<state, todo, phase>>
<1>1. CASE phase[a] = "next" /\ todo[a] # <<>>
  <2>1. Op(a) = "use"
    BY <1>1, FirstCall DEF Op, StaysOut
  <2>2. ~Start(a) /\ ~StartRefused(a) /\ ~SkipStarted(a) /\ ~Stop(a) /\ ~StopRefused(a)
    BY <2>1 DEF Start, StartRefused, SkipStarted, Stop, StopRefused, Calling
  <2>3. RunWatcherOverThread(a) \/ UsesDestroyed(a)
    BY <1>1, <2>2
       DEF ServiceCall, StartImpl, StartLoop, StartLoopRefused, RunWatcher, ThreadCreationFails,
              ThreadIsReady, ThreadStartTimesOut, StopImpl, StopThread, JoinThread, Inside
  <2>. QED  BY <2>3 DEF RunWatcherOverThread, UsesDestroyed, serviceVars, actorVars
<1>2. CASE ~(phase[a] = "next" /\ todo[a] # <<>>)
  <2>1. phase[a] \notin ImplPhases
    BY DEF StaysOut, ImplPhases
  <2>. QED  BY <1>2, <2>1
               DEF ServiceCall, Start, StartRefused, SkipStarted, Stop, StopRefused, Calling,
              StartImpl, StartLoop, StartLoopRefused, RunWatcher, ThreadCreationFails,
              ThreadIsReady,
              ThreadStartTimesOut, StopImpl, StopThread, JoinThread, RunWatcherOverThread,
              UsesDestroyed,
              Inside, ImplPhases
<1>. QED  BY <1>1, <1>2

\* What a service call leaves alone of what the toggles depend on.
LEMMA ToggleFrame ==
    ASSUME ProgramInv, NEW a \in Actors, ServiceCall(a)
    PROVE  /\ OnlyActor(a) /\ delayed' = delayed /\ toggleLock' = toggleLock
           /\ implFailed => implFailed'
           /\ phase[a] # "idle" /\ phase'[a] # "idle"
<1>1. OnlyActor(a) /\ toggleLock' = toggleLock /\ phase[a] # "idle"
  BY CallKind, CallFrame DEF Enters, Moves, Leaves, Stays, engineVars
<1>2. delayed' = delayed
  BY DEF ServiceCall, Start, StartRefused, SkipStarted, Stop, StopRefused, StartImpl, StartLoop,
         StartLoopRefused, RunWatcher, CreateThread, ThreadCreationFails, ThreadIsReady,
         ThreadStartTimesOut,
         StopImpl, StopThread, JoinThread, RunWatcherOverThread, UsesDestroyed
<1>3. implFailed => implFailed'
  BY DEF ServiceCall, Start, StartRefused, SkipStarted, Stop, StopRefused, StartImpl, StartLoop,
         StartLoopRefused, RunWatcher, CreateThread, ThreadCreationFails, ThreadIsReady,
         ThreadStartTimesOut,
         StopImpl, StopThread, JoinThread, RunWatcherOverThread, UsesDestroyed, StartSucceeds,
         StartFails,
         StopSucceeds, StopFails
<1>4. phase' = phase \/ \E p \in {"next"} \cup ImplPhases : phase' = [phase EXCEPT ![a] = p]
  BY DEF ServiceCall, Start, StartRefused, SkipStarted, Stop, StopRefused, StartImpl, StartLoop,
         StartLoopRefused, RunWatcher, CreateThread, ThreadCreationFails, ThreadIsReady,
         ThreadStartTimesOut,
         StopImpl, StopThread, JoinThread, RunWatcherOverThread, UsesDestroyed, StartSucceeds,
         StartFails,
         StopSucceeds, StopFails, Returns, Goes, actorVars, ImplPhases
<1>. QED  BY <1>1, <1>2, <1>3, <1>4 DEF ProgramInv, ImplPhases

\* Whoever does not move is where they were.
LEMMA ToggleStays ==
    ASSUME NEW a, UNCHANGED state, phase'[a] = phase[a], todo'[a] = todo[a]
    PROVE  /\ StaysOut(a)' <=> StaysOut(a)
           /\ \A old : SwitchesOn(a, old)' <=> SwitchesOn(a, old)
           /\ \A old : SwitchesOff(a, old)' <=> SwitchesOff(a, old)
<1>1. StaysOut(a)' <=> StaysOut(a)
  BY DEF StaysOut
<1>2. Pending(a)' = Pending(a) /\ Svc(a)' = Svc(a)
  BY DEF Pending, Svc
<1>. QED  BY <1>1, <1>2, ZenonT(60) DEF SwitchesOn, SwitchesOff, Toggles

\* A program that has one call for every service has not begun to toggle.
LEMMA ToggleBegins ==
    ASSUME NEW a \in Actors, NEW old, \A s \in Services : state'[s] = old, phase'[a] = "next"
    PROVE  /\ todo'[a] \in {StartServices, EnableSampler} => SwitchesOn(a, old)'
           /\ todo'[a] = DisableSampler => SwitchesOff(a, old)'
<1>1. ASSUME NEW ops, NEW mid, NEW new, NEW impl, "next" \notin impl,
             \A k \in DOMAIN todo'[a] : todo'[a][k][1] \in ops, Distinct(todo'[a]), ServicesOf(todo'[a]) = Services
      PROVE  Toggles(a, ops, old, mid, new, impl)'
  BY <1>1 DEF Toggles, Pending, Distinct, ServicesOf
<1>2. ASSUME todo'[a] = StartServices PROVE SwitchesOn(a, old)'
  <2>1. /\ DOMAIN todo'[a] = 1..3 /\ todo'[a][1] = <<"ensure", "manager">> /\ todo'[a][2] = <<"ensure", "loop">>
        /\ todo'[a][3] = <<"start", "cpu">>
    BY <1>2 DEF StartServices
  <2>2. Distinct(todo'[a]) /\ ServicesOf(todo'[a]) = Services
    BY <2>1 DEF Distinct, ServicesOf, Services
  <2>. QED  BY <1>1, <2>1, <2>2 DEF SwitchesOn, InStart
<1>3. ASSUME todo'[a] = EnableSampler PROVE SwitchesOn(a, old)'
  <2>1. /\ DOMAIN todo'[a] = 1..3 /\ todo'[a][1] = <<"start", "manager">> /\ todo'[a][2] = <<"start", "loop">>
        /\ todo'[a][3] = <<"start", "cpu">>
    BY <1>3 DEF EnableSampler
  <2>2. Distinct(todo'[a]) /\ ServicesOf(todo'[a]) = Services
    BY <2>1 DEF Distinct, ServicesOf, Services
  <2>. QED  BY <1>1, <2>1, <2>2 DEF SwitchesOn, InStart
<1>4. ASSUME todo'[a] = DisableSampler PROVE SwitchesOff(a, old)'
  <2>1. /\ DOMAIN todo'[a] = 1..3 /\ todo'[a][1] = <<"park", "cpu">> /\ todo'[a][2] = <<"park", "loop">>
        /\ todo'[a][3] = <<"park", "manager">>
    BY <1>4 DEF DisableSampler
  <2>2. Distinct(todo'[a]) /\ ServicesOf(todo'[a]) = Services
    BY <2>1 DEF Distinct, ServicesOf, Services
  <2>. QED  BY <1>1, <2>1, <2>2 DEF SwitchesOff, InStop
<1>. QED  BY <1>2, <1>3, <1>4

\* A service call keeps the toggles in order.
LEMMA ToggleCall ==
    ASSUME ProgramInv, ToggleInv, NEW a \in Actors, ServiceCall(a), Undisturbed'
    PROVE  ToggleInv'
<1>1. /\ OnlyActor(a) /\ delayed' = delayed /\ toggleLock' = toggleLock /\ ~implFailed
      /\ phase[a] # "idle" /\ phase'[a] # "idle" /\ ~implFailed'
  BY ToggleFrame DEF Undisturbed
<1>2. "none" \notin Callers /\ "starter" \notin Callers /\ "runtime" \notin Callers
  BY ServiceLifecycleAssumption
<1>3. a # "runtime" /\ (a = "starter" => ~delayed)
  BY <1>1 DEF Undisturbed
<1>4. Undisturbed
  BY <1>1, <1>3 DEF Undisturbed, OnlyActor, Actors
<1>5. \A b \in Actors \ {a} : phase'[b] = phase[b] /\ todo'[b] = todo[b]
  BY <1>1 DEF OnlyActor
<1>6. CASE a = "starter"
  <2>1. ~Running
    <3>1. ASSUME phase["starter"] = "done" PROVE FALSE
      BY <1>6, <3>1
         DEF ServiceCall, Start, StartRefused, SkipStarted, Stop, StopRefused, Calling,
              StartImpl, StartLoop, StartLoopRefused, RunWatcher, ThreadCreationFails,
              ThreadIsReady,
              ThreadStartTimesOut, StopImpl, StopThread, JoinThread, RunWatcherOverThread,
              UsesDestroyed, Inside
    <3>. QED  BY <1>3, <1>6, <3>1 DEF Running
  <2>2. Initializing /\ SwitchesOn("starter", "Init")
    BY <1>1, <1>4, <1>6, <2>1 DEF ToggleInv, Initializing
  <2>3. SwitchesOn("starter", "Init")' /\ startOk'
    BY <1>1, <1>6, <2>2, SwitchingOn DEF Initializing
  <2>4. phase'["starter"] # "done" /\ ~Running'
    BY <1>1, <1>3, <1>6, <2>3 DEF SwitchesOn, Toggles, InStart, Running
  <2>5. \A c \in Callers : phase'[c] = "idle"
    BY <1>2, <1>5, <1>6, <2>2 DEF Initializing, Actors
  <2>6. Initializing'
    BY <1>1, <1>6, <2>2, <2>3, <2>5 DEF Initializing
  <2>. QED  BY <1>1, <2>4, <2>6 DEF ToggleInv
<1>7. CASE a \in Callers
  <2>1. Running' = Running
    BY <1>1, <1>2, <1>5, <1>7 DEF Running, Actors
  <2>2. Running
    BY <1>1, <1>4, <1>7 DEF ToggleInv, Initializing
  <2>3. Toggling
    BY <1>4, <2>2 DEF ToggleInv
  <2>4. CASE a # toggleLock
    <3>1. UNCHANGED <<state, todo, phase>>
      BY <1>7, <2>3, <2>4, StayingOut DEF Toggling
    <3>2. Toggling'
      BY <1>1, <2>3, <3>1, ToggleStays DEF Toggling
    <3>. QED  BY <1>1, <2>1, <2>2, <3>2 DEF ToggleInv
  <2>5. CASE a = toggleLock
    <3>1. toggleLock # NoOwner
      BY <1>2, <1>7, <2>5 DEF NoOwner
    <3>2. PICK old \in {"Init", "Started"} : SwitchesOn(a, old) \/ SwitchesOff(a, old)
      BY <2>3, <2>5, <3>1 DEF Toggling
    <3>3. SwitchesOn(a, old)' \/ SwitchesOff(a, old)'
      BY <1>1, <3>2, SwitchingOn, SwitchingOff
    <3>4. \A c \in Callers \ {toggleLock'} : StaysOut(c)'
      <4>1. ASSUME NEW c \in Callers, c # a PROVE StaysOut(c)'
        <5>1. StaysOut(c) /\ phase'[c] = phase[c] /\ todo'[c] = todo[c]
          BY <1>5, <2>3, <2>5, <4>1 DEF Toggling, Actors
        <5>. QED  BY <5>1 DEF StaysOut
      <4>. QED  BY <1>1, <2>5, <4>1
    <3>5. Toggling'
      BY <1>1, <2>5, <3>1, <3>3, <3>4 DEF Toggling
    <3>. QED  BY <1>1, <2>1, <2>2, <3>5 DEF ToggleInv
  <2>. QED  BY <2>4, <2>5
<1>. QED  BY <1>3, <1>6, <1>7 DEF Actors

\* So do the steps of a caller outside of service calls.
LEMMA ToggleCaller ==
    ASSUME ProgramInv, ToggleInv, NEW c \in Callers,
           CallbackBegins(c) \/ SetStackSamplerEnabled(c) \/ Call(c), Undisturbed'
    PROVE  ToggleInv'
<1>1. "none" \notin Callers /\ "starter" \notin Callers /\ "runtime" \notin Callers /\ c \in Actors
  BY ServiceLifecycleAssumption DEF Actors
<1>2. Stays(c)
  BY CallerKind
<1>3. /\ \A b \in Actors \ {c} : phase'[b] = phase[b] /\ todo'[b] = todo[b]
      /\ state' = state /\ c \in DOMAIN phase /\ c \in DOMAIN todo
  BY <1>1, <1>2 DEF Stays, OnlyActor, ProgramInv
<1>4. UNCHANGED <<delayed, implFailed>>
  BY DEF CallbackBegins, SetStackSamplerEnabled, CallBegins, Call, TakeToggleLock, UseService,
         CallEnds
<1>5. Undisturbed /\ Running' = Running
  BY <1>1, <1>3, <1>4 DEF Undisturbed, Running, Actors
<1>6. Running
  BY <1>5
     DEF ToggleInv, Initializing, CallbackBegins, SetStackSamplerEnabled, CallBegins, Call,
              TakeToggleLock, UseService, Calling, CallEnds
<1>7. Toggling
  BY <1>5, <1>6 DEF ToggleInv
<1>8. PICK old \in {"Init", "Started"} :
         IF toggleLock = NoOwner
         THEN \A s \in Services : state[s] = old
         ELSE SwitchesOn(toggleLock, old) \/ SwitchesOff(toggleLock, old)
  BY <1>7 DEF Toggling
<1>9. \A d \in Callers \ {c, toggleLock} : StaysOut(d)'
  <2>1. ASSUME NEW d \in Callers \ {c, toggleLock} PROVE StaysOut(d)'
    <3>1. StaysOut(d) /\ phase'[d] = phase[d] /\ todo'[d] = todo[d]
      BY <1>3, <1>7 DEF Toggling, Actors
    <3>. QED  BY <3>1 DEF StaysOut
  <2>. QED  BY <2>1
\* The caller does not hold the lock, before or after.
<1>10. ASSUME toggleLock # c, toggleLock' = toggleLock, StaysOut(c)' PROVE ToggleInv'
  <2>1. /\ toggleLock # NoOwner /\ SwitchesOn(toggleLock, old) => SwitchesOn(toggleLock, old)'
        /\ toggleLock # NoOwner /\ SwitchesOff(toggleLock, old) => SwitchesOff(toggleLock, old)'
    <3>1. ASSUME toggleLock # NoOwner PROVE toggleLock \in Actors \ {c}
      BY <1>10, <3>1 DEF ToggleInv, Actors
    <3>. QED  BY <1>3, <1>10, <3>1, ToggleStays
  <2>2. Toggling'
    BY <1>3, <1>8, <1>9, <1>10, <2>1 DEF Toggling
  <2>. QED  BY <1>5, <1>6, <1>10, <2>2 DEF ToggleInv
<1>11. toggleLock = c => phase[c] # "idle" /\ phase[c] # "locking"
  BY <1>1, <1>8 DEF NoOwner, SwitchesOn, SwitchesOff, Toggles, InStart, InStop
<1>12. CASE CallbackBegins(c) \/ SetStackSamplerEnabled(c)
  <2>1. /\ phase[c] = "idle" /\ toggleLock' = toggleLock
        /\ \/ todo'[c] = Callback /\ phase'[c] = "next"
           \/ todo'[c] \in {EnableSampler, DisableSampler} /\ phase'[c] = "locking"
    BY <1>3, <1>12 DEF CallbackBegins, SetStackSamplerEnabled, CallBegins
  <2>2. \A k \in DOMAIN Callback : Callback[k][1] = "use"
    BY DEF Callback
  <2>3. StaysOut(c)'
    BY <2>1, <2>2 DEF StaysOut
  <2>. QED  BY <1>10, <1>11, <2>1, <2>3
<1>13. CASE TakeToggleLock(c)
  <2>1. /\ phase[c] = "locking" /\ toggleLock = NoOwner /\ toggleLock' = c
        /\ todo' = todo /\ phase'[c] = "next"
    BY <1>3, <1>13 DEF TakeToggleLock, Goes
  <2>2. todo'[c] \in {EnableSampler, DisableSampler} /\ \A s \in Services : state'[s] = old
    BY <1>1, <1>3, <1>7, <1>8, <2>1 DEF Toggling, StaysOut, NoOwner
  <2>4. SwitchesOn(c, old)' \/ SwitchesOff(c, old)'
    BY <1>1, <2>1, <2>2, ToggleBegins
  <2>5. Toggling'
    BY <1>1, <1>9, <2>1, <2>4 DEF Toggling, NoOwner
  <2>. QED  BY <1>5, <1>6, <2>1, <2>5 DEF ToggleInv
<1>14. CASE UseService(c)
  <2>1. /\ todo[c] # <<>> /\ Op(c) = "use" /\ todo'[c] = Tail(todo[c]) /\ phase'[c] = "next"
        /\ toggleLock' = toggleLock /\ phase[c] = "next"
    BY <1>3, <1>14 DEF UseService, Calling, Returns, engineVars
  <2>2. 1 \in DOMAIN todo[c] /\ todo[c][1][1] = "use" /\ todo[c] \in Calls
    BY <1>1, <2>1, FirstCall DEF Op
  <2>3. toggleLock # c
    BY <1>1, <1>8, <2>2 DEF NoOwner, SwitchesOn, SwitchesOff, Toggles
  <2>4. \A k \in DOMAIN todo[c] : todo[c][k][1] = "use"
    BY <1>7, <2>1, <2>3 DEF Toggling, StaysOut
  <2>5. \A k \in DOMAIN todo'[c] : k + 1 \in DOMAIN todo[c] /\ todo'[c][k] = todo[c][k + 1]
    BY <2>1, <2>2 DEF Calls
  <2>6. StaysOut(c)'
    BY <2>1, <2>4, <2>5 DEF StaysOut
  <2>. QED  BY <1>10, <2>1, <2>3, <2>6
<1>15. CASE CallEnds(c)
  <2>1. /\ todo[c] = <<>> /\ phase'[c] = "idle" /\ StaysOut(c)'
        /\ toggleLock' = IF toggleLock = c THEN NoOwner ELSE toggleLock
    BY <1>3, <1>15 DEF CallEnds, Goes, StaysOut
  <2>2. CASE toggleLock = c
    <3>1. Pending(c) = {}
      BY <2>1 DEF Pending
    <3>2. PICK new \in {"Init", "Started"} : \A s \in Services : state[s] = new
      BY <1>1, <1>8, <2>2, <3>1 DEF NoOwner, SwitchesOn, SwitchesOff, Toggles
    <3>3. Toggling'
      BY <1>3, <1>9, <2>1, <2>2, <3>2 DEF Toggling
    <3>. QED  BY <1>5, <1>6, <2>1, <2>2, <3>3 DEF ToggleInv
  <2>. QED  BY <1>10, <2>1, <2>2
<1>. QED  BY <1>12, <1>13, <1>14, <1>15 DEF Call

\* Every step keeps the toggles in order.
LEMMA ToggleNext ==
    ASSUME ProgramInv, ToggleInv, [Next]_vars
    PROVE  ToggleInv'
<1>1. "none" \notin Callers /\ "starter" \notin Callers /\ "runtime" \notin Callers
  BY ServiceLifecycleAssumption
<1>2. toggleLock' \in Callers \cup {NoOwner}
  <2>1. CASE \E a \in Actors : ServiceCall(a)
    BY <2>1, ToggleFrame DEF ToggleInv
  <2>2. CASE \E c \in Callers : TakeToggleLock(c) \/ CallEnds(c)
    BY <2>2 DEF TakeToggleLock, CallEnds, ToggleInv
  <2>3. ASSUME \/ \E c \in Callers : CallbackBegins(c) \/ SetStackSamplerEnabled(c) \/ UseService(c)
               \/ StarterBegins \/ StarterEnds \/ RuntimeBegins \/ Dispose
               \/ \E s \in ThreadServices : ThreadStep(s)
               \/ Over \/ UNCHANGED vars
        PROVE  toggleLock' = toggleLock
    BY <2>3
       DEF CallbackBegins, SetStackSamplerEnabled, CallBegins, UseService, StarterBegins,
           StarterEnds,
          RuntimeBegins, Dispose, DisposeInternal, DisposeServices, ClearServices, DisposeEnds,
          DestructorAsks,
          DestructorJoins, Destroyed, ThreadStep, ThreadRuns, ThreadEnds, Over, vars, engineVars
  <2>. QED  BY <2>1, <2>2, <2>3 DEF Next, Call, ToggleInv
<1>. SUFFICES ASSUME Undisturbed' PROVE ToggleInv'
  BY <1>2 DEF ToggleInv
<1>3. CASE \E a \in Actors : ServiceCall(a)
  BY <1>3, ToggleCall
<1>4. CASE \E c \in Callers : CallbackBegins(c) \/ SetStackSamplerEnabled(c) \/ Call(c)
  BY <1>4, ToggleCaller
<1>5. ASSUME StarterBegins \/ StarterEnds PROVE ToggleInv'
  <2>1. /\ phase["starter"] \in {"idle", "next"} /\ phase'["starter"] \in {"next", "done"} /\ state' = state
        /\ UNCHANGED <<delayed, implFailed, toggleLock>>
        /\ \A b \in Actors \ {"starter"} : phase'[b] = phase[b]
    BY <1>5 DEF StarterBegins, StarterEnds, serviceVars, engineVars, ProgramInv, Actors
  <2>2. ~delayed /\ Undisturbed /\ ~Running
    BY <1>1, <2>1 DEF Undisturbed, Running, Actors
  <2>3. Initializing /\ toggleLock' = NoOwner
    BY <2>1, <2>2 DEF ToggleInv, Initializing
  <2>4. \A c \in Callers : phase'[c] = "idle"
    BY <1>1, <2>1, <2>3 DEF Initializing, Actors
  <2>5. ASSUME NEW old \in {"Init", "Started"}, \A s \in Services : state[s] = old, phase'["starter"] = "done"
        PROVE  ToggleInv'
    <3>1. Toggling'
      BY <2>1, <2>3, <2>4, <2>5 DEF Toggling, StaysOut
    <3>. QED  BY <2>3, <2>5, <3>1 DEF ToggleInv, Running
  <2>6. ASSUME startOk', SwitchesOn("starter", "Init")', phase'["starter"] = "next" PROVE ToggleInv'
    <3>1. Initializing' /\ ~Running'
      BY <2>1, <2>2, <2>3, <2>4, <2>6 DEF Initializing, Running
    <3>. QED  BY <2>3, <3>1 DEF ToggleInv
  <2>7. CASE StarterBegins
    <3>1. \A s \in Services : state[s] = "Init"
      BY <2>3, <2>7 DEF Initializing, StarterBegins
    <3>2. CASE isInitialized
      <4>1. todo'["starter"] = StartServices /\ phase'["starter"] = "next" /\ startOk'
        BY <2>3, <2>7, <3>2 DEF StarterBegins, ProgramInv, Actors, Initializing
      <4>2. "starter" \in Actors /\ \A s \in Services : state'[s] = "Init"
        BY <2>1, <3>1 DEF Actors
      <4>3. SwitchesOn("starter", "Init")'
        BY <4>1, <4>2, ToggleBegins
      <4>. QED  BY <2>6, <4>1, <4>3
    <3>3. CASE ~isInitialized
      <4>1. phase'["starter"] = "done"
        BY <2>7, <3>3 DEF StarterBegins, ProgramInv, Actors
      <4>. QED  BY <2>5, <3>1, <4>1
    <3>. QED  BY <3>2, <3>3
  <2>8. CASE StarterEnds
    <3>1. todo["starter"] = <<>> /\ phase["starter"] = "next" /\ startOk
      BY <2>3, <2>8 DEF StarterEnds, Initializing
    <3>2. \A s \in Services : state[s] = "Started"
      BY <2>3, <3>1 DEF Initializing, SwitchesOn, Toggles, Pending
    <3>3. phase'["starter"] = "done"
      BY <2>8, <3>1 DEF StarterEnds, ProgramInv, Actors
    <3>. QED  BY <2>5, <3>2, <3>3
  <2>. QED  BY <1>5, <2>7, <2>8
<1>6. ~RuntimeBegins /\ ~Dispose
  BY DEF Undisturbed, RuntimeBegins, Dispose, DisposeInternal, DisposeServices, ClearServices,
         DisposeEnds,
         DestructorAsks, DestructorJoins, Destroyed, BeingDestroyed, Goes, ProgramInv, Actors,
         actorVars
<1>7. ASSUME (\E s \in ThreadServices : ThreadStep(s)) \/ Over \/ UNCHANGED vars PROVE ToggleInv'
  <2>1. UNCHANGED <<state, todo, phase, startOk, delayed, implFailed, toggleLock>>
    BY <1>7
       DEF ThreadStep, ThreadRuns, ThreadEnds, Over, vars, serviceVars, actorVars, engineVars
  <2>2. Undisturbed /\ Running' = Running
    BY <2>1 DEF Undisturbed, Running
  <2>3. Toggling => Toggling'
    BY <2>1, ToggleStays DEF Toggling
  <2>4. Initializing => Initializing'
    BY <2>1, ToggleStays DEF Initializing
  <2>. QED  BY <1>2, <2>2, <2>3, <2>4 DEF ToggleInv
<1>. QED  BY <1>3, <1>4, <1>5, <1>6, <1>7 DEF Next

\* The inductive invariant behind the toggle lock.
THEOREM ToggleInvariance == Spec => []ToggleInv
<1>1. Init => ToggleInv
  BY DEF Init, ToggleInv, Undisturbed, Running, Toggling, Initializing, StaysOut, NoOwner, Actors
<1>2. ProgramInv /\ ToggleInv /\ [Next]_vars => ToggleInv'
  BY ToggleNext
<1>3. LifecycleInv => ProgramInv
  BY DEF LifecycleInv
<1>. QED  BY <1>1, <1>2, <1>3, LifecycleInvariance, PTL DEF Spec

\* As long as no start or stop fails, calls of SetStackSamplerEnabled leave the
\* services in the same state, for any number of callers and of calls.
THEOREM TogglesAlwaysAgree == Spec => []TogglesAgree
<1>1. ToggleInv => TogglesAgree
  <2>. SUFFICES ASSUME ToggleInv, ~implFailed, phase["runtime"] = "idle",
                       phase["starter"] = IF delayed THEN "idle" ELSE "done",
                       \A c \in Callers : phase[c] \in {"idle", "locking"} \/ todo[c] = Callback
                PROVE  state["manager"] = state["loop"] /\ state["loop"] = state["cpu"]
    BY DEF TogglesAgree
  <2>1. Toggling
    BY DEF ToggleInv, Undisturbed, Running
  <2>2. 1 \in DOMAIN Callback /\ Callback[1][1] = "use"
    BY DEF Callback
  <2>3. toggleLock = NoOwner
    BY <2>1, <2>2
       DEF Toggling, ToggleInv, SwitchesOn, SwitchesOff, Toggles, InStart, InStop
  <2>. QED  BY <2>1, <2>3 DEF Toggling, Services
<1>. QED  BY <1>1, ToggleInvariance, PTL
=============================================================================
