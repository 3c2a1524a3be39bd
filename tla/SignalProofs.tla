----------------------------- MODULE SignalProofs ------------------------------
(***************************************************************************)
(* Sampling by signals, for every set of threads, any number of foreign    *)
(* signals, with or without spurious wakeups and sigaction errors.         *)
(*                                                                         *)
(* The walk of a thread's stack in a signal handler (StackWalk: IInv is    *)
(* inductive), the same with the syscall shield around it, by which no     *)
(* syscall fails without cause (SyscallShield: ShieldInv is inductive),    *)
(* and the chain of handlers that both rest on, which loses no signal of   *)
(* the application (SignalChain: ChainInv is inductive).                   *)
(***************************************************************************)
EXTENDS SyscallShield, SignalChain, TLAPS

USE ZenonT(5), SMTT(30)   \* the provers, in this order

-----------------------------------------------------------------------------
\* Every initial state satisfies the inductive invariant.
LEMMA InitIInv == Init => IInv
<1> SUFFICES ASSUME Init PROVE IInv
    OBVIOUS
<1>1. TypeOK
  <2>1. SigTypeOK
        BY DEF Init, SigInit, SigTypeOK, Actions
  <2>2. appSignals \in 0 .. MaxAppSignals
        BY StackWalkAssumption DEF Init
  <2> QED BY <2>1, <2>2
             DEF Init, TypeOK, SamplerStates, HandlerStates, ThreadStates, Codes,
                            Sources
<1>2. SamplerInv /\ InstanceInv /\ LockInv /\ WalkInv
      BY StackWalkAssumption DEF Init, SamplerInv, InstanceInv, LockInv, WalkInv, Collecting
<1> QED BY <1>1, <1>2 DEF IInv

\* The actions that only change who handles the signal keep its type.
LEMMA SigTypes ==
    ASSUME SigTypeOK,
           RegisterHandler \/ AppInstalls \/ CheckStillInstalled \/ CheckRestores \/ CheckFails
    PROVE  SigTypeOK'
  BY DEF SigTypeOK, Actions, sigVars, RegisterHandler, AppInstalls, CheckStillInstalled,
         CheckRestores, CheckFails, SetupSignalHandler, SetupFails

\* Every step preserves the types.
LEMMA NextTypeOK == IInv /\ [Next]_vars => TypeOK'
<1> SUFFICES ASSUME IInv, [Next]_vars PROVE TypeOK'
    OBVIOUS
<1> USE StackWalkAssumption DEF IInv, TypeOK, SamplerStates, HandlerStates, ThreadStates,
        Codes, Sources
<1>1. CASE NewCollector
      BY <1>1, SigTypes DEF NewCollector, samplerVars, threadVars, handlerVars
<1>2. CASE AppInstallsHandler
      BY <1>2, SigTypes DEF AppInstallsHandler, samplerVars, threadVars, handlerVars
<1>3. CASE AllowStackWalk
      BY <1>3 DEF AllowStackWalk, SamplerInv, sigVars, SigTypeOK, threadVars, handlerVars
<1>4. CASE HandlerNotInPlace \/ SendSignalFails
      BY <1>4 DEF HandlerNotInPlace, SendSignalFails, sigVars, SigTypeOK, threadVars, handlerVars
<1>5. CASE SendSignal
      BY <1>5 DEF SendSignal, SamplerInv, sigVars, SigTypeOK, threadVars
<1>6. CASE WakeNotified
      BY <1>6 DEF WakeNotified, StopWaiting, sigVars, SigTypeOK, threadVars, handlerVars
<1>7. CASE WakeTimeout
      BY <1>7, SigTypes DEF WakeTimeout, StopWaiting, threadVars, handlerVars
<1>8. CASE Leave
      BY <1>8 DEF Leave, SamplerInv, sigVars, SigTypeOK, threadVars, handlerVars
<1>9. ASSUME NEW t \in Threads, Pick(t) PROVE TypeOK'
      BY <1>9 DEF Pick, sigVars, SigTypeOK, threadVars, handlerVars
<1>10. ASSUME NEW t \in Threads, NEW source \in Sources,
              Deliver(t, source) \/ AppSwallows(t, source)
       PROVE TypeOK'
  <2>1. appSignals' \in 0 .. MaxAppSignals /\ pending' \in [Threads -> BOOLEAN]
    <3>1. TakesSignal(t, source)
          BY <1>10 DEF Deliver, AppSwallows
    <3>2. CASE pending[t] /\ pending' = [pending EXCEPT ![t] = FALSE] /\ UNCHANGED appSignals
          BY <3>2
    <3>3. CASE appSignals > 0 /\ appSignals' = appSignals - 1 /\ UNCHANGED pending
          BY <3>3
    <3> QED BY <3>1, <3>2, <3>3 DEF TakesSignal
  <2>2. hpc' \in [Threads -> HandlerStates] /\ hsource' \in [Threads -> Sources]
        BY <1>10 DEF Deliver, AppSwallows
  <2> QED BY <1>10, <2>1, <2>2 DEF Deliver, AppSwallows, samplerVars, sigVars, SigTypeOK, threadVars
<1>11. ASSUME NEW t \in Threads, HandlerStep(t) PROVE TypeOK'
  <2>1. CASE LockMutex(t)
        BY <2>1 DEF LockMutex, HandlerReturns, samplerVars, sigVars, SigTypeOK, threadVars
  <2>2. CASE WalkStack(t)
        BY <2>2 DEF WalkStack, sigVars, SigTypeOK, threadVars
  <2>3. CASE NotifyStackWalkCompleted(t)
    <3>1. notified' \in BOOLEAN /\ lastErrorCode' \in Codes
          BY <2>3 DEF NotifyStackWalkCompleted
    <3> QED BY <2>3, <3>1 DEF NotifyStackWalkCompleted, HandlerReturns, sigVars, SigTypeOK,
                              threadVars
  <2> QED BY <1>11, <2>1, <2>2, <2>3 DEF HandlerStep
<1>12. ASSUME NEW t \in Threads, SelfCollect(t) \/ SelfCollectEnds(t) PROVE TypeOK'
      BY <1>12 DEF SelfCollect, SelfCollectEnds, samplerVars, sigVars, SigTypeOK, handlerVars
<1>13. ASSUME NEW t \in Threads,
              UnregisterThread(t) \/ SetThreadDestroyed(t) \/ ThreadExits(t)
       PROVE TypeOK'
  <2>1. CASE UnregisterThread(t) \/ SetThreadDestroyed(t)
        BY <2>1 DEF UnregisterThread, SetThreadDestroyed, samplerVars, sigVars, SigTypeOK,
                    handlerVars
  <2>2. CASE ThreadExits(t)
        BY <2>2 DEF ThreadExits, samplerVars, sigVars, SigTypeOK
  <2> QED BY <1>13, <2>1, <2>2
<1>14. CASE UNCHANGED vars
      BY <1>14 DEF vars, samplerVars, sigVars, SigTypeOK, threadVars, handlerVars
<1> QED BY <1>1, <1>2, <1>3, <1>4, <1>5, <1>6, <1>7, <1>8, <1>9, <1>10, <1>11, <1>12, <1>13,
           <1>14 DEF Next, SamplerStep

\* Every step preserves the relations between the sampler, the locks and the
\* handlers.
LEMMA NextRelations ==
    IInv /\ [Next]_vars => SamplerInv' /\ InstanceInv' /\ LockInv' /\ WalkInv'
<1> SUFFICES ASSUME IInv, [Next]_vars
             PROVE  SamplerInv' /\ InstanceInv' /\ LockInv' /\ WalkInv'
    OBVIOUS
<1> USE StackWalkAssumption DEF IInv, TypeOK, SamplerInv, InstanceInv, LockInv, WalkInv, Collecting
<1>1. CASE NewCollector \/ AppInstallsHandler
      BY <1>1 DEF NewCollector, AppInstallsHandler, samplerVars, threadVars, handlerVars
<1>2. CASE AllowStackWalk
      BY <1>2 DEF AllowStackWalk, threadVars, handlerVars
<1>3. CASE HandlerNotInPlace \/ SendSignalFails
      BY <1>3 DEF HandlerNotInPlace, SendSignalFails, threadVars, handlerVars
<1>4. CASE SendSignal
      BY <1>4 DEF SendSignal, threadVars
<1>5. CASE WakeNotified \/ WakeTimeout
      BY <1>5 DEF WakeNotified, WakeTimeout, StopWaiting, threadVars, handlerVars
<1>6. CASE Leave
      BY <1>6 DEF Leave, threadVars, handlerVars
<1>7. ASSUME NEW t \in Threads, Pick(t)
      PROVE  SamplerInv' /\ InstanceInv' /\ LockInv' /\ WalkInv'
      BY <1>7 DEF Pick, threadVars, handlerVars
<1>8. ASSUME NEW t \in Threads, NEW source \in Sources,
             Deliver(t, source) \/ AppSwallows(t, source)
      PROVE  SamplerInv' /\ InstanceInv' /\ LockInv' /\ WalkInv'
      BY <1>8 DEF Deliver, AppSwallows, TakesSignal, samplerVars, threadVars
<1>9. ASSUME NEW t \in Threads, LockMutex(t)
      PROVE  SamplerInv' /\ InstanceInv' /\ LockInv' /\ WalkInv'
      BY <1>9 DEF LockMutex, CanCollect, HandlerReturns, samplerVars, threadVars
<1>10. ASSUME NEW t \in Threads, WalkStack(t)
       PROVE  SamplerInv' /\ InstanceInv' /\ LockInv' /\ WalkInv'
      BY <1>10 DEF WalkStack, threadVars
<1>11. ASSUME NEW t \in Threads, NotifyStackWalkCompleted(t)
       PROVE  SamplerInv' /\ InstanceInv' /\ LockInv' /\ WalkInv'
      BY <1>11 DEF NotifyStackWalkCompleted, HandlerReturns, threadVars
<1>12. ASSUME NEW t \in Threads, SelfCollect(t) \/ SelfCollectEnds(t)
       PROVE  SamplerInv' /\ InstanceInv' /\ LockInv' /\ WalkInv'
      BY <1>12 DEF SelfCollect, SelfCollectEnds, samplerVars, handlerVars
<1>13. ASSUME NEW t \in Threads, UnregisterThread(t) \/ SetThreadDestroyed(t) \/ ThreadExits(t)
       PROVE  SamplerInv' /\ InstanceInv' /\ LockInv' /\ WalkInv'
      BY <1>13 DEF UnregisterThread, SetThreadDestroyed, ThreadExits, samplerVars, handlerVars
<1>14. CASE UNCHANGED vars
      BY <1>14 DEF vars, samplerVars, threadVars, handlerVars
<1> QED BY <1>1, <1>2, <1>3, <1>4, <1>5, <1>6, <1>7, <1>8, <1>9, <1>10, <1>11, <1>12, <1>13,
           <1>14, ZenonT(60) DEF Next, SamplerStep, HandlerStep

\* The inductive invariant holds in every reachable state.
THEOREM Invariance == Spec => []IInv
<1>1. IInv /\ [Next]_vars => IInv'
      BY NextTypeOK, NextRelations DEF IInv
<1> QED BY InitIInv, <1>1, PTL DEF Spec

\* The variables keep their types.
THEOREM TypeCorrect == Spec => []TypeOK
<1>1. IInv => TypeOK
      BY DEF IInv
<1> QED BY <1>1, Invariance, PTL

\* A handler only walks for the collection that is waiting for its thread.
THEOREM WalkOnlyWhenAwaitedHolds == Spec => []WalkOnlyWhenAwaited
<1>1. IInv => WalkOnlyWhenAwaited
      BY DEF IInv, SamplerInv, WalkInv, WalkOnlyWhenAwaited, Collecting
<1> QED BY <1>1, Invariance, PTL

\* The stack that becomes a sample of the target is the target's.
THEOREM SampleIsOfTargetHolds == Spec => []SampleIsOfTarget
<1>1. IInv => SampleIsOfTarget
      BY DEF IInv, SamplerInv, SampleIsOfTarget, Collecting
<1> QED BY <1>1, Invariance, PTL

\* A thread that walks its own stack is not walked by a handler on top of it.
THEOREM SelfCollectUninterruptedHolds == Spec => []SelfCollectUninterrupted
<1>1. IInv => SelfCollectUninterrupted
      BY StackWalkAssumption
         DEF IInv, SamplerInv, LockInv, WalkInv, SelfCollectUninterrupted, Collecting
<1> QED BY <1>1, Invariance, PTL

\* A thread is not marked destroyed while it is collected.
THEOREM NotDestroyedWhileSampledHolds == Spec => []NotDestroyedWhileSampled
<1>1. IInv => NotDestroyedWhileSampled
      BY DEF IInv, SamplerInv, NotDestroyedWhileSampled, Collecting
<1> QED BY <1>1, Invariance, PTL

-----------------------------------------------------------------------------
\* The wrapper and its shield only watch the sampler and the handlers: every
\* step of SyscallShield is one of StackWalk, or leaves its state alone.
LEMMA ShieldStepIsStep == [ShieldNext]_allVars => [Next]_vars
  BY DEF ShieldNext, allVars, Next, Timeout, OtherStep, EnterSyscall, WrapperRetries,
         WrapperReturns, PickThread, HandlerStarts, SignalSwallowed, HandlerLocks, HandlerEnds,
         SamplerStep, HandlerStep

\* Sampling threads that are inside of wrapped system calls keeps what
\* sampling keeps: SyscallShield implements StackWalk.
THEOREM ShieldImplementsStackWalk == ShieldSpec => Spec
<1>1. ShieldInit => Init
      BY DEF ShieldInit
<1> QED BY <1>1, ShieldStepIsStep, PTL DEF ShieldSpec, Spec

\* Every initial state satisfies the invariant of the shield.
LEMMA InitShieldInv == ShieldInit => ShieldInv
<1> SUFFICES ASSUME ShieldInit PROVE ShieldInv
    OBVIOUS
<1>1. ShieldTypeOK
      BY DEF ShieldInit, ShieldTypeOK, Sources
<1> QED BY <1>1 DEF ShieldInit, Init, ShieldInv

\* Every step preserves the types of the wrapper's variables.
LEMMA NextShieldTypeOK ==
    ASSUME IInv, ShieldTypeOK, [ShieldNext]_allVars
    PROVE  ShieldTypeOK'
<1> USE DEF ShieldTypeOK
<1>1. CASE Timeout
      BY <1>1 DEF Timeout
<1>2. CASE OtherStep \/ UNCHANGED allVars
      BY <1>2 DEF OtherStep, shieldVars, allVars
<1>3. ASSUME NEW t \in Threads, EnterSyscall(t) \/ PickThread(t) PROVE ShieldTypeOK'
      BY <1>3 DEF EnterSyscall, PickThread, shieldVars
<1>4. ASSUME NEW t \in Threads, WrapperRetries(t) \/ WrapperReturns(t) PROVE ShieldTypeOK'
      BY <1>4 DEF WrapperRetries, WrapperReturns, Sources
<1>5. ASSUME NEW t \in Threads, NEW source \in Sources, Fails(t, source)
      PROVE  eintr' \in [Threads -> Sources]
      BY <1>5 DEF Fails
<1>6. ASSUME NEW t \in Threads, NEW source \in Sources, HandlerStarts(t, source)
      PROVE  ShieldTypeOK'
      BY <1>5, <1>6 DEF HandlerStarts
<1>7. ASSUME NEW t \in Threads, NEW source \in Sources, SignalSwallowed(t, source)
      PROVE  ShieldTypeOK'
  <2>1. "process" \in Sources
        BY DEF Sources
  <2> QED BY <1>5, <1>7, <2>1 DEF SignalSwallowed
<1>8. ASSUME NEW t \in Threads, HandlerLocks(t) PROVE ShieldTypeOK'
  <2>1. hsource[t] \in Sources
        BY DEF IInv, TypeOK
  <2>2. interrupted' \in [Threads -> BOOLEAN]
        BY <1>8 DEF HandlerLocks, MarkAsInterrupted
  <2> QED BY <1>5, <1>8, <2>1, <2>2 DEF HandlerLocks
<1>9. ASSUME NEW t \in Threads, HandlerEnds(t) PROVE ShieldTypeOK'
  <2>1. hsource[t] \in Sources
        BY DEF IInv, TypeOK
  <2> QED BY <1>5, <1>9, <2>1 DEF HandlerEnds
<1> QED BY <1>1, <1>2, <1>3, <1>4, <1>6, <1>7, <1>8, <1>9 DEF ShieldNext

\* What ShieldInv says of a thread before the first timeout.
ShieldedThread(t) ==
    /\ pending[t] => Awaited(t)
    /\ hpc[t] # "none" => Awaited(t) /\ ~pending[t] /\ hsource[t] = "profiler"
    /\ hpc[t] \in {"walking", "notifying"} /\ inSyscall[t] => interrupted[t]
    /\ eintr[t] = "profiler" => interrupted[t]
    /\ ~inSyscall[t] => eintr[t] = "none"

\* Every step but a timeout preserves it, when the application sends no signal
\* of its own and a wait only ends when it is notified.
LEMMA NextShielded ==
    ASSUME MaxAppSignals = 0, ~SpuriousWakeups,
           IInv, ShieldTypeOK, ~timedOut, leaked = {}, \A t \in Threads : ShieldedThread(t),
           [ShieldNext]_allVars, ~timedOut'
    PROVE  leaked' = {} /\ \A t \in Threads : ShieldedThread(t)'
<1> DEFINE Goal == leaked' = {} /\ \A t \in Threads : ShieldedThread(t)'
<1>0. /\ hpc \in [Threads -> HandlerStates] /\ hsource \in [Threads -> Sources]
      /\ pending \in [Threads -> BOOLEAN] /\ ~(appSignals > 0)
      /\ inSyscall \in [Threads -> BOOLEAN] /\ interrupted \in [Threads -> BOOLEAN]
      /\ eintr \in [Threads -> Sources]
  <2>1. appSignals \in 0 .. MaxAppSignals
        BY DEF IInv, TypeOK
  <2>2. ~(appSignals > 0)
        BY <2>1
  <2> QED BY <2>2 DEF IInv, TypeOK, ShieldTypeOK
<1>1. CASE Timeout
      BY <1>1 DEF Timeout
<1>2. CASE OtherStep
  <2>1. CASE NewCollector \/ AppInstallsHandler
    <3>1. UNCHANGED <<spc, target, notified, hpc, hsource, pending>> /\ UNCHANGED shieldVars
          BY <1>2, <2>1 DEF OtherStep, NewCollector, AppInstallsHandler, samplerVars,
                handlerVars
    <3> QED BY <3>1 DEF ShieldedThread, Awaited, shieldVars
  <2>2. CASE AllowStackWalk \/ Leave \/ HandlerNotInPlace
        BY <1>2, <2>2 DEF ShieldedThread, Awaited, OtherStep, shieldVars, AllowStackWalk, Leave,
              HandlerNotInPlace, handlerVars
  <2>3. CASE SendSignal
    <3>1. /\ spc = "prepared" /\ spc' = "waiting" /\ target' = target /\ notified' = FALSE
          /\ pending' = [pending EXCEPT ![target] = TRUE]
          /\ UNCHANGED <<hpc, hsource, inSyscall, interrupted, eintr, leaked>>
          BY <1>2, <2>3 DEF OtherStep, shieldVars, SendSignal
    <3>2. \A t \in Threads : ~pending[t] /\ hpc[t] = "none"
          BY <3>1 DEF ShieldedThread, Awaited
    <3> QED BY <1>0, <3>1, <3>2 DEF ShieldedThread, Awaited
  <2>4. CASE WakeNotified
        BY <1>2, <2>4 DEF ShieldedThread, Awaited, OtherStep, shieldVars, WakeNotified,
              StopWaiting, handlerVars
  <2> QED BY <1>2, <2>1, <2>2, <2>3, <2>4 DEF OtherStep
<1>3. ASSUME NEW t \in Threads, EnterSyscall(t) PROVE Goal
      BY <1>0, <1>3 DEF ShieldedThread, Awaited, EnterSyscall, vars, samplerVars, handlerVars, Runs
<1>4. ASSUME NEW t \in Threads, WrapperRetries(t) \/ WrapperReturns(t) PROVE Goal
      BY <1>0, <1>4 DEF ShieldedThread, Awaited, WrapperRetries, WrapperReturns,
            IsInterruptedByProfiler, vars, samplerVars, handlerVars, Runs
<1>5. ASSUME NEW t \in Threads, PickThread(t) PROVE Goal
      BY <1>5 DEF ShieldedThread, Awaited, PickThread, Pick, shieldVars, handlerVars
<1>6. ASSUME NEW t \in Threads, NEW source \in Sources, HandlerStarts(t, source) PROVE Goal
  <2>1. TakesSignal(t, source) /\ Fails(t, source)
        BY <1>6 DEF HandlerStarts, Deliver
  <2>2. source = "profiler" /\ pending[t] /\ pending' = [pending EXCEPT ![t] = FALSE]
        BY <1>0, <2>1 DEF TakesSignal
  <2>3. Awaited(t) /\ instance
        BY <2>2 DEF ShieldedThread, Awaited, IInv, InstanceInv
  <2>4. /\ hpc' = [hpc EXCEPT ![t] = "locking"] /\ hsource' = [hsource EXCEPT ![t] = "profiler"]
        /\ UNCHANGED <<spc, target, notified, inSyscall, interrupted, leaked>>
        BY <1>6, <2>2, <2>3 DEF HandlerStarts, Deliver, samplerVars
  <2>5. eintr' = eintr
        BY <1>0, <2>1, <2>4 DEF Fails
  <2> QED BY <1>0, <2>2, <2>3, <2>4, <2>5 DEF ShieldedThread, Awaited
<1>7. ASSUME NEW t \in Threads, NEW source \in Sources, SignalSwallowed(t, source) PROVE Goal
  <2>1. TakesSignal(t, source) /\ Fails(t, "process")
        BY <1>7 DEF SignalSwallowed, AppSwallows
  <2>2. pending[t] /\ pending' = [pending EXCEPT ![t] = FALSE] /\ hpc[t] = "none"
        BY <1>0, <2>1 DEF TakesSignal
  <2>3. UNCHANGED <<spc, target, notified, hpc, hsource, inSyscall, interrupted, leaked>>
        BY <1>7 DEF SignalSwallowed, AppSwallows, samplerVars
  <2>4. eintr' \in {eintr, [eintr EXCEPT ![t] = "process"]} /\ (~inSyscall[t] => eintr' = eintr)
        BY <2>1 DEF Fails
  <2> QED BY <1>0, <2>2, <2>3, <2>4 DEF ShieldedThread, Awaited
<1>8. ASSUME NEW t \in Threads, HandlerLocks(t) PROVE Goal
      BY <1>0, <1>8 DEF ShieldedThread, Awaited, HandlerLocks, LockMutex, HandlerReturns,
            MarkAsInterrupted, Fails, samplerVars, IInv, InstanceInv
<1>9. ASSUME NEW t \in Threads, HandlerEnds(t) PROVE Goal
  <2>1. CASE WalkStack(t)
        BY <1>0, <1>9, <2>1 DEF ShieldedThread, Awaited, HandlerEnds, WalkStack, Fails
  <2>2. CASE NotifyStackWalkCompleted(t)
        BY <1>0, <1>9, <2>2 DEF ShieldedThread, Awaited, HandlerEnds, NotifyStackWalkCompleted,
              HandlerReturns, Fails
  <2> QED BY <1>9, <2>1, <2>2 DEF HandlerEnds
<1>10. CASE UNCHANGED allVars
      BY <1>10 DEF ShieldedThread, Awaited, allVars, shieldVars, vars, samplerVars, handlerVars
<1> QED BY <1>1, <1>2, <1>3, <1>4, <1>5, <1>6, <1>7, <1>8, <1>9, <1>10 DEF ShieldNext

\* No wrapped system call fails because of the profiler before a collection has
\* timed out, when SIGUSR1 is the profiler's alone and waits do not end
\* unprompted: the wrapper restarts every call the handler interrupted, also one
\* entered after the sampler asked CanBeInterrupted.
THEOREM EintrOnlyAfterTimeoutHolds ==
    ASSUME MaxAppSignals = 0, ~SpuriousWakeups
    PROVE  ShieldSpec => []EintrOnlyAfterTimeout
<1>1. IInv /\ ShieldInv /\ [ShieldNext]_allVars => ShieldInv'
  <2> SUFFICES ASSUME IInv, ShieldInv, [ShieldNext]_allVars PROVE ShieldInv'
      OBVIOUS
  <2>1. ShieldTypeOK'
        BY NextShieldTypeOK DEF ShieldInv
  <2>2. timedOut => timedOut'
        BY DEF ShieldNext, allVars, Timeout, OtherStep, EnterSyscall, WrapperRetries,
              WrapperReturns, PickThread, HandlerStarts, SignalSwallowed, HandlerLocks,
              HandlerEnds, shieldVars
  <2>3. ~timedOut' => leaked' = {} /\ \A t \in Threads : ShieldedThread(t)'
        BY <2>2, NextShielded DEF ShieldInv, ShieldedThread
  <2> QED BY <2>1, <2>3 DEF ShieldInv, ShieldedThread
<1>2. ShieldInv => EintrOnlyAfterTimeout
      BY DEF ShieldInv, EintrOnlyAfterTimeout
<1>3. ShieldSpec => []IInv
      BY ShieldImplementsStackWalk, Invariance, PTL
<1> QED BY InitShieldInv, <1>1, <1>2, <1>3, PTL DEF ShieldSpec

\* Threads inside of wrapped system calls are sampled as the others are: the
\* stack that becomes a sample of the target is the target's.
THEOREM ShieldedSampleIsOfTarget == ShieldSpec => []SampleIsOfTarget
  BY ShieldImplementsStackWalk, SampleIsOfTargetHolds, PTL

-----------------------------------------------------------------------------
(***************************************************************************)
(* The chain of handlers that the signal goes through.                     *)
(***************************************************************************)
\* What popping and replacing the innermost handler does to each stack.
LEMMA StackShapes ==
    ASSUME NEW c \in Stacks, c # <<>>
    PROVE  /\ c \in {<<"profiler">>, <<"forwarding", "profiler">>} <=> Last(c) = "profiler"
           /\ c \in {<<"app">>, <<"forwarding", "app">>} <=> Last(c) = "app"
           /\ c = <<"forwarding">> <=> Last(c) = "forwarding"
           /\ c[1] = "forwarding" /\ Last(c) # "forwarding" => Front(c) = <<"forwarding">>
           /\ c[1] # "forwarding" => Front(c) = <<>>
           /\ c = <<"forwarding">> => Front(c) = <<>>
<1>1. ASSUME NEW x PROVE Front(<<x>>) = <<>> /\ Last(<<x>>) = x /\ <<x>>[1] = x
      BY DEF Front, Last
<1>2. ASSUME NEW x, NEW y
      PROVE  Front(<<x, y>>) = <<x>> /\ Last(<<x, y>>) = y /\ <<x, y>>[1] = x
  <2>1. Front(<<x, y>>) = [i \in 1 .. 1 |-> <<x, y>>[i]]
        BY DEF Front
  <2>2. <<x>> = [i \in 1 .. 1 |-> <<x, y>>[i]]
        OBVIOUS
  <2>3. Last(<<x, y>>) = y /\ <<x, y>>[1] = x
        BY DEF Last
  <2> QED BY <2>1, <2>2, <2>3
<1>3. CASE c = <<"profiler">>
      BY <1>1, <1>3
<1>4. CASE c = <<"app">>
      BY <1>1, <1>4
<1>5. CASE c = <<"forwarding">>
      BY <1>1, <1>5
<1>6. CASE c = <<"forwarding", "profiler">>
      BY <1>2, <1>6
<1>7. CASE c = <<"forwarding", "app">>
      BY <1>2, <1>7
<1> QED BY <1>3, <1>4, <1>5, <1>6, <1>7 DEF Stacks

\* Every initial state satisfies the invariant of the chain of handlers.
LEMMA InitChainInv == ChainInit => ChainInv
<1> SUFFICES ASSUME ChainInit PROVE ChainInv
    OBVIOUS
<1>1. ChainTypeOK
  <2>1. collectors \in 0 .. MaxCollectors /\ calls \in Seq({"profiler", "forwarding", "app"})
        BY SignalChainAssumption DEF ChainInit
  <2> QED BY <2>1
             DEF ChainInit, SigInit, ChainTypeOK, SigTypeOK, Actions
<1> QED BY <1>1
           DEF ChainInit, SigInit, ChainInv, Stacks, KnowsApp, OnItsWay

\* Installing and restoring handlers keeps the invariant, whatever runs on the
\* thread meanwhile.
LEMMA ChainInstalls ==
    ASSUME ChainInv,
           CollectorIsCreated \/ SamplingTimeout \/ AppRegistersHandler
    PROVE  ChainInv'
<1> USE DEF ChainInv, ChainTypeOK, SigTypeOK, Actions, deliveryVars
<1>1. CASE CollectorIsCreated
  <2>1. collectors' \in 0 .. MaxCollectors
        BY <1>1, SignalChainAssumption DEF CollectorIsCreated
  <2>2. ChainTypeOK'
        BY <1>1, <2>1, ZenonT(60) DEF CollectorIsCreated, RegisterHandler,
              SetupSignalHandler, SetupFails
  <2>3. KnowsApp' /\ OnItsWay'
        BY <1>1 DEF CollectorIsCreated, RegisterHandler, SetupSignalHandler,
              SetupFails, KnowsApp, OnItsWay
  <2> QED BY <1>1, <2>2, <2>3 DEF CollectorIsCreated
<1>2. CASE SamplingTimeout
  <2>1. ChainTypeOK'
        BY <1>2, ZenonT(60)
           DEF SamplingTimeout, CheckStillInstalled, CheckRestores,
              CheckFails, SetupSignalHandler, SetupFails, sigVars
  <2>2. KnowsApp' /\ OnItsWay'
        BY <1>2
           DEF SamplingTimeout, CheckStillInstalled, CheckRestores,
              CheckFails, SetupSignalHandler, SetupFails, sigVars,
              IsProfilerSignalHandlerInstalled, KnowsApp, OnItsWay
  <2> QED BY <1>2, <2>1, <2>2 DEF SamplingTimeout
<1>3. CASE AppRegistersHandler
  <2>1. ChainTypeOK'
        BY <1>3 DEF AppRegistersHandler, AppInstalls
  <2>2. KnowsApp' /\ OnItsWay'
        BY <1>3 DEF AppRegistersHandler, AppInstalls, KnowsApp, OnItsWay
  <2> QED BY <1>3, <2>1, <2>2 DEF AppRegistersHandler
<1> QED BY <1>1, <1>2, <1>3

\* So does what happens on the thread.
LEMMA ChainThread ==
    ASSUME ChainInv, SignalArrives \/ Thread
    PROVE  ChainInv'
<1>0. UNCHANGED <<disposition, previousAction, isHandlerInPlace, canReplaceSignalHandler,
                  collectors, appInstalled, appPrevious>>
      BY DEF SignalArrives, Thread, CustomHandlerTakes, CallOrignalHandler,
            OrignalHandlerReturns, AppHandler, installVars, sigVars
<1>1. calls' \in Stacks /\ (isExecuting' <=> calls' # <<>> /\ calls'[1] = "forwarding")
  <2>1. CASE SignalArrives
        BY <2>1 DEF ChainInv, SignalArrives, Stacks
  <2>2. CASE CustomHandlerTakes
        BY <2>2, StackShapes DEF ChainInv, CustomHandlerTakes, Top, Stacks
  <2>3. CASE CallOrignalHandler
        BY <2>3, StackShapes DEF ChainInv, CallOrignalHandler, Top, Stacks
  <2>4. CASE OrignalHandlerReturns
        BY <2>4, StackShapes DEF ChainInv, OrignalHandlerReturns, Top,
              Stacks
  <2>5. CASE AppHandler
        BY <2>5, StackShapes DEF ChainInv, AppHandler, Top, Stacks
  <2> QED BY <2>1, <2>2, <2>3, <2>4, <2>5 DEF Thread
<1>2. isExecuting' \in BOOLEAN /\ taken' \in BOOLEAN /\ appRan' \in BOOLEAN /\ owed' \in BOOLEAN
      BY DEF SignalArrives, Thread, CustomHandlerTakes, CallOrignalHandler,
            OrignalHandlerReturns, AppHandler, ChainInv, ChainTypeOK
<1>3. ChainTypeOK'
  <2>1. calls' \in Seq({"profiler", "forwarding", "app"})
    <3> DEFINE H == {"profiler", "forwarding", "app"}
    <3>1. <<>> \in Seq(H) /\ <<"profiler">> \in Seq(H) /\ <<"app">> \in Seq(H)
          OBVIOUS
    <3>2. /\ <<"forwarding">> \in Seq(H)
          /\ <<"forwarding", "profiler">> \in Seq(H)
          /\ <<"forwarding", "app">> \in Seq(H)
          OBVIOUS
    <3> QED BY <1>1, <3>1, <3>2 DEF Stacks
  <2> QED BY <1>0, <1>2, <2>1 DEF ChainInv, ChainTypeOK, SigTypeOK
<1>4. KnowsApp'
      BY <1>0 DEF ChainInv, KnowsApp
<1>5. OnItsWay'
  <2>1. CASE SignalArrives
        BY <1>0, <2>1 DEF ChainInv, SignalArrives, KnowsApp, OnItsWay
  <2>2. CASE CustomHandlerTakes \/ AppHandler
        BY <2>2 DEF CustomHandlerTakes, AppHandler, OnItsWay
  <2>3. CASE CallOrignalHandler
        BY <1>0, <2>3, StackShapes DEF ChainInv, CallOrignalHandler, Top,
              OnItsWay
  <2>4. CASE OrignalHandlerReturns
        BY <1>0, <2>4, StackShapes DEF ChainInv, OrignalHandlerReturns, Top,
              OnItsWay
  <2> QED BY <2>1, <2>2, <2>3, <2>4 DEF Thread
<1> QED BY <1>1, <1>3, <1>4, <1>5 DEF ChainInv

\* The chain of handlers is never deeper than one forwarding, and with a single
\* collector it leads to the application.
THEOREM ChainInvariance == ChainSpec => []ChainInv
<1>1. ChainInv /\ [ChainNext]_chainVars => ChainInv'
  <2> SUFFICES ASSUME ChainInv, [ChainNext]_chainVars PROVE ChainInv'
      OBVIOUS
  <2>1. CASE UNCHANGED chainVars
        BY <2>1 DEF chainVars, installVars, deliveryVars, sigVars,
              ChainInv, ChainTypeOK, SigTypeOK, KnowsApp, OnItsWay
  <2> QED BY <2>1, ChainInstalls, ChainThread DEF ChainNext
<1> QED BY <1>1, InitChainInv, PTL DEF ChainSpec

\* With a single collector, every signal that comes while the application has a
\* handler is taken by the profiler or reaches that handler, however often
\* handlers are installed and restored around it.
THEOREM AppGetsItsSignalsHolds == ChainSpec => []AppGetsItsSignals
<1>1. ChainInv => AppGetsItsSignals
      BY DEF ChainInv, OnItsWay, AppGetsItsSignals
<1> QED BY <1>1, ChainInvariance, PTL
=============================================================================
