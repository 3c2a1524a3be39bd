---------------------------- MODULE SyscallShield ----------------------------
(***************************************************************************)
(* System calls that the profiler's signals interrupt: the wrapper library *)
(* (Datadog.Linux.ApiWrapper) shares a flag with the profiler around every *)
(* wrapped call, the profiler's handler sets it, and the wrapper restarts  *)
(* a call that failed with EINTR while it is set.  Composes StackWalk with *)
(* the wrapper and SystemCallsShield, for threads that neither end nor     *)
(* walk their own stack.                                                   *)
(***************************************************************************)
EXTENDS StackWalk

VARIABLES
    inSyscall,    \* _sharedMemoryArea is set: the thread is in a wrapped call
    interrupted,  \* interrupted_by_profiler, the flag of that call
    eintr,        \* who made the call fail with EINTR
    leaked,       \* threads that got EINTR because of the profiler
    timedOut      \* a collection has timed out

shieldVars == <<inSyscall, interrupted, eintr, leaked, timedOut>>
allVars == <<vars, shieldVars>>

ShieldInit ==
    /\ Init
    /\ inSyscall = [t \in Threads |-> FALSE]
    /\ interrupted = [t \in Threads |-> FALSE]
    /\ eintr = [t \in Threads |-> "none"]
    /\ leaked = {}
    /\ timedOut = FALSE

(***************************************************************************)
(* The wrapper on thread t.                                                *)
(***************************************************************************)
EnterSyscall(t) ==
    /\ Runs(t)
    /\ ~inSyscall[t]
    /\ inSyscall' = [inSyscall EXCEPT ![t] = TRUE]
    /\ interrupted' = [interrupted EXCEPT ![t] = FALSE]
    /\ UNCHANGED <<vars, eintr, leaked, timedOut>>

IsInterruptedNever(t) == FALSE

\* is_interrupted_by_profiler(rc, errno, interrupted_by_profiler)
IsInterruptedByProfiler(t) == eintr[t] # "none" /\ interrupted[t]

WrapperRetries(t) ==
    /\ Runs(t)
    /\ inSyscall[t]
    /\ IsInterruptedByProfiler(t)
    /\ interrupted' = [interrupted EXCEPT ![t] = FALSE]
    /\ eintr' = [eintr EXCEPT ![t] = "none"]
    /\ UNCHANGED <<vars, inSyscall, leaked, timedOut>>

\* The call succeeded, or it failed and the profiler left no mark.
WrapperReturns(t) ==
    /\ Runs(t)
    /\ inSyscall[t]
    /\ ~IsInterruptedByProfiler(t)
    /\ inSyscall' = [inSyscall EXCEPT ![t] = FALSE]
    /\ interrupted' = [interrupted EXCEPT ![t] = FALSE]
    /\ eintr' = [eintr EXCEPT ![t] = "none"]
    /\ leaked' = IF eintr[t] = "profiler" THEN leaked \cup {t} ELSE leaked
    /\ UNCHANGED <<vars, timedOut>>

(***************************************************************************)
(* What the sampler and the handler do to a call in progress.              *)
(***************************************************************************)
CanBeInterrupted(t) == ~inSyscall[t]

PickThread(t) ==
    /\ CanBeInterrupted(t)
    /\ Pick(t)
    /\ UNCHANGED shieldVars

\* A call that the thread was in fails once the handler has returned.
Fails(t, source) ==
    eintr' = IF inSyscall[t] /\ eintr[t] = "none" /\ hpc'[t] = "none"
             THEN [eintr EXCEPT ![t] = source]
             ELSE eintr

HandlerStarts(t, source) ==
    /\ Deliver(t, source)
    /\ Fails(t, source)
    /\ UNCHANGED <<inSyscall, interrupted, leaked, timedOut>>

\* The application handled the signal as one of its own.
SignalSwallowed(t, source) ==
    /\ AppSwallows(t, source)
    /\ Fails(t, "process")
    /\ UNCHANGED <<inSyscall, interrupted, leaked, timedOut>>

\* The flag of the call that the collector's current thread is in, if any.
MarkAsInterrupted(t) ==
    interrupted' = [u \in Threads |->
        interrupted[u] \/ (instance /\ u = currentThreadInfo /\ inSyscall[u])]

HandlerLocks(t) ==
    /\ LockMutex(t)
    /\ MarkAsInterrupted(t)
    /\ Fails(t, hsource[t])
    /\ UNCHANGED <<inSyscall, leaked, timedOut>>

HandlerEnds(t) ==
    /\ WalkStack(t) \/ NotifyStackWalkCompleted(t)
    /\ Fails(t, hsource[t])
    /\ UNCHANGED <<inSyscall, interrupted, leaked, timedOut>>

Timeout ==
    /\ WakeTimeout
    /\ timedOut' = TRUE
    /\ UNCHANGED <<inSyscall, interrupted, eintr, leaked>>

OtherStep ==
    /\ \/ NewCollector \/ AppInstallsHandler
       \/ AllowStackWalk \/ HandlerNotInPlace \/ SendSignal \/ WakeNotified \/ Leave
    /\ UNCHANGED shieldVars

ShieldNext ==
    \/ Timeout
    \/ OtherStep
    \/ \E t \in Threads :
          \/ EnterSyscall(t) \/ WrapperRetries(t) \/ WrapperReturns(t)
          \/ PickThread(t)
          \/ \E source \in Sources : HandlerStarts(t, source) \/ SignalSwallowed(t, source)
          \/ HandlerLocks(t)
          \/ HandlerEnds(t)

ShieldSpec == ShieldInit /\ [][ShieldNext]_allVars

-----------------------------------------------------------------------------
(***************************************************************************)
(* Properties.                                                             *)
(***************************************************************************)
\* While every signal the profiler sends is handled before its collection
\* times out (SIGUSR1 of the application aside), no wrapped system call fails
\* because of the profiler, although the sampler looks at CanBeInterrupted long
\* before it sends the signal (socket_operations.c:13-14).
EintrOnlyAfterTimeout == leaked # {} => timedOut

-----------------------------------------------------------------------------
ShieldTypeOK ==
    /\ inSyscall \in [Threads -> BOOLEAN]
    /\ interrupted \in [Threads -> BOOLEAN]
    /\ eintr \in [Threads -> Sources]
    /\ leaked \subseteq Threads
    /\ timedOut \in BOOLEAN

\* The collection in progress waits for t, whose handler has not notified it.
Awaited(t) == spc = "waiting" /\ target = t /\ ~notified

\* Until a collection times out: a signal of the profiler, pending or handled,
\* is that of the collection in progress; a call that it made or will make fail
\* is marked; and no call has failed for the application.
ShieldInv ==
    /\ ShieldTypeOK
    /\ ~timedOut =>
          /\ leaked = {}
          /\ \A t \in Threads :
                /\ pending[t] => Awaited(t)
                /\ hpc[t] # "none" => Awaited(t) /\ ~pending[t] /\ hsource[t] = "profiler"
                /\ hpc[t] \in {"walking", "notifying"} /\ inSyscall[t] => interrupted[t]
                /\ eintr[t] = "profiler" => interrupted[t]
                /\ ~inSyscall[t] => eintr[t] = "none"
=============================================================================
