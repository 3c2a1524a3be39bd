----------------------------- MODULE HeapSnapshot -----------------------------
(***************************************************************************)
(* HeapSnapshotManager and SnapshotCooldown, composed with the garbage     *)
(* collections that GcEvents follows.  The end of a collection, on the     *)
(* thread that ran it, may schedule a snapshot; the manager's own thread   *)
(* opens an event pipe session, which makes the runtime collect and dump   *)
(* the heap, and closes it once that collection is over.  The two threads  *)
(* share flags and plain variables; the exporter takes what has been       *)
(* dumped whenever it exports.                                             *)
(*                                                                         *)
(* The histogram of classes is the set of batches of nodes it was made     *)
(* from.  The reference tree, built from the same events, is not modelled. *)
(***************************************************************************)
EXTENDS GcEvents

CONSTANTS
    Interval,            \* _heapDumpInterval
    DelayFirstSnapshot,  \* _delayFirstSnapshot
    MaxTime,             \* bound: the clock
    MaxSessions          \* bound: sessions opened

ASSUME SnapshotAssumption ==
    /\ Interval \in Nat \ {0} /\ MaxTime \in Nat /\ MaxSessions \in Nat
    /\ DelayFirstSnapshot \in BOOLEAN

VARIABLES
    now,             \* the clock; 0 is no time
    inProgress,      \* _isHeapDumpInProgress
    inducedGC,       \* _inducedGCNumber
    shouldStart,     \* _shouldStartHeapDump
    shouldCleanup,   \* _shouldCleanupHeapDumpSession
    lastTimestamp,   \* _lastTimestamp
    nextAllowed,     \* SnapshotCooldown::_nextAllowed
    session,         \* _session
    histogram,       \* _classHistogram
    loop,            \* where the manager's thread is
    callback,        \* where OnGarbageCollectionEnd is
    shutdown,        \* _shutdownRequested
    open,            \* the session that is open in the runtime, or 0
    opened,          \* sessions opened so far
    owed,            \* the collection that the session asks for is still to come
    dumpEnd,         \* when the last dump ended
    again,           \* a snapshot that was scheduled while one was being started
                     \* is "pending", and "current" once it is taken
    mistaken,        \* a collection of the application has passed for a dump's
    strayGC          \* ... while the start of that dump's session failed

flags == <<inProgress, inducedGC, shouldStart, shouldCleanup>>
times == <<lastTimestamp, nextAllowed>>
sessionVars == <<open, opened, owed>>
ghosts == <<dumpEnd, again, mistaken, strayGC>>
managerVars == <<now, flags, times, session, histogram, loop, callback, shutdown, sessionVars, ghosts>>
vars == <<gcVars, managerVars>>

Init ==
    /\ GcInit
    /\ now = 1
    /\ inProgress = FALSE /\ inducedGC = -1
    /\ shouldStart = FALSE /\ shouldCleanup = FALSE
    /\ lastTimestamp = 0 /\ nextAllowed = 0
    /\ session = 0
    /\ histogram = {}
    /\ loop = "sleep" /\ callback = "none"
    /\ shutdown = FALSE
    /\ open = 0 /\ opened = 0 /\ owed = FALSE
    /\ dumpEnd = 0 /\ again = {} /\ mistaken = FALSE /\ strayGC = FALSE

Tick ==
    /\ now < MaxTime
    /\ now' = now + 1
    /\ UNCHANGED <<gcVars, flags, times, session, histogram, loop, callback, shutdown, sessionVars, ghosts>>

(***************************************************************************)
(* The collections, and what the manager does when one starts or ends.     *)
(***************************************************************************)
Unrelated ==
    /\ Pause
    /\ UNCHANGED managerVars

\* The session makes the runtime collect, while it is being opened or later.
CollectForSession ==
    /\ owed
    /\ SuspendForDump
    /\ owed' = FALSE
    /\ UNCHANGED <<now, flags, times, session, histogram, loop, callback, shutdown, open, opened, ghosts>>

OnGarbageCollectionStart(c) ==
    IF /\ inProgress /\ inducedGC = -1
       /\ c.reason = "induced" /\ c.gen = 2 /\ c.type = "NonConcurrent"
    THEN inducedGC' = c.number /\ mistaken' = (mistaken \/ ~c.dump)
    ELSE UNCHANGED <<inducedGC, mistaken>>

Starts ==
    /\ GCStart
    /\ OnGarbageCollectionStart(IF fg' # fg THEN fg' ELSE bg')
    /\ UNCHANGED <<now, inProgress, shouldStart, shouldCleanup, times, session, histogram, loop,
                   callback, shutdown, sessionVars, dumpEnd, again, strayGC>>

\* The collection of an open session says what is in the heap.
OnBulkNodes(b) ==
    /\ open # 0
    /\ GCDumps(b)
    /\ histogram' = histogram \cup {<<fg.number, b>>}
    /\ UNCHANGED <<now, flags, times, session, loop, callback, shutdown, sessionVars, ghosts>>

GoesOn ==
    /\ \/ RestartEE /\ (ee = "fg" /\ fg.dump /\ open # 0 => Batches \subseteq fg.sent)
       \/ \E fact \in Facts : GCReports(fact)
    /\ callback' = IF ended' # NoEnd THEN "end" ELSE "none"
    /\ UNCHANGED <<now, flags, times, session, histogram, loop, shutdown, sessionVars, ghosts>>

CallbackReturns == callback' = "none" /\ ended' = NoEnd

OnGarbageCollectionEndUntimed ==
    /\ callback = "end"
    /\ IF inProgress
       THEN IF ended.number = inducedGC
            THEN /\ inducedGC' = -1
                 /\ inProgress' = FALSE
                 /\ dumpEnd' = now
                 /\ callback' = "over"
                 /\ UNCHANGED ended
            ELSE CallbackReturns /\ UNCHANGED <<inducedGC, inProgress, dumpEnd>>
       ELSE callback' = "check" /\ UNCHANGED <<inducedGC, inProgress, dumpEnd, ended>>
    /\ UNCHANGED <<runtimeVars, gcInProgress, currentBGC, suspensionStart, now, shouldStart,
                   shouldCleanup, times, session, histogram, loop, shutdown, sessionVars,
                   again, mistaken, strayGC>>

OnGarbageCollectionEnd ==
    /\ callback = "end"
    /\ IF inProgress
       THEN IF ended.number = inducedGC
            THEN /\ inducedGC' = -1
                 /\ inProgress' = FALSE
                 /\ lastTimestamp' = now
                 /\ dumpEnd' = now
                 /\ callback' = "over"
                 /\ UNCHANGED ended
            ELSE CallbackReturns /\ UNCHANGED <<inducedGC, inProgress, lastTimestamp, dumpEnd>>
       ELSE callback' = "check" /\ UNCHANGED <<inducedGC, inProgress, lastTimestamp, dumpEnd, ended>>
    /\ UNCHANGED <<runtimeVars, gcInProgress, currentBGC, suspensionStart, now, shouldStart,
                   shouldCleanup, nextAllowed, session, histogram, loop, shutdown, sessionVars,
                   again, mistaken, strayGC>>

OnEndGCDumpOfKnownSession ==
    /\ callback = "over"
    /\ nextAllowed' = lastTimestamp + Interval
    /\ shouldCleanup' = (session # 0)
    /\ CallbackReturns
    /\ UNCHANGED <<runtimeVars, gcInProgress, currentBGC, suspensionStart, now, inProgress,
                   inducedGC, shouldStart, lastTimestamp, session, histogram, loop, shutdown,
                   sessionVars, ghosts>>

\* its end, with SnapshotCooldown::OnDumpEnd
OnEndGCDump ==
    /\ callback = "over"
    /\ nextAllowed' = lastTimestamp + Interval
    /\ shouldCleanup' = TRUE
    /\ CallbackReturns
    /\ UNCHANGED <<runtimeVars, gcInProgress, currentBGC, suspensionStart, now, inProgress,
                   inducedGC, shouldStart, lastTimestamp, session, histogram, loop, shutdown,
                   sessionVars, ghosts>>

\* From the reset of _shouldStartHeapDump to the return of EventPipeStartSession
Opening == {"start", "begin", "call", "return"}

IsAllowed(t) == nextAllowed = 0 \/ t >= nextAllowed

\* StartAsyncSnapshotIfNeeded looks at what is going on ...
StartAsyncSnapshotIfNeeded ==
    /\ callback = "check"
    /\ IF session # 0 \/ shouldStart \/ shouldCleanup
       THEN CallbackReturns
       ELSE callback' = "schedule" /\ UNCHANGED ended
    /\ UNCHANGED <<runtimeVars, gcInProgress, currentBGC, suspensionStart, now, flags, times,
                   session, histogram, loop, shutdown, sessionVars, ghosts>>

\* ... and then at the time; the memory pressure may be too low.
Schedule ==
    /\ callback = "schedule"
    /\ \/ UNCHANGED <<lastTimestamp, shouldStart>>
       \/ /\ IsAllowed(now)
          /\ IF lastTimestamp = 0
             THEN lastTimestamp' = now /\ shouldStart' = (shouldStart \/ ~DelayFirstSnapshot)
             ELSE /\ UNCHANGED lastTimestamp
                  /\ shouldStart' = (shouldStart \/ now - lastTimestamp >= Interval)
    /\ again' = IF shouldStart' /\ (inProgress \/ loop \in Opening)
                THEN again \cup {"pending"} ELSE again
    /\ CallbackReturns
    /\ UNCHANGED <<runtimeVars, gcInProgress, currentBGC, suspensionStart, now, inProgress,
                   inducedGC, shouldCleanup, nextAllowed, session, histogram, loop, shutdown,
                   sessionVars, dumpEnd, mistaken, strayGC>>

(***************************************************************************)
(* The manager's thread: MainLoopIteration.                                *)
(***************************************************************************)
\* the end of an iteration; the loop sleeps, or ends
Iterated == loop' = IF shutdown THEN "ended" ELSE "sleep"

NothingToDo ==
    /\ loop = "sleep" /\ ~shouldCleanup /\ ~shouldStart
    /\ shutdown
    /\ Iterated
    /\ UNCHANGED <<gcVars, now, flags, times, session, histogram, callback, shutdown, sessionVars, ghosts>>

Cleanup ==
    /\ loop = "sleep" /\ shouldCleanup
    /\ shouldCleanup' = FALSE
    /\ loop' = "stop"
    /\ UNCHANGED <<gcVars, now, inProgress, inducedGC, shouldStart, times, session, histogram,
                   callback, shutdown, sessionVars, ghosts>>

\* CleanupSession: EventPipeStopSession
StopSession ==
    /\ loop = "stop"
    /\ IF session # 0
       THEN open' = 0 /\ owed' = FALSE /\ loop' = "forget"
       ELSE loop' = "cooldown" /\ UNCHANGED <<open, owed>>
    /\ UNCHANGED <<gcVars, now, flags, times, session, histogram, callback, shutdown, opened, ghosts>>

ForgetSession ==
    /\ loop = "forget"
    /\ session' = 0
    /\ loop' = "cooldown"
    /\ UNCHANGED <<gcVars, now, flags, times, histogram, callback, shutdown, sessionVars, ghosts>>

\* SnapshotCooldown::OnCleanupDone, and the session that resets the keywords
OnCleanupDone ==
    /\ loop = "cooldown"
    /\ nextAllowed' = IF nextAllowed >= now + Interval THEN nextAllowed ELSE now + Interval
    /\ Iterated
    /\ UNCHANGED <<gcVars, now, flags, lastTimestamp, session, histogram, callback, shutdown,
                   sessionVars, ghosts>>

StartFlagged ==
    /\ loop = "sleep" /\ ~shouldCleanup /\ shouldStart
    /\ shouldStart' = FALSE
    /\ loop' = "start"
    /\ again' = IF "pending" \in again THEN {"current"} ELSE {}
    /\ UNCHANGED <<gcVars, now, inProgress, inducedGC, shouldCleanup, times, session, histogram,
                   callback, shutdown, sessionVars, dumpEnd, mistaken, strayGC>>

StartGCDumpKeepsHistogram ==
    /\ loop = "start"
    /\ IF session # 0 THEN Iterated ELSE loop' = "begin"
    /\ UNCHANGED <<gcVars, now, flags, times, session, histogram, callback, shutdown, sessionVars,
                   ghosts>>

\* StartGCDump: reset the histogram ...
StartGCDump ==
    /\ loop = "start"
    /\ IF session # 0
       THEN Iterated /\ UNCHANGED histogram
       ELSE loop' = "begin" /\ histogram' = {}
    /\ UNCHANGED <<gcVars, now, flags, times, session, callback, shutdown, sessionVars, ghosts>>

\* ... say so before the session is there ...
DumpBegins ==
    /\ loop = "begin"
    /\ inProgress' = TRUE
    /\ loop' = "call"
    /\ UNCHANGED <<gcVars, now, inducedGC, shouldStart, shouldCleanup, times, session, histogram,
                   callback, shutdown, sessionVars, ghosts>>

\* ... and call EventPipeStartSession, which may fail
SessionOpens ==
    /\ loop = "call"
    /\ opened < MaxSessions
    /\ opened' = opened + 1
    /\ open' = opened + 1
    /\ owed' = TRUE
    /\ loop' = "return"
    /\ UNCHANGED <<gcVars, now, flags, times, session, histogram, callback, shutdown, ghosts>>

SessionFails ==
    /\ loop = "call"
    /\ session' = 0
    /\ inProgress' = FALSE
    /\ strayGC' = (strayGC \/ inducedGC # -1)
    /\ Iterated
    /\ UNCHANGED <<gcVars, now, inducedGC, shouldStart, shouldCleanup, times, histogram, callback,
                   shutdown, sessionVars, dumpEnd, again, mistaken>>

SessionReturns ==
    /\ loop = "return"
    /\ session' = open
    /\ Iterated
    /\ UNCHANGED <<gcVars, now, flags, times, histogram, callback, shutdown, sessionVars, ghosts>>

(***************************************************************************)
(* StopImpl waits for the manager's thread and leaves the rest as it is;   *)
(* GetAndClearHeapSnapshotText is called by every export.                  *)
(***************************************************************************)
StopImpl ==
    /\ ~shutdown
    /\ shutdown' = TRUE
    /\ UNCHANGED <<gcVars, now, flags, times, session, histogram, loop, callback, sessionVars, ghosts>>

GetAndClearHeapSnapshotText ==
    /\ histogram # {}
    /\ histogram' = {}
    /\ UNCHANGED <<gcVars, now, flags, times, session, loop, callback, shutdown, sessionVars, ghosts>>

Loop ==
    \/ NothingToDo \/ Cleanup \/ StopSession \/ ForgetSession \/ OnCleanupDone
    \/ StartFlagged \/ StartGCDump \/ DumpBegins \/ SessionOpens \/ SessionFails \/ SessionReturns

Collect == CollectForSession \/ Starts \/ GoesOn \/ \E b \in Batches : OnBulkNodes(b)

Callback == OnGarbageCollectionEnd \/ OnEndGCDump \/ StartAsyncSnapshotIfNeeded \/ Schedule

Next ==
    \/ Tick \/ Unrelated \/ Collect \/ Callback \/ Loop
    \/ StopImpl \/ GetAndClearHeapSnapshotText

\* The threads run: a collection that has been asked for or has begun goes on,
\* a callback returns, and the manager's thread wakes up again and again.
Fairness == WF_vars(Collect) /\ WF_vars(Callback) /\ WF_vars(Loop)

Spec == Init /\ [][Next]_vars /\ Fairness

-----------------------------------------------------------------------------
\* What is exported comes from one dump: what two collections found in the heap
\* is never mixed, however exports, the ends of collections and the next start
\* meet.  Excepted is what follows a GC.Collect of the application that was taken
\* for the dump's collection: the session may then be closed before its own.
SnapshotIsOfOneDump ==
    ~mistaken => \A x, y \in histogram : x[1] = y[1]

\* A snapshot begins no sooner than the interval after the last dump ended
\* (SnapshotCooldown), whichever of the two threads is in the middle of what;
\* except one that a collection ended in between has scheduled while
\* another was being started: neither a flag nor _session shows that one.
SnapshotsAreSpaced ==
    [][loop = "start" /\ loop' = "begin" =>
           "current" \in again \/ dumpEnd = 0 \/ now >= dumpEnd + Interval]_vars

\* A session is not left open, with its verbose events, while the service runs:
\* also when the collection ends before _session is known, when it is not the one
\* the session asked for, and when the next snapshot is already due.  Excepted is
\* what follows a failed start during which a collection was taken for the
\* dump's: its number stays, and no later dump ends.
DumpSessionCloses ==
    open # 0 ~> open = 0 \/ shutdown \/ strayGC

-----------------------------------------------------------------------------
(***************************************************************************)
(* The inductive invariants.                                               *)
(***************************************************************************)
LoopPlaces == Opening \cup {"sleep", "ended", "stop", "forget", "cooldown"}

\* _session follows the session that is open, except around the two calls.
SessionInv ==
    /\ loop \in LoopPlaces /\ session \in Nat /\ open \in Nat /\ opened \in Nat
    /\ open # 0 <=> loop = "return" \/ (session # 0 /\ loop # "forget")
    /\ loop \in {"begin", "call", "return", "cooldown"} => session = 0
    /\ loop = "forget" => session # 0

\* The callback runs with the EE running, for a collection that has a number.
CallbackInv ==
    /\ callback \in {"none", "end", "over", "check", "schedule"}
    /\ callback = "none" <=> ended = NoEnd
    /\ callback # "none" => ee = "running" /\ ended.number \in Nat \ {0}
    /\ fg.dump /\ fg.number # 0 => fg.seen
    /\ fg.dump => fg.reason = "induced" /\ fg.gen = 2 /\ fg.type = "NonConcurrent"

\* A session that has to be closed, on its way from the callback to the loop
ToClose ==
    /\ callback = "over" => ~shouldCleanup /\ loop # "stop"
    /\ shouldCleanup => loop # "stop"
Closing == callback = "over" \/ shouldCleanup \/ loop = "stop"

\* The collection of the session that is open: to come, under way, over for the
\* runtime, over for the manager.
DumpAwaited == owed /\ ~fg.dump /\ inProgress /\ inducedGC = -1 /\ histogram = {} /\ ~Closing
DumpRuns ==
    /\ ~owed /\ fg.dump /\ inProgress /\ ~Closing
    /\ inducedGC = IF fg.number = 0 THEN -1 ELSE fg.number
    /\ \A x \in histogram : fg.number # 0 /\ x[1] = fg.number
DumpEnds == ~owed /\ ~fg.dump /\ inProgress /\ ~Closing /\ callback = "end" /\ ended.number = inducedGC
DumpOver == ~owed /\ ~fg.dump /\ ~inProgress /\ inducedGC = -1 /\ ToClose

DumpInv ==
    /\ open = 0 => ~owed /\ ~fg.dump /\ inducedGC = -1 /\ ~Closing
    /\ loop \in {"begin", "call"} => histogram = {}
    /\ loop = "call" => inProgress
    /\ open # 0 => DumpAwaited \/ DumpRuns \/ DumpEnds \/ DumpOver
    /\ \A x, y \in histogram : x[1] = y[1]

\* The inductive invariant of SnapshotIsOfOneDump
SnapshotInv == GcInv /\ SessionInv /\ CallbackInv /\ (~mistaken => DumpInv)

\* The last dump was long enough ago.
Spaced == dumpEnd = 0 \/ now >= dumpEnd + Interval

\* The inductive invariant of SnapshotsAreSpaced
SpacingInv ==
    /\ now \in Nat \ {0} /\ dumpEnd \in Nat /\ lastTimestamp \in Nat
    /\ dumpEnd # 0 => lastTimestamp = dumpEnd
    /\ shouldStart => "pending" \in again \/ (~inProgress /\ loop \notin Opening /\ Spaced)
    /\ loop = "start" => "current" \in again \/ (~inProgress /\ Spaced)
=============================================================================
