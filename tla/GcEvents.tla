------------------------------- MODULE GcEvents -------------------------------
(***************************************************************************)
(* ClrEventsParser, the part that follows garbage collections: which       *)
(* collection each event of the runtime belongs to, and when a collection  *)
(* is over.  The events carry no number, except GCStart; a background      *)
(* collection lasts while others come and go.                              *)
(*                                                                         *)
(* The runtime is external: it suspends the execution engine (EE), starts  *)
(* a collection, says what it did (HeapStats and GlobalHeapHistory, in     *)
(* either order) and restarts the EE.  A background collection says what   *)
(* it did at its end, with the EE running, and the collections that start  *)
(* during it have finished before.  Events are delivered one at a time.    *)
(***************************************************************************)
EXTENDS Integers

CONSTANTS
    Batches,      \* GCBulkNode events of a collection that dumps the heap
    MaxPauses     \* bound: suspensions of the EE that nobody asked for

Facts == {"stats", "history"}

ASSUME EventsAssumption ==
    /\ Batches \cap Facts = {}
    /\ MaxPauses \in Nat

VARIABLES
    ee,               \* who has suspended the execution engine, or "running"
    fg,               \* the collection that runs while the EE is suspended
    bg,               \* the background collection
    count,            \* collections so far
    pauses,           \* suspensions so far, for the bound
    gcInProgress,     \* _gcInProgress
    currentBGC,       \* _currentBGC
    suspensionStart,  \* _suspensionStart is set
    ended             \* the collection that listeners are told has ended

runtimeVars == <<ee, fg, bg, count, pauses>>
parserVars == <<gcInProgress, currentBGC, suspensionStart, ended>>
gcVars == <<runtimeVars, parserVars>>

\* A collection of the runtime.  Number 0: not started.  A collection is "seen"
\* when its GCStart was delivered, "begun" when SuspendEEBegin was.
Collection(gen, reason, type, dump, begun) ==
    [number |-> 0, gen |-> gen, reason |-> reason, type |-> type, dump |-> dump,
     begun |-> begun, seen |-> FALSE, sent |-> {}]

NoCollection == Collection(0, "none", "none", FALSE, FALSE)

\* What a listener is told, and nothing.
NoEnd == [number |-> 0, pauses |-> 0, sizesOf |-> 0, pressureOf |-> 0]

ResetGC ==
    [Number |-> -1, Generation |-> 0, Type |-> "none", Pauses |-> 0,
     HasHistory |-> FALSE, HasStats |-> FALSE, sizesOf |-> 0, pressureOf |-> 0]

InitializeGC(c) ==
    [ResetGC EXCEPT !.Number = c.number, !.Generation = c.gen, !.Type = c.type]

\* The events may start to come in the middle of a collection.
GcInit ==
    /\ \/ ee = "running" /\ fg = NoCollection /\ bg = NoCollection /\ count = 0
       \/ /\ ee = "fg" /\ bg = NoCollection /\ count = 1
          /\ fg = [Collection(1, "alloc", "NonConcurrent", FALSE, FALSE) EXCEPT !.number = 1]
       \/ /\ ee = "running" /\ fg = NoCollection /\ count = 1
          /\ bg = [Collection(2, "alloc", "Background", FALSE, FALSE) EXCEPT !.number = 1]
    /\ pauses = 0
    /\ gcInProgress = ResetGC
    /\ currentBGC = ResetGC
    /\ suspensionStart = FALSE
    /\ ended = NoEnd

(***************************************************************************)
(* The parser.                                                             *)
(***************************************************************************)
CurrentBGCFirst == IF currentBGC.Number # -1 THEN currentBGC ELSE gcInProgress

GetCurrentGC == IF gcInProgress.Number # -1 THEN gcInProgress ELSE currentBGC

\* gc, a reference to one of the two, is given the value d
SetCurrentGC(d) ==
    IF gcInProgress.Number # -1
    THEN gcInProgress' = d /\ UNCHANGED currentBGC
    ELSE currentBGC' = d /\ UNCHANGED gcInProgress

\* NotifyGarbageCollectionEnd and ResetGC
Ends(d) ==
    /\ ended' = [number |-> d.Number, pauses |-> d.Pauses,
                 sizesOf |-> d.sizesOf, pressureOf |-> d.pressureOf]
    /\ SetCurrentGC(ResetGC)

Continues(d) == SetCurrentGC(d) /\ UNCHANGED ended

IsBackground(d) == d.Generation = 2 /\ d.Type = "Background"

OnGCStart(c) ==
    /\ IF c.gen = 2 /\ c.type = "Background"
       THEN currentBGC' = InitializeGC(c) /\ UNCHANGED gcInProgress
       ELSE gcInProgress' = InitializeGC(c) /\ UNCHANGED currentBGC
    /\ UNCHANGED <<suspensionStart, ended>>

OnGCSuspendEEBegin ==
    /\ suspensionStart' = TRUE
    /\ UNCHANGED <<gcInProgress, currentBGC, ended>>

OnGCRestartEEEnd ==
    LET gc == GetCurrentGC
        d == [gc EXCEPT !.Pauses = @ + IF suspensionStart THEN 1 ELSE 0]
    IN  /\ suspensionStart' = FALSE
        /\ IF gc.Number = -1 THEN UNCHANGED <<gcInProgress, currentBGC, ended>>
           ELSE IF d.Generation < 2 \/ d.Type = "NonConcurrent" THEN Ends(d)
           ELSE Continues(d)

OnGCHeapStats(n) ==
    LET gc == GetCurrentGC
        d == [gc EXCEPT !.HasStats = TRUE, !.sizesOf = IF gc.Number = -1 THEN @ ELSE n]
    IN  /\ UNCHANGED suspensionStart
        /\ IF d.Number # -1 /\ d.HasHistory /\ IsBackground(d) THEN Ends(d) ELSE Continues(d)

OnGCGlobalHeapHistory(n) ==
    LET gc == GetCurrentGC
        d == [gc EXCEPT !.HasHistory = TRUE, !.pressureOf = n]
    IN  /\ UNCHANGED suspensionStart
        /\ IF gc.Number = -1 THEN UNCHANGED <<gcInProgress, currentBGC, ended>>
           ELSE IF d.HasStats /\ IsBackground(d) THEN Ends(d)
           ELSE Continues(d)

(***************************************************************************)
(* The runtime.                                                            *)
(***************************************************************************)
Quiet == ended = NoEnd

\* SuspendEEBegin is delivered, or missed.
Suspend(who, begun) ==
    /\ Quiet
    /\ ee = "running"
    /\ ee' = who
    /\ IF begun THEN OnGCSuspendEEBegin ELSE UNCHANGED parserVars

\* Something needs a collection now.  Gen 2 waits for a background collection.
SuspendForGC(gen, reason, dump) ==
    \E begun \in BOOLEAN :
        /\ gen = 2 => bg = NoCollection
        /\ Suspend("fg", begun)
        /\ fg' = Collection(gen, reason, IF bg = NoCollection THEN "NonConcurrent" ELSE "Foreground",
                            dump, begun)
        /\ UNCHANGED <<bg, count>>

\* The application allocates, or calls GC.Collect; or the EE is suspended for a
\* background collection, at its start or later, or for a reason of its own.
Pause ==
    /\ pauses < MaxPauses
    /\ pauses' = pauses + 1
    /\ \/ SuspendForGC(1, "alloc", FALSE)
       \/ SuspendForGC(2, "induced", FALSE)
       \/ \E begun \in BOOLEAN :
             /\ Suspend("bg", begun)
             /\ bg' = IF bg = NoCollection THEN Collection(2, "alloc", "Background", FALSE, begun) ELSE bg
             /\ UNCHANGED <<fg, count>>
       \/ \E begun \in BOOLEAN : Suspend("other", begun) /\ UNCHANGED <<fg, bg, count>>

Starting(c) == [c EXCEPT !.number = count + 1, !.seen = TRUE]

GCStart ==
    /\ Quiet
    /\ count' = count + 1
    /\ \/ ee = "fg" /\ fg.number = 0 /\ fg' = Starting(fg) /\ OnGCStart(fg') /\ UNCHANGED bg
       \/ ee = "bg" /\ bg.number = 0 /\ bg' = Starting(bg) /\ OnGCStart(bg') /\ UNCHANGED fg
    /\ UNCHANGED <<ee, pauses>>

Report(c, fact) ==
    IF fact = "stats" THEN OnGCHeapStats(c.number) ELSE OnGCGlobalHeapHistory(c.number)

\* A collection says what it did: a background collection with the EE running,
\* and then it is over.
GCReports(fact) ==
    /\ Quiet
    /\ \/ /\ ee = "fg" /\ fg.number # 0 /\ fact \notin fg.sent
          /\ Report(fg, fact)
          /\ fg' = [fg EXCEPT !.sent = @ \cup {fact}]
          /\ UNCHANGED bg
       \/ /\ ee = "running" /\ bg.number # 0 /\ fact \notin bg.sent
          /\ Report(bg, fact)
          /\ bg' = IF bg.sent \cup {fact} = Facts THEN NoCollection
                   ELSE [bg EXCEPT !.sent = @ \cup {fact}]
          /\ UNCHANGED fg
    /\ UNCHANGED <<ee, count, pauses>>

RestartEE ==
    /\ Quiet
    /\ ee # "running"
    /\ ee = "fg" => Facts \subseteq fg.sent
    /\ ee = "bg" => bg.number # 0
    /\ OnGCRestartEEEnd
    /\ ee' = "running"
    /\ fg' = NoCollection
    /\ UNCHANGED <<bg, count, pauses>>

\* A collection that dumps the heap also sends what is in it.
GCDumps(b) ==
    /\ Quiet
    /\ ee = "fg" /\ fg.number # 0 /\ fg.dump
    /\ b \notin fg.sent
    /\ fg' = [fg EXCEPT !.sent = @ \cup {b}]
    /\ UNCHANGED <<ee, bg, count, pauses, parserVars>>

\* Somebody makes the runtime dump the heap.
SuspendForDump ==
    /\ SuspendForGC(2, "induced", TRUE)
    /\ UNCHANGED pauses

\* NotifyGarbageCollectionEnd returns.
ListenersReturn ==
    /\ ended' = NoEnd
    /\ UNCHANGED <<runtimeVars, gcInProgress, currentBGC, suspensionStart>>

GcNext ==
    \/ Pause \/ SuspendForDump \/ GCStart \/ RestartEE
    \/ \E fact \in Facts : GCReports(fact)
    \/ \E b \in Batches : GCDumps(b)
    \/ ListenersReturn

-----------------------------------------------------------------------------
\* The collection that is over in this step, if its GCStart was delivered.
Over ==
    {c \in {fg, bg} : c.seen /\ \A d \in {fg', bg'} : d.number # c.number}

\* The two details of the parser follow the two collections of the runtime, as
\* far as their GCStart was delivered.
Follows(d, c) ==
    IF c.seen
    THEN /\ d.Number = c.number /\ d.Generation = c.gen /\ d.Type = c.type
         /\ (d.HasStats <=> "stats" \in c.sent) /\ (d.HasStats => d.sizesOf = c.number)
         /\ (d.HasHistory <=> "history" \in c.sent) /\ (d.HasHistory => d.pressureOf = c.number)
    ELSE d.Number = -1

Collections ==
    [number : Nat, gen : 0..2, reason : {"none", "alloc", "induced"},
     type : {"none", "NonConcurrent", "Foreground", "Background"}, dump : BOOLEAN,
     begun : BOOLEAN, seen : BOOLEAN, sent : SUBSET (Facts \cup Batches)]

Details ==
    [Number : Int, Generation : 0..2,
     Type : {"none", "NonConcurrent", "Foreground", "Background"}, Pauses : Nat,
     HasHistory : BOOLEAN, HasStats : BOOLEAN, sizesOf : Nat, pressureOf : Nat]

GcTypeOK ==
    /\ ee \in {"running", "fg", "bg", "other"}
    /\ fg \in Collections /\ bg \in Collections
    /\ count \in Nat
    /\ gcInProgress \in Details /\ currentBGC \in Details
    /\ suspensionStart \in BOOLEAN

Numbered ==
    /\ fg.number <= count /\ bg.number <= count
    /\ fg.number # 0 => fg.number # bg.number
    /\ fg.number = 0 => ~fg.seen /\ fg.sent = {}
    /\ bg.number = 0 => ~bg.seen /\ bg.sent = {}

\* A collection that was under way when the events began came alone.
Blocking ==
    /\ ee = "running" => ~suspensionStart
    /\ ee # "fg" => fg = NoCollection
    /\ ee = "fg" => /\ fg.type = "NonConcurrent" \/ (fg.type = "Foreground" /\ fg.gen < 2)
                    /\ suspensionStart = fg.begun
                    /\ fg.number # 0 /\ ~fg.seen => ~bg.seen
    /\ fg.seen => gcInProgress.Pauses = 0

Background ==
    /\ (bg = NoCollection /\ ee # "bg") \/ (bg.gen = 2 /\ bg.type = "Background")
    /\ bg.sent \subseteq Facts
    /\ bg.seen => bg.sent # Facts

\* The inductive invariant: the parser follows the runtime.
GcInv ==
    /\ GcTypeOK
    /\ Follows(gcInProgress, fg) /\ Follows(currentBGC, bg)
    /\ Numbered /\ Blocking /\ Background

ExactStep ==
    /\ \A c \in Over :
          /\ ended'.number = c.number
          /\ ended'.sizesOf = c.number /\ ended'.pressureOf = c.number
          /\ c.type # "Background" => ended'.pauses = IF c.begun THEN 1 ELSE 0
    /\ ended' \notin {ended, NoEnd} => \E c \in Over : c.number = ended'.number

\* Listeners hear of the end of a collection exactly when it is over, once, and
\* are given its own sizes and memory pressure, and its own pause if it was a
\* blocking one, although events carry no number and blocking collections come
\* and go during a background one (GetCurrentGC).
EndsAreExact == [][ExactStep]_gcVars
=============================================================================
