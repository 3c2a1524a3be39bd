--------------------------- MODULE ManagedCodeCache ---------------------------
(***************************************************************************)
(* ManagedCodeCache: which addresses hold managed code, and of which       *)
(* function.  Threads of the application extend it in the callbacks of the *)
(* JIT compiler and of the loader, with the profiler's signals blocked;    *)
(* the signal handlers that unwind a stack ask IsManaged, with a deadline  *)
(* on each lock; a thread of the profiler that names the frames            *)
(* ("resolver") asks GetFunctionInfo, which may itself extend the cache.   *)
(* Map, pages and modules each have a ReaderWriterSpinningMutex, taken     *)
(* step by step as in the module of that name.                             *)
(***************************************************************************)
EXTENDS ReaderWriterSpinningMutex, Sequences, Functions

CONSTANTS
    Threads,       \* application threads that compile and load
    Sampled,       \* application threads that get the profiler's signals
    PageSize,      \* addresses of a page
    Code,          \* what the JIT compiler may produce: a function and its ranges
    Module,        \* the range of a precompiled module
    Precompiled,   \* the function in that module
    Frames,        \* addresses that signal handlers ask for
    Unnamed,       \* addresses that the resolver asks for
    MaxCalls       \* bound: callbacks of the JIT compiler and of the loader

CodeOf(t) == <<t, "code">>
HandlerOf(t) == <<t, "signal">>
Resolver == <<"resolver", "code">>

PageOf(a) == a \div PageSize
AddressesOf(range) == range[1]..range[2]
PagesOf(range) == PageOf(range[1])..PageOf(range[2])
AllOf(ranges) == UNION {AddressesOf(r) : r \in Range(ranges)}
AllRanges == {Module} \cup UNION {Range(c.ranges) : c \in Code}
AllAddresses == UNION {AddressesOf(r) : r \in AllRanges}
Pages == UNION {PagesOf(r) : r \in AllRanges}

Map == <<"pagesMutex">>
ModuleList == <<"modulesMutex">>
Page(n) == <<"page", n>>

ASSUME CacheAssumption ==
    /\ Procs = {CodeOf(t) : t \in Threads} \cup {HandlerOf(t) : t \in Sampled} \cup {Resolver}
    /\ Mutexes = {Map, ModuleList} \cup {Page(n) : n \in Pages}
    /\ "resolver" \notin Threads \cup Sampled
    /\ PageSize \in Nat \ {0} /\ MaxCalls \in Nat
    /\ \A c \in Code : c.ranges \in Seq(Nat \X Nat)
    /\ Module \in Nat \X Nat
    /\ \A r \in AllRanges : r[1] <= r[2]
    /\ Frames \cup Unnamed \subseteq AllAddresses

VARIABLES
    created,       \* the pages in _pagesMap
    ranges,        \* PageEntry::ranges of each page
    modules,       \* _modulesCodeRanges
    pc,            \* where each process is
    todo,          \* the ranges it has still to add
    page,          \* the page of the first of them that is next
    adding,        \* the compiled function they are of
    ip,            \* the address it asks for
    answer,        \* the answer to that
    blocked,       \* threads that have the profiler's signals blocked
    loaded,        \* the runtime has the module in memory
    truth,         \* the function registered for an address and still there
    expect,        \* truth when a lookup began, if it has not changed since
    crashed,       \* GetFunctionFromIP has met an unloaded module
    calls

dataVars == <<created, ranges, modules>>
localVars == <<pc, todo, page, adding, ip, answer>>
ghostVars == <<truth, expect>>
vars == <<mutexVars, dataVars, localVars, blocked, loaded, ghostVars, crashed, calls>>

NoCode == [func |-> "none", ranges |-> <<>>]
Lookups == {HandlerOf(t) : t \in Sampled} \cup {Resolver}

Init ==
    /\ MutexInit
    /\ created = {}
    /\ ranges = [n \in Pages |-> <<>>]
    /\ modules = <<>>
    /\ pc = [p \in Procs |-> "idle"]
    /\ todo = [p \in Procs |-> <<>>]
    /\ page = [p \in Procs |-> 0]
    /\ adding = [p \in Procs |-> NoCode]
    /\ ip = [p \in Lookups |-> 0]
    /\ answer = [p \in Lookups |-> "none"]
    /\ blocked = {}
    /\ loaded = FALSE
    /\ truth = [a \in AllAddresses |-> "none"]
    /\ expect = [p \in Lookups |-> "none"]
    /\ crashed = FALSE
    /\ calls = 0

(***************************************************************************)
(* The ranges of a page, sorted by their start.                            *)
(***************************************************************************)
\* the number of ranges that start at or before a
Before(s, a) == Cardinality({i \in DOMAIN s : s[i].start <= a})

\* the sequence s with r behind its first i elements
Insert(s, i, r) == SubSeq(s, 1, i) \o <<r>> \o SubSeq(s, i + 1, Len(s))

\* FindRange: the last range that starts at or before a, if it contains a
FindRange(s, a) ==
    LET i == Before(s, a)
    IN  IF i > 0 /\ a <= s[i].end THEN {s[i]} ELSE {}

\* InsertCodeRangeIntoPage: behind the ranges with the same start, unless the
\* newest of them is the same
InsertCodeRange(s, r) ==
    LET i == Before(s, r.start)
    IN  IF i > 0 /\ s[i] = r THEN s ELSE Insert(s, i, r)

\* AddFunctionRangesToCache: each range goes to every page it touches, from the
\* first on
FirstPage(rs) == IF rs = <<>> THEN 0 ELSE PageOf(Head(rs)[1])

(***************************************************************************)
(* A thread does not move while a signal handler runs on top of it.        *)
(***************************************************************************)
Interrupted(p) == \E t \in Sampled : p = CodeOf(t) /\ pc[HandlerOf(t)] # "idle"

At(p, place) == ~crashed /\ ~Interrupted(p) /\ pc[p] = place
Got(p, place) == At(p, place) /\ at[p] = "owned"
To(p, place) == pc' = [pc EXCEPT ![p] = place]

\* A step inside a call on a mutex
Locking(p) ==
    /\ ~crashed /\ ~Interrupted(p)
    /\ MutexStep(p)
    /\ UNCHANGED <<dataVars, localVars, blocked, loaded, ghostVars, crashed, calls>>

\* The deadline on a lock is the handler's; the others wait.
Shared(p, m) == IF p = Resolver \/ p \in {CodeOf(t) : t \in Threads}
                THEN LockShared(p, m) ELSE TryLockSharedFor(p, m)

\* What is registered from now on; a lookup on the way need not notice.
Registers(new) ==
    /\ truth' = new
    /\ expect' = [p \in Lookups |->
           IF expect[p] # "none" /\ new[ip[p]] # truth[ip[p]] THEN "none" ELSE expect[p]]

(***************************************************************************)
(* The JIT compiler has produced c: JITCompilationFinished, AddFunction.   *)
(* Its memory is nobody else's; where it held code before, that code is    *)
(* gone.  GetCodeRanges may come back with nothing.                        *)
(***************************************************************************)
\* AddFunctionRangesToCache begins: signals are blocked for the whole of it.
AddFunctionRanges(p, c) ==
    /\ adding' = [adding EXCEPT ![p] = c]
    /\ todo' = [todo EXCEPT ![p] = c.ranges]
    /\ page' = [page EXCEPT ![p] = FirstPage(c.ranges)]
    /\ blocked' = blocked \cup {p}
    /\ To(p, "next")

InTheWay(c) == {truth[a] : a \in AllOf(c.ranges)} \ {c.func, "none"}

AddFunction(t, c) ==
    LET p == CodeOf(t) IN
    /\ At(p, "idle")
    /\ calls < MaxCalls
    /\ \A q \in Procs : adding[q].func = c.func \/ AllOf(adding[q].ranges) \cap AllOf(c.ranges) = {}
    /\ calls' = calls + 1
    /\ Registers([a \in AllAddresses |-> IF truth[a] \in InTheWay(c) THEN "none" ELSE truth[a]])
    /\ \/ UNCHANGED <<localVars, blocked>>
       \/ /\ AddFunctionRanges(p, c)
          /\ UNCHANGED <<ip, answer>>
    /\ UNCHANGED <<mutexVars, dataVars, loaded, crashed>>

\* AddFunctionRangesToCache, one page at a time: look for the page under the
\* shared lock of the map
FindPage(p) ==
    /\ At(p, "next")
    /\ todo[p] # <<>>
    /\ LockShared(p, Map)
    /\ To(p, "find")
    /\ UNCHANGED <<state, waitingWriters, hold, dataVars, todo, page, adding, ip, answer, blocked,
                   loaded, ghostVars, crashed, calls>>

PageFound(p) ==
    /\ Got(p, "find")
    /\ page[p] \in created
    /\ Lock(p, Page(page[p]))
    /\ To(p, "insert")
    /\ UNCHANGED <<state, waitingWriters, hold, dataVars, todo, page, adding, ip, answer, blocked,
                   loaded, ghostVars, crashed, calls>>

\* ... or give that lock back and take the exclusive one
PageMissing(p) ==
    /\ Got(p, "find")
    /\ page[p] \notin created
    /\ UnlockShared(p, Map)
    /\ Lock(p, Map)
    /\ To(p, "emplace")
    /\ UNCHANGED <<waitingWriters, dataVars, todo, page, adding, ip, answer, blocked,
                   loaded, ghostVars, crashed, calls>>

\* operator[] in the place of try_emplace: a page made in between is lost
EmplaceAnew(p) ==
    LET n == page[p] IN
    /\ Got(p, "emplace")
    /\ created' = created \cup {n}
    /\ ranges' = [ranges EXCEPT ![n] = <<>>]
    /\ Lock(p, Page(n))
    /\ To(p, "insert")
    /\ UNCHANGED <<state, waitingWriters, hold, modules, todo, page, adding, ip, answer,
                   blocked, loaded, ghostVars, crashed, calls>>

TryEmplace(p) ==
    LET n == page[p] IN
    /\ Got(p, "emplace")
    /\ created' = created \cup {n}
    /\ Lock(p, Page(n))
    /\ To(p, "insert")
    /\ UNCHANGED <<state, waitingWriters, hold, ranges, modules, todo, page, adding, ip, answer,
                   blocked, loaded, ghostVars, crashed, calls>>

\* the range that p is adding
CodeRange(p) ==
    [start |-> Head(todo[p])[1], end |-> Head(todo[p])[2], func |-> adding[p].func]

InsertCodeRangeIntoPage(p) ==
    LET n == page[p] IN
    /\ Got(p, "insert")
    /\ ranges' = [ranges EXCEPT ![n] = InsertCodeRange(@, CodeRange(p))]
    /\ Unlock(p, Page(n))
    /\ NoCall(p)
    /\ To(p, "leave")
    /\ UNCHANGED <<waitingWriters, created, modules, todo, page, adding, ip, answer, blocked,
                   loaded, ghostVars, crashed, calls>>

\* ~mapLock, and on to the range's next page or to the next range
PageDone(p) ==
    /\ At(p, "leave")
    /\ IF hold[Map][p] = "shared" THEN UnlockShared(p, Map) ELSE Unlock(p, Map)
    /\ IF page[p] < PageOf(Head(todo[p])[2])
       THEN page' = [page EXCEPT ![p] = @ + 1] /\ UNCHANGED todo
       ELSE /\ todo' = [todo EXCEPT ![p] = Tail(@)]
            /\ page' = [page EXCEPT ![p] = FirstPage(Tail(todo[p]))]
    /\ To(p, "next")
    /\ UNCHANGED <<waitingWriters, callVars, dataVars, adding, ip, answer, blocked,
                   loaded, ghostVars, crashed, calls>>

\* ~ScopedProfilerSignalBlocker, and the callback returns
AddReturns(p) ==
    /\ At(p, "next")
    /\ todo[p] = <<>>
    /\ blocked' = blocked \ {p}
    /\ adding' = [adding EXCEPT ![p] = NoCode]
    /\ IF p = Resolver
       THEN To(p, "return") /\ UNCHANGED ghostVars
       ELSE /\ To(p, "idle")
            /\ Registers([a \in AllAddresses |->
                              IF a \in AllOf(adding[p].ranges) THEN adding[p].func ELSE truth[a]])
    /\ UNCHANGED <<mutexVars, dataVars, todo, page, ip, answer, loaded, crashed, calls>>

(***************************************************************************)
(* The loader: ModuleLoadFinished calls AddModule, ModuleUnloadFinished    *)
(* RemoveModule.  The runtime finishes one before it begins the other.     *)
(* GetModuleCodeRanges may come back with nothing, in either of them.      *)
(***************************************************************************)
ModuleEntry == [start |-> Module[1], end |-> Module[2], removed |-> FALSE]

SetModule(f) ==
    [a \in AllAddresses |-> IF a \in AddressesOf(Module) THEN f ELSE truth[a]]

ModuleCallback(t, place) ==
    LET p == CodeOf(t) IN
    /\ At(p, "idle")
    /\ calls < MaxCalls
    /\ \A q \in Procs : pc[q] \notin {"load", "unload", "loadDone", "unloadDone"}
    /\ calls' = calls + 1
    /\ \/ UNCHANGED <<callVars, pc, blocked>>
       \/ /\ blocked' = blocked \cup {p}
          /\ Lock(p, ModuleList)
          /\ To(p, place)
    /\ UNCHANGED <<state, waitingWriters, hold, dataVars, todo, page, adding, ip, answer, crashed>>

AddModule(t) ==
    /\ ~loaded
    /\ loaded' = TRUE
    /\ ModuleCallback(t, "load")
    /\ UNCHANGED ghostVars

\* The memory is the runtime's again before RemoveModule is called.
RemoveModule(t) ==
    /\ loaded
    /\ loaded' = FALSE
    /\ Registers(SetModule("none"))
    /\ ModuleCallback(t, "unload")

\* AddModuleRangesToCache inserts behind the entries with the same start.
AddModuleRanges(p) ==
    /\ Got(p, "load")
    /\ modules' = Insert(modules, Before(modules, Module[1]), ModuleEntry)
    /\ Unlock(p, ModuleList) /\ NoCall(p)
    /\ To(p, "loadDone")
    /\ UNCHANGED <<waitingWriters, created, ranges, todo, page, adding, ip, answer, blocked, loaded,
                   ghostVars, crashed, calls>>

\* The first entry with these addresses is marked, which after a reload is not
\* the one that lookups find.
MarkRemoved(p) ==
    /\ Got(p, "unload")
    /\ modules' = IF modules = <<>> THEN modules ELSE [modules EXCEPT ![1].removed = TRUE]
    /\ Unlock(p, ModuleList) /\ NoCall(p)
    /\ To(p, "unloadDone")
    /\ UNCHANGED <<waitingWriters, created, ranges, todo, page, adding, ip, answer, blocked, loaded,
                   ghostVars, crashed, calls>>

ModuleReturns(p) ==
    /\ At(p, "loadDone") \/ At(p, "unloadDone")
    /\ blocked' = blocked \ {p}
    /\ IF pc[p] = "loadDone" THEN Registers(SetModule(Precompiled)) ELSE UNCHANGED ghostVars
    /\ To(p, "idle")
    /\ UNCHANGED <<mutexVars, dataVars, todo, page, adding, ip, answer, loaded, crashed, calls>>

(***************************************************************************)
(* The lookups: IsManaged in a signal handler, GetFunctionInfo in the      *)
(* resolver.                                                               *)
(***************************************************************************)
LookupBegins(p, a) ==
    /\ At(p, "idle")
    /\ ip' = [ip EXCEPT ![p] = a]
    /\ expect' = [expect EXCEPT ![p] = truth[a]]
    /\ Shared(p, Map)
    /\ To(p, "map")
    /\ UNCHANGED <<state, waitingWriters, hold, dataVars, todo, page, adding, answer, blocked,
                   loaded, truth, crashed, calls>>

SignalUnblocked(t) ==
    \E a \in Frames : LookupBegins(HandlerOf(t), a)

\* A signal is delivered when the thread does not block it.
Signal(t) ==
    /\ CodeOf(t) \notin blocked
    /\ \E a \in Frames : LookupBegins(HandlerOf(t), a)

GetFunctionInfo == \E a \in Unnamed : LookupBegins(Resolver, a)

Answers(p, x) == answer' = [answer EXCEPT ![p] = x]

\* IsManagedImpl and GetFunctionInfoImpl, under the shared lock of the map
LookForPage(p) ==
    /\ Got(p, "map")
    /\ IF PageOf(ip[p]) \in created
       THEN /\ Shared(p, Page(PageOf(ip[p])))
            /\ To(p, "page")
            /\ UNCHANGED <<state, hold>>
       ELSE /\ UnlockShared(p, Map)
            /\ Shared(p, ModuleList)
            /\ To(p, "modules")
    /\ UNCHANGED <<waitingWriters, dataVars, todo, page, adding, ip, answer, blocked, loaded,
                   ghostVars, crashed, calls>>

\* ... and of the page
LookInPage(p) ==
    LET found == FindRange(ranges[PageOf(ip[p])], ip[p]) IN
    /\ Got(p, "page")
    /\ Answers(p, IF found = {} THEN "none" ELSE (CHOOSE r \in found : TRUE).func)
    /\ UnlockShared(p, Page(PageOf(ip[p])))
    /\ NoCall(p)
    /\ To(p, "leaveMap")
    /\ UNCHANGED <<waitingWriters, dataVars, todo, page, adding, ip, blocked, loaded, ghostVars,
                   crashed, calls>>

\* A lock that was not had within the deadline: the answer is unknown.
LookupGivesUp(p) ==
    /\ \E place \in {"map", "page", "modules"} : At(p, place)
    /\ at[p] = "failed"
    /\ Answers(p, "unknown")
    /\ NoCall(p)
    /\ To(p, IF pc[p] = "page" THEN "leaveMap" ELSE "return")
    /\ UNCHANGED <<state, waitingWriters, hold, dataVars, todo, page, adding, ip, blocked, loaded,
                   ghostVars, crashed, calls>>

LeaveMap(p) ==
    /\ At(p, "leaveMap")
    /\ UnlockShared(p, Map)
    /\ IF answer[p] = "none"
       THEN Shared(p, ModuleList) /\ To(p, "modules")
       ELSE UNCHANGED callVars /\ To(p, "return")
    /\ UNCHANGED <<waitingWriters, dataVars, todo, page, adding, ip, answer, blocked, loaded,
                   ghostVars, crashed, calls>>

\* IsCodeInR2RModule
LookInModules(p) ==
    LET r2r == \E m \in FindRange(modules, ip[p]) : ~m.removed IN
    /\ Got(p, "modules")
    /\ UnlockShared(p, ModuleList)
    /\ NoCall(p)
    /\ IF r2r /\ p = Resolver
       THEN To(p, "fromIP") /\ UNCHANGED answer
       ELSE To(p, "return") /\ Answers(p, IF r2r THEN "managed" ELSE "native")
    /\ UNCHANGED <<waitingWriters, dataVars, todo, page, adding, ip, blocked, loaded, ghostVars,
                   crashed, calls>>

\* GetFunctionFromIP of the runtime, and AddFunctionImpl for what it finds.
\* Nothing keeps the module loaded since IsCodeInR2RModule looked.
GetFunctionFromIP ==
    LET c == [func |-> Precompiled, ranges |-> <<Module>>] IN
    /\ At(Resolver, "fromIP")
    /\ \/ /\ loaded
          /\ Answers(Resolver, Precompiled)
          /\ AddFunctionRanges(Resolver, c)
          /\ UNCHANGED crashed
       \/ /\ ~loaded
          /\ crashed' = TRUE
          /\ UNCHANGED <<pc, answer, todo, page, adding, blocked>>
       \/ /\ ~loaded
          /\ Answers(Resolver, "native")
          /\ To(Resolver, "return")
          /\ UNCHANGED <<crashed, todo, page, adding, blocked>>
    /\ UNCHANGED <<mutexVars, dataVars, ip, loaded, ghostVars, calls>>

LookupReturns(p) ==
    /\ At(p, "return")
    /\ ip' = [ip EXCEPT ![p] = 0]
    /\ answer' = [answer EXCEPT ![p] = "none"]
    /\ expect' = [expect EXCEPT ![p] = "none"]
    /\ To(p, "idle")
    /\ UNCHANGED <<mutexVars, dataVars, todo, page, adding, blocked, loaded, truth, crashed, calls>>

(***************************************************************************)
(* The whole.                                                              *)
(***************************************************************************)
AddStep(p) ==
    \/ FindPage(p) \/ PageFound(p) \/ PageMissing(p) \/ TryEmplace(p)
    \/ InsertCodeRangeIntoPage(p) \/ PageDone(p) \/ AddReturns(p)

ModuleStep(p) == AddModuleRanges(p) \/ MarkRemoved(p) \/ ModuleReturns(p)

LookupStep(p) ==
    \/ LookForPage(p) \/ LookInPage(p) \/ LookupGivesUp(p) \/ LeaveMap(p)
    \/ LookInModules(p) \/ LookupReturns(p)

AddPlaces == {"next", "find", "emplace", "insert", "leave"}
ModulePlaces == {"load", "unload", "loadDone", "unloadDone"}
LookupPlaces == {"map", "page", "leaveMap", "modules", "return"}

Step(p) ==
    \/ at[p] \notin {"idle"} \cup Returned /\ Locking(p)
    \/ /\ at[p] \in {"idle"} \cup Returned
       /\ \/ pc[p] \in AddPlaces /\ AddStep(p)
          \/ pc[p] \in ModulePlaces /\ ModuleStep(p)
          \/ pc[p] \in LookupPlaces /\ LookupStep(p)
          \/ p = Resolver /\ GetFunctionFromIP

Next ==
    \/ \E t \in Threads : AddModule(t) \/ RemoveModule(t) \/ \E c \in Code : AddFunction(t, c)
    \/ \E t \in Sampled : Signal(t)
    \/ GetFunctionInfo
    \/ \E p \in Procs : Step(p)
    \/ crashed /\ UNCHANGED vars

\* Threads and handlers run on: none stops for ever between two steps, which is
\* what the scheduler of the operating system gives.  Nothing makes callbacks or
\* signals come.
Fairness == \A p \in Procs : WF_vars(Step(p))

Spec == Init /\ [][Next]_vars /\ Fairness

-----------------------------------------------------------------------------
\* What a lookup says of an address is not older than the lookup: code that was
\* registered (AddFunction, AddModule returned) before it began, and is still
\* there when it returns, is found.  The resolver gets the function, also where
\* memory has been used again and while others extend the same pages; a signal
\* handler is told "managed" or, when a lock was not to be had, "unknown", but
\* never "native", which would make it unwind a managed frame as a native one.
AnswersAreCurrent ==
    \A p \in Lookups :
        pc[p] = "return" /\ expect[p] # "none" =>
            IF p = Resolver THEN answer[p] = expect[p]
            ELSE answer[p] \in {expect[p], "managed", "unknown"}

\* A profiler's signal never interrupts a thread that has or waits for a lock of
\* the cache (ScopedProfilerSignalBlocker around every write): the handler would
\* wait for the very thread it runs on.
HandlerWaitsForOthers ==
    \A t \in Sampled :
        pc[HandlerOf(t)] # "idle" /\ CodeOf(t) \in Procs =>
            /\ at[CodeOf(t)] = "idle"
            /\ \A m \in Mutexes : hold[m][CodeOf(t)] = "none"

\* Every callback, lookup and signal handler returns, though lookups come in a
\* steady stream: a writer that waits keeps new readers out until it has been
\* served (the fairness of ReaderWriterSpinningMutex), locks are taken in one
\* order, and a handler does not wait beyond its deadline.
EveryCallReturns ==
    \A p \in Procs : pc[p] # "idle" ~> pc[p] = "idle" \/ crashed

-----------------------------------------------------------------------------
(***************************************************************************)
(* How the cache uses its locks: what a process holds, and which lock it   *)
(* asks for, follow from where it is.                                      *)
(***************************************************************************)
Reads == {"find", "map", "page", "modules"}
Writes == {"emplace", "insert", "load", "unload"}
CachePlaces == {"idle", "fromIP"} \cup AddPlaces \cup ModulePlaces \cup LookupPlaces

\* The call on a mutex.
CallInv(p) ==
    /\ pc[p] \in Reads => at[p] \in {"look", "join", "lookAgain", "joinAgain", "owned", "failed"}
    /\ pc[p] \in Writes => at[p] \in {"try", "register", "spin", "gotIt", "owned"}
    /\ pc[p] \notin Reads \cup Writes => at[p] = "idle"
    /\ at[p] = "idle" => on[p] = NoMutex /\ timed[p] = FALSE
    /\ pc[p] = "find" => timed[p] = FALSE /\ at[p] # "failed"
    /\ pc[p] \in {"find", "emplace", "map"} => on[p] = Map
    /\ pc[p] \in {"load", "unload", "modules"} => on[p] = ModuleList
    /\ pc[p] = "insert" => on[p] = Page(page[p])
    /\ pc[p] = "page" => on[p] = Page(PageOf(ip[p]))

\* The mutexes it holds: the one of the call, once that has succeeded, and the
\* map's around a page.
HoldInv(p) ==
    /\ pc[p] \in Reads => hold[on[p]][p] = IF at[p] = "owned" THEN "shared" ELSE "none"
    /\ pc[p] \in Writes =>
          hold[on[p]][p] = IF at[p] \in {"gotIt", "owned"} THEN "exclusive" ELSE "none"
    /\ pc[p] \in {"page", "leaveMap"} => hold[Map][p] = "shared"
    /\ pc[p] \in {"insert", "leave"} => hold[Map][p] \in {"shared", "exclusive"}
    /\ pc[p] \notin {"page", "leaveMap", "insert", "leave"} /\ on[p] # Map => hold[Map][p] = "none"
    /\ \A m \in Mutexes \ {Map, on[p]} : hold[m][p] = "none"

\* Who does what, with signals blocked while the cache is extended.
RoleInv(p) ==
    /\ pc[p] \in LookupPlaces => p \in Lookups
    /\ pc[p] = "fromIP" => p = Resolver
    /\ pc[p] \in AddPlaces \cup ModulePlaces => p \in blocked
    /\ pc[p] \in {"find", "emplace", "insert", "leave"} => todo[p] # <<>>
    /\ todo[p] # <<>> => page[p] \in PagesOf(Head(todo[p]))

CacheTypeOK ==
    /\ pc \in [Procs -> CachePlaces]
    /\ todo \in [Procs -> Seq(AllRanges)]
    /\ page \in [Procs -> Nat]
    /\ DOMAIN ip = Lookups
    /\ created \subseteq Pages

\* A signal handler runs on a thread that does not block signals.
HandlerInv == \A t \in Sampled : pc[HandlerOf(t)] # "idle" => CodeOf(t) \notin blocked

\* The inductive invariant.
CacheInv ==
    /\ MutexInv
    /\ CacheTypeOK
    /\ \A p \in Procs : CallInv(p) /\ HoldInv(p) /\ RoleInv(p)
    /\ HandlerInv
=============================================================================
