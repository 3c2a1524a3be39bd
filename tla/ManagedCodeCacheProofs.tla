------------------------ MODULE ManagedCodeCacheProofs ------------------------
(***************************************************************************)
(* For any threads, code and addresses: the code cache uses its mutexes as *)
(* their interface asks (CacheInv is inductive), so that all that is       *)
(* proved of them holds in the cache, and no signal handler waits for the  *)
(* thread it runs on.                                                      *)
(***************************************************************************)
EXTENDS ManagedCodeCache, TLAPS

USE ZenonT(5), SMTT(30)   \* the provers, in this order

-----------------------------------------------------------------------------
(***************************************************************************)
(* What the callers of the mutexes need to know of a step.                 *)
(***************************************************************************)
\* What a process does to the mutexes between two calls: it gives
\* back a mutex (or none, NoMutex) and begins the next call (or none).
CallerMove(p, back, place, mutex, deadline) ==
    /\ at[p] \in {"idle"} \cup Returned
    /\ UNCHANGED waitingWriters
    /\ Begin(p, mutex, place, deadline)
    /\ \/ back = NoMutex /\ UNCHANGED <<state, hold>>
       \/ /\ back \in Mutexes
          /\ \/ hold[back][p] = "exclusive" /\ Unlock(p, back)
             \/ hold[back][p] = "shared" /\ UnlockShared(p, back)
    /\ \/ place = "idle" /\ mutex = NoMutex /\ deadline = FALSE
       \/ /\ place \in {"try", "look"} /\ mutex \in Mutexes /\ deadline \in BOOLEAN
          /\ mutex = back \/ hold[mutex][p] = "none"

\* What it comes to: p has moved on, and nobody else has.
CallerMoved(p, back, place, mutex, deadline) ==
    /\ at'[p] = place /\ on'[p] = mutex /\ timed'[p] = deadline
    /\ \A m \in Mutexes : hold'[m][p] = IF m = back THEN "none" ELSE hold[m][p]

\* Nobody but p has moved.
AloneInMutexes(p) ==
    \A q \in Procs \ {p} :
        /\ at'[q] = at[q] /\ on'[q] = on[q] /\ timed'[q] = timed[q]
        /\ \A m \in Mutexes : hold'[m][q] = hold[m][q]

\* Such a move is a step of the mutexes' own specification.
LEMMA CallerMoveIsStep ==
    ASSUME MutexInv, NEW p \in Procs, NEW back, NEW place, NEW mutex, NEW deadline,
           CallerMove(p, back, place, mutex, deadline)
    PROVE  MutexNext /\ AloneInMutexes(p) /\ CallerMoved(p, back, place, mutex, deadline)
<1>1. \/ place = "idle" /\ NoCall(p)
      \/ /\ mutex \in Mutexes /\ (mutex = back \/ hold[mutex][p] = "none")
         /\ Lock(p, mutex) \/ TryLockFor(p, mutex) \/ LockShared(p, mutex)
               \/ TryLockSharedFor(p, mutex)
  BY Zenon DEF CallerMove, NoCall, Lock, TryLockFor, LockShared, TryLockSharedFor
<1>2. /\ at \in [Procs -> Places] /\ on \in [Procs -> Mutexes \cup {NoMutex}]
      /\ timed \in [Procs -> BOOLEAN] /\ hold \in [Mutexes -> [Procs -> {"none", "shared", "exclusive"}]]
  BY DEF MutexInv, MutexTypeOK
<1>3. /\ at'[p] = place /\ on'[p] = mutex /\ timed'[p] = deadline
      /\ \A q \in Procs \ {p} : at'[q] = at[q] /\ on'[q] = on[q] /\ timed'[q] = timed[q]
  BY <1>2 DEF CallerMove, Begin
<1>4. CASE back = NoMutex /\ UNCHANGED <<state, hold>>
  <2>1. CallerMoves(p, {})
    BY <1>1, <1>4, MutexAssumption, Zenon DEF CallerMove, CallerMoves
  <2>2. MutexNext
    BY <1>4, <2>1, Zenon DEF CallerMove, MutexNext, Asks
  <2>. QED  BY <1>3, <1>4, <2>2, MutexAssumption, Zenon DEF AloneInMutexes, CallerMoved
<1>5. CASE /\ back \in Mutexes
           /\ \/ hold[back][p] = "exclusive" /\ Unlock(p, back)
              \/ hold[back][p] = "shared" /\ UnlockShared(p, back)
  <2>1. CallerMoves(p, {back})
    BY <1>1, <1>5, Zenon DEF CallerMove, CallerMoves
  <2>2. MutexNext
    BY <1>5, <2>1, Zenon DEF CallerMove, MutexNext, GivesBack
  <2>3. hold' = [hold EXCEPT ![back][p] = "none"]
    BY <1>5 DEF Unlock, UnlockShared, Holds
  <2>4. /\ \A m \in Mutexes : hold'[m][p] = IF m = back THEN "none" ELSE hold[m][p]
        /\ \A q \in Procs \ {p}, m \in Mutexes : hold'[m][q] = hold[m][q]
    BY <1>2, <1>5, <2>3
  <2>. QED  BY <1>3, <2>2, <2>4, Zenon DEF AloneInMutexes, CallerMoved
<1>. QED  BY <1>4, <1>5, Zenon DEF CallerMove

\* A step inside a call on a mutex: how far it gets, and what it takes.
LEMMA LockingEffect ==
    ASSUME MutexInv, NEW p \in Procs, MutexStep(p)
    PROVE  /\ AloneInMutexes(p) /\ on'[p] = on[p] /\ timed'[p] = timed[p]
           /\ \A m \in Mutexes \ {on[p]} : hold'[m][p] = hold[m][p]
           /\ \/ /\ at[p] \in {"try", "register", "spin", "gotIt"}
                 /\ \/ /\ at[p] # "gotIt" /\ at'[p] \in {"register", "spin"}
                       /\ hold'[on[p]][p] = hold[on[p]][p]
                    \/ /\ at[p] = "gotIt" /\ at'[p] = "owned"
                       /\ hold'[on[p]][p] = hold[on[p]][p]
                    \/ at'[p] \in {"gotIt", "owned"} /\ hold'[on[p]][p] = "exclusive"
              \/ /\ at[p] \in {"look", "join", "lookAgain", "joinAgain"}
                 /\ \/ at'[p] \in {"join", "lookAgain", "joinAgain"} /\ hold'[on[p]][p] = hold[on[p]][p]
                    \/ at'[p] = "owned" /\ hold'[on[p]][p] = "shared"
                    \/ at'[p] = "failed" /\ timed[p] /\ hold'[on[p]][p] = hold[on[p]][p]
              \/ at[p] = "gaveUp"
<1>1. /\ at \in [Procs -> Places] /\ on \in [Procs -> Mutexes \cup {NoMutex}]
      /\ timed \in [Procs -> BOOLEAN] /\ hold \in [Mutexes -> [Procs -> {"none", "shared", "exclusive"}]]
      /\ at[p] # "idle" => on[p] \in Mutexes
  BY DEF MutexInv, MutexTypeOK
<1>. USE DEF AloneInMutexes, Goes, Holds
<1>2. CASE TryLock(p)
  BY <1>1, <1>2 DEF TryLock
<1>3. CASE WaitingWriterGuard(p)
  BY <1>1, <1>3 DEF WaitingWriterGuard
<1>4. CASE LockSlow(p)
  BY <1>1, <1>4 DEF LockSlow
<1>5. CASE WaitingWriterLeaves(p)
  BY <1>1, <1>5 DEF WaitingWriterLeaves
<1>6. CASE Look(p)
  BY <1>1, <1>6 DEF Look
<1>7. CASE TryLockSharedOnce(p)
  <2>1. CASE /\ at' = [at EXCEPT ![p] = "owned"] /\ UNCHANGED <<on, timed>>
             /\ hold' = [hold EXCEPT ![on[p]][p] = "shared"]
    BY <1>1, <1>7, <2>1 DEF TryLockSharedOnce
  <2>2. CASE /\ at' = [at EXCEPT ![p] = "lookAgain"] /\ UNCHANGED <<on, timed, hold>>
    BY <1>1, <1>7, <2>2, Zenon DEF TryLockSharedOnce
  <2>. QED  BY <1>7, <2>1, <2>2 DEF TryLockSharedOnce
<1>8. CASE LockSharedTimesOut(p)
  BY <1>1, <1>8 DEF LockSharedTimesOut
<1>. QED  BY <1>2, <1>3, <1>4, <1>5, <1>6, <1>7, <1>8, Zenon DEF MutexStep

-----------------------------------------------------------------------------
(***************************************************************************)
(* The code cache uses its mutexes as their interface allows.              *)
(***************************************************************************)
\* The mutexes of the cache differ from each other.
LEMMA MutexNames ==
    /\ Map \in Mutexes /\ ModuleList \in Mutexes /\ Map # ModuleList
    /\ \A n \in Pages : Page(n) \in Mutexes
    /\ \A n : Page(n) # Map /\ Page(n) # ModuleList
    /\ NoMutex \notin Mutexes
<1>1. \A n : Page(n) # Map /\ Page(n) # ModuleList
  BY DEF Page, Map, ModuleList
<1>2. Map # ModuleList
  BY DEF Map, ModuleList
<1>3. Map \in Mutexes /\ ModuleList \in Mutexes /\ \A n \in Pages : Page(n) \in Mutexes
  BY CacheAssumption
<1>. QED  BY <1>1, <1>2, <1>3, MutexAssumption

\* So do the processes.
LEMMA ProcNames ==
    /\ Resolver \in Procs /\ Resolver \in Lookups
    /\ \A t \in Threads : CodeOf(t) \in Procs /\ CodeOf(t) # Resolver /\ CodeOf(t) \notin Lookups
    /\ \A t \in Sampled : /\ HandlerOf(t) \in Procs /\ HandlerOf(t) \in Lookups
                          /\ HandlerOf(t) # Resolver /\ CodeOf(t) # Resolver
    /\ \A t, u : CodeOf(t) # HandlerOf(u)
    /\ \A t, u : HandlerOf(t) = HandlerOf(u) => t = u
    /\ \A p \in Procs : p \in Lookups \/ \E t \in Threads : p = CodeOf(t)
<1>1. \A t, u : CodeOf(t) # HandlerOf(u)
  BY DEF CodeOf, HandlerOf
<1>2. \A t, u : HandlerOf(t) = HandlerOf(u) => t = u
  BY DEF HandlerOf
<1>3. \A t \in Threads \cup Sampled : CodeOf(t) # Resolver
  BY CacheAssumption DEF CodeOf, Resolver
<1>4. \A t : HandlerOf(t) # Resolver
  BY DEF HandlerOf, Resolver
<1>5. Procs = {CodeOf(t) : t \in Threads} \cup {HandlerOf(t) : t \in Sampled} \cup {Resolver}
  BY CacheAssumption
<1>. QED  BY <1>1, <1>2, <1>3, <1>4, <1>5 DEF Lookups

\* Nobody but p has moved in the cache.
AloneInCache(p) ==
    \A q \in Procs \ {p} :
        /\ pc'[q] = pc[q] /\ todo'[q] = todo[q] /\ page'[q] = page[q]
        /\ q \in Lookups => ip'[q] = ip[q]
        /\ q \in blocked => q \in blocked'

ProcInv(p) == CallInv(p) /\ HoldInv(p) /\ RoleInv(p)

\* What the invariant says of the processes that have not moved stays true.
LEMMA OthersKeep ==
    ASSUME CacheInv, NEW p \in Procs, AloneInMutexes(p), AloneInCache(p), NEW q \in Procs \ {p}
    PROVE  ProcInv(q)'
<1>1. /\ pc'[q] = pc[q] /\ todo'[q] = todo[q] /\ page'[q] = page[q]
      /\ q \in Lookups => ip'[q] = ip[q]
      /\ q \in blocked => q \in blocked'
      /\ at'[q] = at[q] /\ on'[q] = on[q] /\ timed'[q] = timed[q]
      /\ \A m \in Mutexes : hold'[m][q] = hold[m][q]
  BY DEF AloneInMutexes, AloneInCache
<1>2. CallInv(q) /\ HoldInv(q) /\ RoleInv(q)
  BY DEF CacheInv
<1>3. pc[q] = "page" => ip'[q] = ip[q]
  BY <1>1, <1>2 DEF RoleInv, LookupPlaces
<1>4. CallInv(q)'
  BY <1>1, <1>2, <1>3 DEF CallInv
<1>5. pc[q] \in Reads \cup Writes => on[q] \in Mutexes
  BY <1>2 DEF CallInv, CacheInv, MutexInv, MutexTypeOK
<1>6. HoldInv(q)'
  BY <1>1, <1>2, <1>5, MutexNames DEF HoldInv
<1>7. RoleInv(q)'
  BY <1>1, <1>2 DEF RoleInv
<1>. QED  BY <1>4, <1>6, <1>7 DEF ProcInv

\* A handler still runs only on a thread that does not block signals.
LEMMA HandlersKeep ==
    ASSUME CacheInv, NEW p \in Procs, AloneInCache(p), blocked' \subseteq blocked \cup {p},
           p \in blocked' /\ p \notin blocked => ~Interrupted(p),
           \A t \in Sampled : p = HandlerOf(t) /\ pc'[p] # "idle" =>
                               pc[p] # "idle" \/ CodeOf(t) \notin blocked
    PROVE  HandlerInv'
<1>. SUFFICES ASSUME NEW t \in Sampled, pc'[HandlerOf(t)] # "idle", CodeOf(t) \in blocked'
              PROVE  FALSE
  BY DEF HandlerInv
<1>1. CASE p = HandlerOf(t)
  BY <1>1, ProcNames DEF CacheInv, HandlerInv
<1>2. CASE p # HandlerOf(t)
  BY <1>2, ProcNames DEF CacheInv, HandlerInv, AloneInCache, Interrupted
<1>. QED  BY <1>1, <1>2

\* A process goes on to another place, and changes nothing but mutexes, pages and
\* answers.
LEMMA Walks ==
    ASSUME CacheInv, NEW p \in Procs, NEW place \in CachePlaces, To(p, place),
           UNCHANGED <<todo, page, ip, blocked>>, created' \subseteq Pages, pc[p] # "idle"
    PROVE  AloneInCache(p) /\ CacheTypeOK' /\ HandlerInv' /\ pc'[p] = place
<1>1. pc \in [Procs -> CachePlaces] /\ pc' = [pc EXCEPT ![p] = place]
  BY DEF CacheInv, CacheTypeOK, To
<1>2. AloneInCache(p)
  BY <1>1 DEF AloneInCache
<1>3. CacheTypeOK'
  BY <1>1 DEF CacheInv, CacheTypeOK
<1>4. HandlerInv'
  BY <1>2, HandlersKeep
<1>. QED  BY <1>1, <1>2, <1>3, <1>4

\* A step keeps the invariant of the cache if it keeps that of the mutexes, of
\* which the last section will know.
CacheKept == MutexInv' => CacheInv'

\* The parts of the invariant together.
LEMMA CacheTogether ==
    ASSUME CacheInv, NEW p \in Procs, MutexNext, AloneInMutexes(p), AloneInCache(p),
           ProcInv(p)', CacheTypeOK', HandlerInv'
    PROVE  CacheKept
<1>1. \A q \in Procs : ProcInv(q)'
  BY OthersKeep
<1>. QED  BY <1>1 DEF CacheKept, CacheInv, ProcInv

\* A step inside a call on a mutex keeps the invariant.
LEMMA LockingKeeps ==
    ASSUME CacheInv, NEW p \in Procs, Locking(p)
    PROVE  MutexNext /\ CacheKept
<1>1. MutexInv /\ MutexStep(p) /\ CallInv(p) /\ HoldInv(p) /\ RoleInv(p)
  BY DEF CacheInv, Locking
<1>2. MutexNext
  BY <1>1 DEF MutexNext
<1>3. UNCHANGED <<pc, todo, page, ip, blocked, created>>
  BY DEF Locking, localVars, dataVars
<1>4. AloneInCache(p) /\ CacheTypeOK' /\ HandlerInv'
  BY <1>3 DEF AloneInCache, CacheInv, CacheTypeOK, HandlerInv
<1>5. CallInv(p)'
  BY <1>1, <1>3, LockingEffect DEF CallInv, Reads, Writes
<1>6. HoldInv(p)'
  <2>1. pc[p] \in Reads \cup Writes => on[p] \in Mutexes
    BY <1>1 DEF CallInv, MutexInv, MutexTypeOK
  <2>2. on'[p] = on[p] /\ \A m \in Mutexes \ {on[p]} : hold'[m][p] = hold[m][p]
    BY <1>1, LockingEffect
  <2>3. /\ pc[p] \in {"page", "leaveMap", "insert", "leave"} => on[p] # Map
        /\ on[p] # Map => hold'[Map][p] = hold[Map][p]
    BY <1>1, <2>2, MutexNames DEF CallInv, Reads, Writes
  <2>4. CASE pc[p] \in Reads
    <3>1. hold'[on[p]][p] = IF at'[p] = "owned" THEN "shared" ELSE "none"
      BY <1>1, <2>4, LockingEffect DEF CallInv, HoldInv
    <3>2. pc[p] \notin Writes
      BY <2>4 DEF Reads, Writes
    <3>. QED  BY <1>1, <1>3, <2>2, <2>3, <3>1, <3>2 DEF HoldInv
  <2>5. CASE pc[p] \in Writes
    <3>0. \/ /\ at'[p] \in {"register", "spin"} /\ at[p] \in {"try", "register", "spin"}
             /\ hold'[on[p]][p] = hold[on[p]][p]
          \/ at[p] = "gotIt" /\ at'[p] = "owned" /\ hold'[on[p]][p] = hold[on[p]][p]
          \/ at'[p] \in {"gotIt", "owned"} /\ hold'[on[p]][p] = "exclusive"
      BY <1>1, <2>5, LockingEffect DEF CallInv
    <3>1. hold'[on[p]][p] = IF at'[p] \in {"gotIt", "owned"} THEN "exclusive" ELSE "none"
      BY <1>1, <2>5, <3>0 DEF HoldInv
    <3>2. pc[p] \notin Reads
      BY <2>5 DEF Reads, Writes
    <3>. QED  BY <1>1, <1>3, <2>2, <2>3, <3>1, <3>2 DEF HoldInv
  <2>6. at[p] # "idle"
    BY <1>1, LockingEffect
  <2>. QED  BY <1>1, <2>4, <2>5, <2>6 DEF CallInv
<1>7. RoleInv(p)'
  BY <1>1, <1>3 DEF RoleInv
<1>. QED  BY <1>1, <1>2, <1>4, <1>5, <1>6, <1>7, LockingEffect, CacheTogether
             DEF ProcInv

\* The place that p goes to is one for the call that it begins.
Fits(p, to, mutex, deadline) ==
    /\ pc'[p] \in Reads => to = "look" /\ mutex \in Mutexes
    /\ pc'[p] \in Writes => to = "try" /\ mutex \in Mutexes
    /\ pc'[p] \notin Reads \cup Writes => to = "idle"
    /\ pc'[p] = "find" => deadline = FALSE
    /\ pc'[p] \in {"find", "emplace", "map"} => mutex = Map
    /\ pc'[p] \in {"load", "unload", "modules"} => mutex = ModuleList
    /\ pc'[p] = "insert" => mutex = Page(page'[p])
    /\ pc'[p] = "page" => mutex = Page(PageOf(ip'[p]))

\* It has given back the mutex of the call before, or goes on with the map's; and
\* it keeps the map's just where it should.
GaveBack(p, back, mutex) ==
    /\ on[p] \in {NoMutex, Map, back} \/ hold[on[p]][p] = "none"
    /\ pc'[p] \in {"page", "leaveMap"} => back # Map /\ hold[Map][p] = "shared"
    /\ pc'[p] \in {"insert", "leave"} => back # Map /\ hold[Map][p] \in {"shared", "exclusive"}
    /\ pc'[p] \notin {"page", "leaveMap", "insert", "leave"} /\ mutex # Map =>
          back = Map \/ hold[Map][p] = "none"

\* A step between two calls keeps the invariant when p ends up where the mutexes
\* it has say.
LEMMA MoveKeeps ==
    ASSUME CacheInv, NEW p \in Procs, NEW back, NEW to, NEW mutex, NEW deadline,
           CallerMove(p, back, to, mutex, deadline),
           AloneInCache(p), CacheTypeOK', HandlerInv', RoleInv(p)',
           Fits(p, to, mutex, deadline), GaveBack(p, back, mutex)
    PROVE  MutexNext /\ CacheKept
<1>1. MutexNext /\ AloneInMutexes(p) /\ CallerMoved(p, back, to, mutex, deadline)
  BY CallerMoveIsStep DEF CacheInv
<1>2. /\ at'[p] = to /\ on'[p] = mutex /\ timed'[p] = deadline
      /\ \A m \in Mutexes : hold'[m][p] = IF m = back THEN "none" ELSE hold[m][p]
  BY <1>1 DEF CallerMoved
<1>3. \/ to = "idle" /\ mutex = NoMutex /\ deadline = FALSE
      \/ /\ to \in {"try", "look"} /\ mutex \in Mutexes /\ deadline \in BOOLEAN
         /\ mutex = back \/ hold[mutex][p] = "none"
  BY DEF CallerMove
<1>4. CallInv(p)'
  BY <1>2, <1>3 DEF Fits, CallInv, Reads, Writes
<1>5. HoldInv(p)'
  <2>1. \A m \in Mutexes \ {Map, on[p]} : hold[m][p] = "none"
    BY DEF CacheInv, HoldInv
  <2>2. \A m \in Mutexes \ {Map, mutex} : hold'[m][p] = "none"
    BY <1>2, <2>1, MutexNames, ZenonT(60) DEF GaveBack
  <2>3. mutex \in Mutexes => hold'[mutex][p] = "none" /\ at'[p] \in {"try", "look"}
    BY <1>2, <1>3, MutexNames
  <2>4. /\ pc'[p] \in {"page", "leaveMap"} => hold'[Map][p] = "shared"
        /\ pc'[p] \in {"insert", "leave"} => hold'[Map][p] \in {"shared", "exclusive"}
        /\ pc'[p] \notin {"page", "leaveMap", "insert", "leave"} /\ mutex # Map =>
              hold'[Map][p] = "none"
    BY <1>2, MutexNames DEF GaveBack
  <2>5. /\ pc'[p] \in Reads => hold'[mutex][p] = "none" /\ at'[p] = "look"
        /\ pc'[p] \in Writes => hold'[mutex][p] = "none" /\ at'[p] = "try"
    BY <1>2, <2>3 DEF Fits
  <2>. QED  BY <1>2, <2>2, <2>4, <2>5 DEF HoldInv
<1>. QED  BY <1>1, <1>4, <1>5, CacheTogether DEF ProcInv

\* A process outside of any call stays there.
LEMMA StaysIdle ==
    ASSUME CacheInv, NEW p \in Procs, at[p] = "idle", UNCHANGED callVars
    PROVE  Begin(p, NoMutex, "idle", FALSE)
<1>1. on[p] = NoMutex /\ timed[p] = FALSE
  BY DEF CacheInv, CallInv
<1>2. /\ at \in [Procs -> Places] /\ on \in [Procs -> Mutexes \cup {NoMutex}]
      /\ timed \in [Procs -> BOOLEAN]
  BY DEF CacheInv, MutexInv, MutexTypeOK
<1>. QED  BY <1>1, <1>2 DEF Begin, callVars

\* The page to go on with is one of the cache's.
LEMMA PageIsKnown ==
    ASSUME CacheInv, NEW p \in Procs, todo[p] # <<>>
    PROVE  page[p] \in Pages
<1>1. Head(todo[p]) \in AllRanges /\ page[p] \in PagesOf(Head(todo[p]))
  BY DEF CacheInv, CacheTypeOK, RoleInv
<1>. QED  BY <1>1 DEF Pages

\* The pages of a range are numbered, and the first is not behind the last.
LEMMA RangeHasPages ==
    ASSUME NEW r \in AllRanges
    PROVE  PageOf(r[1]) \in Nat /\ PageOf(r[2]) \in Nat /\ PageOf(r[1]) <= PageOf(r[2])
<1>1. r \in Nat \X Nat
  <2>1. CASE r = Module
    BY <2>1, CacheAssumption
  <2>2. ASSUME NEW c \in Code, r \in Range(c.ranges) PROVE r \in Nat \X Nat
    <3>1. c.ranges \in Seq(Nat \X Nat)
      BY CacheAssumption
    <3>. QED  BY <2>2, <3>1 DEF Range
  <2>. QED  BY <2>1, <2>2 DEF AllRanges
<1>2. r[1] \in Nat /\ r[2] \in Nat /\ r[1] <= r[2] /\ PageSize \in Nat \ {0}
  BY <1>1, CacheAssumption
<1>. QED  BY <1>2 DEF PageOf

\* So a range has a first page.
LEMMA FirstPageIsKnown ==
    ASSUME NEW rs \in Seq(AllRanges)
    PROVE  FirstPage(rs) \in Nat /\ (rs # <<>> => FirstPage(rs) \in PagesOf(Head(rs)))
<1>1. CASE rs # <<>>
  <2>1. Head(rs) \in AllRanges
    BY <1>1
  <2>. QED  BY <1>1, <2>1, RangeHasPages DEF FirstPage, PagesOf
<1>. QED  BY <1>1 DEF FirstPage

\* What a process holds that has got the mutex it asked for.
LEMMA OwnedHolds ==
    ASSUME CacheInv, NEW p \in Procs, at[p] = "owned"
    PROVE  /\ on[p] \in Mutexes
           /\ pc[p] \in Reads => hold[on[p]][p] = "shared"
           /\ pc[p] \in Writes => hold[on[p]][p] = "exclusive"
           /\ pc[p] = "page" => hold[Map][p] = "shared"
           /\ pc[p] = "insert" => hold[Map][p] \in {"shared", "exclusive"}
           /\ pc[p] \in {"load", "unload", "modules"} => hold[Map][p] = "none"
           /\ \A m \in Mutexes \ {Map, on[p]} : hold[m][p] = "none"
<1>1. CallInv(p) /\ HoldInv(p)
  BY DEF CacheInv
<1>2. on[p] \in Mutexes
  BY DEF CacheInv, MutexInv, MutexTypeOK
<1>3. pc[p] \in {"load", "unload", "modules"} => on[p] # Map
  BY <1>1, MutexNames DEF CallInv
<1>. QED  BY <1>1, <1>2, <1>3 DEF HoldInv

-----------------------------------------------------------------------------
(***************************************************************************)
(* The kinds of step: a call on a mutex ends, or begins, or neither; or p  *)
(* leaves the map.                                                         *)
(***************************************************************************)
\* What p does to the state of the cache itself.
CacheMoves(p) == AloneInCache(p) /\ CacheTypeOK' /\ HandlerInv' /\ RoleInv(p)'

\* The ways through the functions of the cache on which p takes nothing but
\* mutexes with it.
Way(p, place) ==
    \/ pc[p] = "next" /\ place = "find" /\ todo[p] # <<>>
    \/ pc[p] = "find" /\ place \in {"insert", "emplace"}
    \/ pc[p] = "emplace" /\ place = "insert"
    \/ pc[p] = "insert" /\ place = "leave"
    \/ pc[p] \in {"load", "unload"} /\ place \in {"loadDone", "unloadDone"}
    \/ pc[p] \in LookupPlaces /\ place \in {"page", "leaveMap", "modules", "return"}
    \/ pc[p] = "modules" /\ place = "fromIP" /\ p = Resolver
    \/ pc[p] = "fromIP" /\ place = "return"

WalksTo(p, place) ==
    /\ Way(p, place) /\ To(p, place)
    /\ UNCHANGED <<todo, page, ip, blocked>>
    /\ \/ created' = created
       \/ pc[p] = "emplace" /\ created' = created \cup {page[p]}

\* They lead from one place of the invariant to another.
LEMMA WalkMoves ==
    ASSUME CacheInv, NEW p \in Procs, NEW place, WalksTo(p, place)
    PROVE  CacheMoves(p) /\ pc'[p] = place
<1>1. pc[p] # "idle" /\ place \in CachePlaces
  BY DEF WalksTo, Way, CachePlaces, AddPlaces, ModulePlaces, LookupPlaces
<1>2. RoleInv(p) /\ created \subseteq Pages
  BY DEF CacheInv, CacheTypeOK
<1>3. pc[p] = "emplace" => page[p] \in Pages
  BY <1>2, PageIsKnown DEF RoleInv
<1>4. created' \subseteq Pages
  BY <1>2, <1>3 DEF WalksTo
<1>5. AloneInCache(p) /\ CacheTypeOK' /\ HandlerInv' /\ pc'[p] = place
  BY <1>1, <1>4, Walks DEF WalksTo
<1>6. RoleInv(p)'
  BY <1>2, <1>5, ProcNames DEF WalksTo, Way, RoleInv, AddPlaces, ModulePlaces, LookupPlaces
<1>. QED  BY <1>5, <1>6 DEF CacheMoves

\* A call that has succeeded ends: p gives its mutex back, which is not the map's.
Ends(p) ==
    /\ at[p] = "owned" /\ on[p] # Map
    /\ \/ pc[p] \in Reads /\ UnlockShared(p, on[p])
       \/ pc[p] \in Writes /\ Unlock(p, on[p])
    /\ NoCall(p) /\ UNCHANGED waitingWriters
    /\ pc'[p] \notin Reads \cup Writes
    /\ pc'[p] = "leaveMap" <=> pc[p] = "page"
    /\ pc'[p] = "leave" <=> pc[p] = "insert"

\* It is a call the mutexes allow, and the invariant is kept.
LEMMA EndKeeps ==
    ASSUME CacheInv, NEW p \in Procs, CacheMoves(p), Ends(p)
    PROVE  MutexNext /\ CacheKept
<1>1. CallInv(p) /\ HoldInv(p)
  BY DEF CacheInv
<1>2. on[p] \in Mutexes
  BY OwnedHolds DEF Ends
<1>3. CallerMove(p, on[p], "idle", NoMutex, FALSE)
  BY <1>2, OwnedHolds DEF Ends, NoCall, CallerMove, Returned
<1>4. Fits(p, "idle", NoMutex, FALSE)
  BY DEF Ends, Fits, Reads, Writes
<1>5. GaveBack(p, on[p], NoMutex)
  BY <1>1 DEF Ends, GaveBack, CallInv, HoldInv, Reads, Writes
<1>. QED  BY <1>3, <1>4, <1>5, MoveKeeps DEF CacheMoves

\* A call begins: p has nothing, or goes on from the map to a page.
Begins(p, mutex, to, deadline) ==
    /\ \/ /\ pc[p] \in {"idle", "next"}
          /\ pc'[p] \notin {"page", "leaveMap", "insert", "leave"}
       \/ pc[p] = "map" /\ at[p] = "owned" /\ pc'[p] = "page" /\ mutex # Map
       \/ pc[p] \in {"find", "emplace"} /\ at[p] = "owned" /\ pc'[p] = "insert" /\ mutex # Map
    /\ Begin(p, mutex, to, deadline) /\ UNCHANGED <<state, waitingWriters, hold>>
    /\ to \in {"try", "look"} /\ mutex \in Mutexes /\ deadline \in BOOLEAN
    /\ Fits(p, to, mutex, deadline)

\* So is that: p does not have the mutex it asks for.
LEMMA BeginKeeps ==
    ASSUME CacheInv, NEW p \in Procs, CacheMoves(p),
           NEW mutex, NEW to, NEW deadline, Begins(p, mutex, to, deadline)
    PROVE  MutexNext /\ CacheKept
<1>1. CallInv(p) /\ HoldInv(p)
  BY DEF CacheInv
<1>2. /\ pc[p] \in {"idle", "next"} => at[p] = "idle" /\ on[p] = NoMutex /\ hold[Map][p] = "none"
      /\ pc[p] = "map" /\ at[p] = "owned" => on[p] = Map /\ hold[Map][p] = "shared"
      /\ pc[p] \in {"find", "emplace"} /\ at[p] = "owned" =>
            on[p] = Map /\ hold[Map][p] \in {"shared", "exclusive"}
  BY <1>1, MutexNames DEF CallInv, HoldInv, Reads, Writes
<1>3. hold[mutex][p] = "none"
  BY <1>1, <1>2, MutexNames DEF Begins, HoldInv
<1>4. CallerMove(p, NoMutex, to, mutex, deadline)
  BY <1>2, <1>3 DEF Begins, CallerMove, Returned
<1>5. GaveBack(p, NoMutex, mutex)
  BY <1>2, MutexNames DEF Begins, GaveBack
<1>. QED  BY <1>4, <1>5, MoveKeeps DEF CacheMoves, Begins

\* A call has failed, or there was none, and there is none now.
Rests(p) ==
    /\ \/ at[p] = "failed" /\ NoCall(p)
       \/ pc[p] \notin Reads \cup Writes \cup {"leave", "leaveMap"} /\ UNCHANGED callVars
    /\ UNCHANGED <<state, waitingWriters, hold>>
    /\ pc'[p] \notin Reads \cup Writes \cup {"leave"}
    /\ pc'[p] = "leaveMap" <=> pc[p] = "page"

\* The mutexes are as they were.
LEMMA RestKeeps ==
    ASSUME CacheInv, NEW p \in Procs, CacheMoves(p), Rests(p)
    PROVE  MutexNext /\ CacheKept
<1>1. CallInv(p) /\ HoldInv(p)
  BY DEF CacheInv
<1>2. /\ at[p] = "idle" \/ (at[p] = "failed" /\ pc[p] \in {"map", "page", "modules"})
      /\ pc[p] = "page" => hold[Map][p] = "shared"
      /\ pc[p] # "page" => hold[Map][p] = "none"
      /\ on[p] = NoMutex \/ hold[on[p]][p] = "none"
  BY <1>1, MutexNames DEF Rests, CallInv, HoldInv, Reads, Writes
<1>3. NoCall(p)
  BY <1>1, StaysIdle DEF Rests, CallInv, NoCall
<1>4. CallerMove(p, NoMutex, "idle", NoMutex, FALSE)
  BY <1>2, <1>3 DEF Rests, NoCall, CallerMove, Returned
<1>5. Fits(p, "idle", NoMutex, FALSE)
  BY DEF Rests, Fits, Reads, Writes
<1>6. GaveBack(p, NoMutex, NoMutex)
  BY <1>2, MutexNames DEF Rests, GaveBack, Reads, Writes
<1>. QED  BY <1>4, <1>5, <1>6, MoveKeeps DEF CacheMoves

\* p gives the map's mutex back, and asks for it or the modules' one, or for none.
LeavesMap(p, mutex, to, deadline) ==
    /\ \/ /\ pc[p] = "leaveMap" \/ (pc[p] \in {"find", "map"} /\ at[p] = "owned")
          /\ UnlockShared(p, Map)
       \/ /\ pc[p] = "leave"
          /\ IF hold[Map][p] = "shared" THEN UnlockShared(p, Map) ELSE Unlock(p, Map)
    /\ Begin(p, mutex, to, deadline) /\ UNCHANGED waitingWriters
    /\ \/ to = "idle" /\ mutex = NoMutex /\ deadline = FALSE
       \/ to \in {"try", "look"} /\ mutex \in {Map, ModuleList} /\ deadline \in BOOLEAN
    /\ pc'[p] \notin {"page", "leaveMap", "insert", "leave"}
    /\ Fits(p, to, mutex, deadline)

\* It had the map in the mode it gives it back in.
LEMMA LeaveKeeps ==
    ASSUME CacheInv, NEW p \in Procs, CacheMoves(p),
           NEW mutex, NEW to, NEW deadline, LeavesMap(p, mutex, to, deadline)
    PROVE  MutexNext /\ CacheKept
<1>1. CallInv(p) /\ HoldInv(p)
  BY DEF CacheInv
<1>2. /\ on[p] \in {NoMutex, Map} /\ at[p] \in {"idle"} \cup Returned
      /\ pc[p] = "leave" => hold[Map][p] \in {"shared", "exclusive"}
      /\ pc[p] # "leave" => hold[Map][p] = "shared"
  BY <1>1 DEF LeavesMap, CallInv, HoldInv, Reads, Writes, Returned
<1>3. mutex \in Mutexes => mutex = Map \/ hold[mutex][p] = "none"
  BY <1>1, <1>2, MutexNames DEF LeavesMap, HoldInv
<1>4. CallerMove(p, Map, to, mutex, deadline)
  BY <1>2, <1>3, MutexNames DEF LeavesMap, CallerMove
<1>5. GaveBack(p, Map, mutex)
  BY <1>2 DEF LeavesMap, GaveBack
<1>. QED  BY <1>4, <1>5, MoveKeeps DEF CacheMoves, LeavesMap

-----------------------------------------------------------------------------
(***************************************************************************)
(* The steps, one by one.                                                  *)
(***************************************************************************)
\* AddFunctionRangesToCache looks for the page.
LEMMA FindPageKeeps ==
    ASSUME CacheInv, NEW p \in Procs, FindPage(p)
    PROVE  MutexNext /\ CacheKept
<1>1. pc[p] = "next" /\ WalksTo(p, "find")
  BY DEF FindPage, At, WalksTo, Way, dataVars
<1>2. CacheMoves(p) /\ pc'[p] = "find"
  BY <1>1, WalkMoves
<1>3. Begins(p, Map, "look", FALSE)
  BY <1>1, <1>2, MutexNames DEF FindPage, LockShared, Begins, Fits, Reads, Writes
<1>. QED  BY <1>2, <1>3, BeginKeeps

\* It has found it, or made it.
LEMMA PageHadKeeps ==
    ASSUME CacheInv, NEW p \in Procs, PageFound(p) \/ TryEmplace(p)
    PROVE  MutexNext /\ CacheKept
<1>1. /\ pc[p] \in {"find", "emplace"} /\ at[p] = "owned" /\ WalksTo(p, "insert")
      /\ Lock(p, Page(page[p])) /\ UNCHANGED <<state, waitingWriters, hold, page>>
  BY DEF PageFound, TryEmplace, At, Got, WalksTo, Way, dataVars
<1>2. CacheMoves(p) /\ pc'[p] = "insert"
  BY <1>1, WalkMoves
<1>3. page[p] \in Pages
  BY <1>1, PageIsKnown DEF CacheInv, RoleInv
<1>4. Begins(p, Page(page[p]), "try", FALSE)
  BY <1>1, <1>2, <1>3, MutexNames DEF Lock, Begins, Fits, Reads, Writes
<1>. QED  BY <1>2, <1>4, BeginKeeps

\* It has not, and asks for the map anew.
LEMMA PageMissingKeeps ==
    ASSUME CacheInv, NEW p \in Procs, PageMissing(p)
    PROVE  MutexNext /\ CacheKept
<1>1. pc[p] = "find" /\ at[p] = "owned" /\ WalksTo(p, "emplace")
  BY DEF PageMissing, At, Got, WalksTo, Way, dataVars
<1>2. CacheMoves(p) /\ pc'[p] = "emplace"
  BY <1>1, WalkMoves
<1>3. LeavesMap(p, Map, "try", FALSE)
  BY <1>1, <1>2, MutexNames DEF PageMissing, Lock, LeavesMap, Fits, Reads, Writes
<1>. QED  BY <1>2, <1>3, LeaveKeeps

\* The range is in the page.
LEMMA InsertKeeps ==
    ASSUME CacheInv, NEW p \in Procs, InsertCodeRangeIntoPage(p)
    PROVE  MutexNext /\ CacheKept
<1>1. pc[p] = "insert" /\ at[p] = "owned" /\ WalksTo(p, "leave")
  BY DEF InsertCodeRangeIntoPage, At, Got, WalksTo, Way
<1>2. CacheMoves(p) /\ pc'[p] = "leave" /\ on[p] = Page(page[p])
  BY <1>1, WalkMoves DEF CacheInv, CallInv
<1>3. Ends(p)
  BY <1>1, <1>2, MutexNames DEF InsertCodeRangeIntoPage, Ends, Reads, Writes
<1>. QED  BY <1>2, <1>3, EndKeeps

\* The next page, or the first of the next range.
LEMMA NextPage ==
    ASSUME CacheInv, NEW p \in Procs, PageDone(p)
    PROVE  /\ todo' \in [Procs -> Seq(AllRanges)] /\ page' \in [Procs -> Nat]
           /\ todo'[p] # <<>> => page'[p] \in PagesOf(Head(todo'[p]))
           /\ \A q \in Procs \ {p} : todo'[q] = todo[q] /\ page'[q] = page[q]
<1>1. todo[p] # <<>> /\ page[p] \in PagesOf(Head(todo[p]))
  BY DEF PageDone, At, CacheInv, RoleInv
<1>2. todo[p] \in Seq(AllRanges) /\ todo \in [Procs -> Seq(AllRanges)] /\ page \in [Procs -> Nat]
  BY DEF CacheInv, CacheTypeOK
<1>3. Head(todo[p]) \in AllRanges /\ Tail(todo[p]) \in Seq(AllRanges)
  BY <1>1, <1>2
<1>4. CASE page[p] < PageOf(Head(todo[p])[2])
  <2>1. todo' = todo /\ page' = [page EXCEPT ![p] = @ + 1]
    BY <1>4 DEF PageDone
  <2>2. page[p] + 1 \in PagesOf(Head(todo[p]))
    BY <1>1, <1>2, <1>3, <1>4, RangeHasPages DEF PagesOf
  <2>3. page'[p] = page[p] + 1 /\ page' \in [Procs -> Nat]
    BY <1>2, <2>1
  <2>. QED  BY <1>2, <2>1, <2>2, <2>3
<1>5. CASE ~(page[p] < PageOf(Head(todo[p])[2]))
  <2>1. /\ todo' = [todo EXCEPT ![p] = Tail(todo[p])]
        /\ page' = [page EXCEPT ![p] = FirstPage(Tail(todo[p]))]
    BY <1>5 DEF PageDone
  <2>. QED  BY <1>2, <1>3, <2>1, FirstPageIsKnown
<1>. QED  BY <1>4, <1>5

\* On to the next page.
LEMMA PageDoneKeeps ==
    ASSUME CacheInv, NEW p \in Procs, PageDone(p)
    PROVE  MutexNext /\ CacheKept
<1>1. /\ pc[p] = "leave" /\ To(p, "next") /\ UNCHANGED <<callVars, created, ip, blocked>>
      /\ RoleInv(p) /\ CallInv(p)
  BY DEF PageDone, At, dataVars, CacheInv
<1>2. AloneInCache(p) /\ CacheTypeOK' /\ pc'[p] = "next"
  BY <1>1, NextPage DEF To, AloneInCache, CacheInv, CacheTypeOK, CachePlaces, AddPlaces
<1>3. HandlerInv'
  BY <1>1, <1>2, HandlersKeep
<1>4. RoleInv(p)'
  BY <1>1, <1>2, NextPage DEF RoleInv, AddPlaces, ModulePlaces, LookupPlaces
<1>5. NoCall(p)
  BY <1>1, StaysIdle DEF NoCall, CallInv, Reads, Writes
<1>6. LeavesMap(p, NoMutex, "idle", FALSE)
  BY <1>1, <1>2, <1>5 DEF PageDone, NoCall, LeavesMap, Fits, Reads, Writes
<1>. QED  BY <1>2, <1>3, <1>4, <1>6, LeaveKeeps DEF CacheMoves

\* A process has done with the cache, or the resolver goes back to its lookup.
LEMMA ReturnKeeps ==
    ASSUME CacheInv, NEW p \in Procs,
           pc[p] \in {"next", "loadDone", "unloadDone", "return"},
           NEW place, place = "idle" \/ (place = "return" /\ p = Resolver), To(p, place),
           blocked' \subseteq blocked, blocked \ {p} \subseteq blocked',
           DOMAIN ip' = Lookups, \A q \in Lookups \ {p} : ip'[q] = ip[q],
           UNCHANGED <<mutexVars, created, todo, page>>
    PROVE  MutexNext /\ CacheKept
<1>1. pc \in [Procs -> CachePlaces] /\ place \in CachePlaces /\ pc' = [pc EXCEPT ![p] = place]
  BY DEF CacheInv, CacheTypeOK, CachePlaces, LookupPlaces, To
<1>2. AloneInCache(p) /\ pc'[p] = place
  BY <1>1 DEF AloneInCache
<1>3. CacheTypeOK'
  BY <1>1 DEF CacheInv, CacheTypeOK
<1>4. HandlerInv'
  BY <1>2, HandlersKeep
<1>5. RoleInv(p)'
  <2>1. RoleInv(p)
    BY DEF CacheInv
  <2>. QED  BY <1>2, <2>1, ProcNames DEF RoleInv, AddPlaces, ModulePlaces, LookupPlaces
<1>6. Rests(p)
  BY <1>2 DEF Rests, mutexVars, Reads, Writes
<1>. QED  BY <1>2, <1>3, <1>4, <1>5, <1>6, RestKeeps DEF CacheMoves

\* Any step of AddFunctionRangesToCache.
LEMMA AddKeeps ==
    ASSUME CacheInv, NEW p \in Procs, AddStep(p)
    PROVE  MutexNext /\ CacheKept
<1>1. CASE AddReturns(p)
  <2>1. PICK place : /\ place = "idle" \/ (place = "return" /\ p = Resolver)
                     /\ To(p, place)
    BY <1>1 DEF AddReturns
  <2>2. /\ pc[p] = "next" /\ blocked' = blocked \ {p}
        /\ UNCHANGED <<mutexVars, created, todo, page, ip>> /\ DOMAIN ip = Lookups
    BY <1>1 DEF AddReturns, At, dataVars, CacheInv, CacheTypeOK
  <2>. QED  BY <2>1, <2>2, ReturnKeeps
<1>. QED  BY <1>1, FindPageKeeps, PageHadKeeps, PageMissingKeeps, InsertKeeps, PageDoneKeeps DEF AddStep

\* Any step of AddModule and RemoveModule.
LEMMA ModuleKeeps ==
    ASSUME CacheInv, NEW p \in Procs, ModuleStep(p)
    PROVE  MutexNext /\ CacheKept
<1>1. CASE AddModuleRanges(p) \/ MarkRemoved(p)
  <2>1. PICK place \in {"loadDone", "unloadDone"} :
           /\ pc[p] \in {"load", "unload"} /\ at[p] = "owned" /\ WalksTo(p, place)
           /\ Unlock(p, ModuleList) /\ NoCall(p) /\ UNCHANGED waitingWriters
    BY <1>1 DEF AddModuleRanges, MarkRemoved, At, Got, WalksTo, Way
  <2>2. CacheMoves(p) /\ pc'[p] = place /\ on[p] = ModuleList
    BY <2>1, WalkMoves DEF CacheInv, CallInv
  <2>3. Ends(p)
    BY <2>1, <2>2, MutexNames DEF Ends, Reads, Writes
  <2>. QED  BY <2>2, <2>3, EndKeeps
<1>2. CASE ModuleReturns(p)
  <2>1. /\ pc[p] \in {"loadDone", "unloadDone"} /\ blocked' = blocked \ {p} /\ To(p, "idle")
        /\ UNCHANGED <<mutexVars, created, todo, page, ip>> /\ DOMAIN ip = Lookups
    BY <1>2 DEF ModuleReturns, At, dataVars, CacheInv, CacheTypeOK
  <2>. QED  BY <2>1, ReturnKeeps
<1>. QED  BY <1>1, <1>2 DEF ModuleStep

\* The shared locks of the lookups are calls with or without a deadline.
LEMMA SharedBegins ==
    ASSUME NEW p, NEW m, Shared(p, m)
    PROVE  \E deadline \in BOOLEAN : Begin(p, m, "look", deadline)
BY DEF Shared, LockShared, TryLockSharedFor

\* A lookup goes on from the map, to a page or to the modules.
LEMMA LookForPageKeeps ==
    ASSUME CacheInv, NEW p \in Procs, LookForPage(p)
    PROVE  MutexNext /\ CacheKept
<1>1. CASE PageOf(ip[p]) \in created
  <2>1. /\ pc[p] = "map" /\ at[p] = "owned" /\ WalksTo(p, "page")
        /\ Shared(p, Page(PageOf(ip[p]))) /\ UNCHANGED <<state, waitingWriters, hold, ip>>
        /\ created \subseteq Pages
    BY <1>1
       DEF LookForPage, At, Got, WalksTo, Way, LookupPlaces, dataVars, CacheInv, CacheTypeOK
  <2>2. CacheMoves(p) /\ pc'[p] = "page"
    BY <2>1, WalkMoves
  <2>3. PICK deadline \in BOOLEAN : Begin(p, Page(PageOf(ip[p])), "look", deadline)
    BY <2>1, SharedBegins
  <2>4. Begins(p, Page(PageOf(ip[p])), "look", deadline)
    BY <1>1, <2>1, <2>2, <2>3, MutexNames DEF Begins, Fits, Reads, Writes
  <2>. QED  BY <2>2, <2>4, BeginKeeps
<1>2. CASE PageOf(ip[p]) \notin created
  <2>1. /\ pc[p] = "map" /\ at[p] = "owned" /\ WalksTo(p, "modules")
        /\ UnlockShared(p, Map) /\ Shared(p, ModuleList) /\ UNCHANGED waitingWriters
    BY <1>2 DEF LookForPage, At, Got, WalksTo, Way, LookupPlaces, dataVars
  <2>2. CacheMoves(p) /\ pc'[p] = "modules"
    BY <2>1, WalkMoves
  <2>3. PICK deadline \in BOOLEAN : Begin(p, ModuleList, "look", deadline)
    BY <2>1, SharedBegins
  <2>4. LeavesMap(p, ModuleList, "look", deadline)
    BY <2>1, <2>2, <2>3, MutexNames DEF LeavesMap, Fits, Reads, Writes
  <2>. QED  BY <2>2, <2>4, LeaveKeeps
<1>. QED  BY <1>1, <1>2

\* It has looked in the page, or in the modules.
LEMMA LookKeeps ==
    ASSUME CacheInv, NEW p \in Procs, LookInPage(p) \/ LookInModules(p)
    PROVE  MutexNext /\ CacheKept
<1>1. CASE LookInPage(p)
  <2>1. pc[p] = "page" /\ at[p] = "owned" /\ WalksTo(p, "leaveMap")
    BY <1>1 DEF LookInPage, At, Got, WalksTo, Way, LookupPlaces, dataVars
  <2>2. CacheMoves(p) /\ pc'[p] = "leaveMap" /\ on[p] = Page(PageOf(ip[p]))
    BY <2>1, WalkMoves DEF CacheInv, CallInv
  <2>3. Ends(p)
    BY <1>1, <2>1, <2>2, MutexNames DEF LookInPage, Ends, Reads, Writes
  <2>. QED  BY <2>2, <2>3, EndKeeps
<1>2. CASE LookInModules(p)
  <2>1. PICK place \in {"fromIP", "return"} :
           /\ pc[p] = "modules" /\ at[p] = "owned" /\ WalksTo(p, place)
           /\ UnlockShared(p, ModuleList) /\ NoCall(p) /\ UNCHANGED waitingWriters
    BY <1>2 DEF LookInModules, At, Got, WalksTo, Way, LookupPlaces, dataVars
  <2>2. CacheMoves(p) /\ pc'[p] = place /\ on[p] = ModuleList
    BY <2>1, WalkMoves DEF CacheInv, CallInv
  <2>3. Ends(p)
    BY <2>1, <2>2, MutexNames DEF Ends, Reads, Writes
  <2>. QED  BY <2>2, <2>3, EndKeeps
<1>. QED  BY <1>1, <1>2

\* It gives up at a deadline.
LEMMA GivesUpKeeps ==
    ASSUME CacheInv, NEW p \in Procs, LookupGivesUp(p)
    PROVE  MutexNext /\ CacheKept
<1>1. PICK place \in {"leaveMap", "return"} :
         /\ at[p] = "failed" /\ WalksTo(p, place) /\ (place = "leaveMap" <=> pc[p] = "page")
         /\ NoCall(p) /\ UNCHANGED <<state, waitingWriters, hold>>
  BY DEF LookupGivesUp, At, WalksTo, Way, LookupPlaces, dataVars
<1>2. CacheMoves(p) /\ pc'[p] = place
  BY <1>1, WalkMoves
<1>3. Rests(p)
  BY <1>1, <1>2 DEF Rests, Reads, Writes
<1>. QED  BY <1>2, <1>3, RestKeeps

\* It leaves the map behind the page, for the modules or with an answer.
LEMMA LeaveMapKeeps ==
    ASSUME CacheInv, NEW p \in Procs, LeaveMap(p)
    PROVE  MutexNext /\ CacheKept
<1>1. PICK place \in {"modules", "return"} :
         /\ pc[p] = "leaveMap" /\ WalksTo(p, place) /\ UnlockShared(p, Map)
         /\ place = "modules" => Shared(p, ModuleList)
         /\ place = "return" => UNCHANGED callVars
         /\ UNCHANGED waitingWriters
  BY DEF LeaveMap, At, WalksTo, Way, LookupPlaces, dataVars
<1>2. CacheMoves(p) /\ pc'[p] = place
  BY <1>1, WalkMoves
<1>3. CASE place = "modules"
  <2>1. PICK deadline \in BOOLEAN : Begin(p, ModuleList, "look", deadline)
    BY <1>1, <1>3, SharedBegins
  <2>2. LeavesMap(p, ModuleList, "look", deadline)
    BY <1>1, <1>2, <1>3, <2>1, MutexNames DEF LeavesMap, Fits, Reads, Writes
  <2>. QED  BY <1>2, <2>2, LeaveKeeps
<1>4. CASE place = "return"
  <2>1. Begin(p, NoMutex, "idle", FALSE)
    BY <1>1, <1>4, StaysIdle DEF CacheInv, CallInv, Reads, Writes
  <2>2. LeavesMap(p, NoMutex, "idle", FALSE)
    BY <1>1, <1>2, <1>4, <2>1 DEF LeavesMap, Fits, Reads, Writes
  <2>. QED  BY <1>2, <2>2, LeaveKeeps
<1>. QED  BY <1>3, <1>4

\* Any step of a lookup.
LEMMA LookupKeeps ==
    ASSUME CacheInv, NEW p \in Procs, LookupStep(p)
    PROVE  MutexNext /\ CacheKept
<1>1. CASE LookupReturns(p)
  <2>1. /\ pc[p] = "return" /\ To(p, "idle") /\ ip' = [ip EXCEPT ![p] = 0]
        /\ UNCHANGED <<mutexVars, created, todo, page, blocked>> /\ DOMAIN ip = Lookups
    BY <1>1 DEF LookupReturns, At, dataVars, CacheInv, CacheTypeOK
  <2>2. DOMAIN ip' = Lookups /\ \A q \in Lookups \ {p} : ip'[q] = ip[q]
    BY <2>1
  <2>. QED  BY <2>1, <2>2, ReturnKeeps
<1>. QED  BY <1>1, LookForPageKeeps, LookKeeps, GivesUpKeeps, LeaveMapKeeps
          DEF LookupStep

\* What the invariant speaks of has not changed.
LEMMA CacheStutters ==
    ASSUME CacheInv, UNCHANGED <<mutexVars, pc, todo, page, ip, blocked, created>>
    PROVE  [MutexNext]_mutexVars /\ CacheKept
<1>1. UNCHANGED <<state, waitingWriters, hold, at, on, timed, pc, todo, page, ip, blocked, created>>
  BY DEF mutexVars, callVars
<1>2. CacheTypeOK' /\ HandlerInv'
  BY <1>1 DEF CacheInv, CacheTypeOK, HandlerInv
<1>3. ASSUME NEW p \in Procs PROVE (CallInv(p) /\ HoldInv(p) /\ RoleInv(p))'
  <2>1. CallInv(p) /\ HoldInv(p) /\ RoleInv(p)
    BY DEF CacheInv
  <2>2. CallInv(p)' /\ HoldInv(p)'
    BY <1>1, <2>1, ZenonT(60) DEF CallInv, HoldInv
  <2>3. RoleInv(p)'
    BY <1>1, <2>1 DEF RoleInv
  <2>. QED  BY <2>2, <2>3
<1>. QED  BY <1>1, <1>2, <1>3 DEF CacheKept, CacheInv, mutexVars

\* The ranges of compiled code, and the module's, are known to the cache.
LEMMA RangesAreKnown ==
    /\ \A c \in Code : c.ranges \in Seq(AllRanges)
    /\ <<Module>> \in Seq(AllRanges)
<1>1. ASSUME NEW c \in Code PROVE c.ranges \in Seq(AllRanges)
  <2>1. c.ranges \in Seq(Nat \X Nat)
    BY CacheAssumption
  <2>2. \A i \in 1..Len(c.ranges) : c.ranges[i] \in AllRanges
    BY <2>1 DEF AllRanges, Range
  <2>3. c.ranges \in [1..Len(c.ranges) -> AllRanges] /\ Len(c.ranges) \in Nat
    BY <2>1, <2>2
  <2>. QED  BY <2>3
<1>2. Module \in AllRanges
  BY DEF AllRanges
<1>. QED  BY <1>1, <1>2

\* AddFunctionRangesToCache begins.
LEMMA AddBegins ==
    ASSUME CacheInv, NEW p \in Procs, NEW c, c.ranges \in Seq(AllRanges),
           AddFunctionRanges(p, c), ~Interrupted(p), pc[p] \in {"idle", "fromIP"},
           p \in Lookups => pc[p] = "fromIP",
           UNCHANGED <<mutexVars, created, ip>>
    PROVE  MutexNext /\ CacheKept
<1>1. FirstPage(c.ranges) \in Nat /\ (c.ranges # <<>> => FirstPage(c.ranges) \in PagesOf(Head(c.ranges)))
  BY FirstPageIsKnown
<1>2. /\ pc' = [pc EXCEPT ![p] = "next"] /\ todo' = [todo EXCEPT ![p] = c.ranges]
      /\ page' = [page EXCEPT ![p] = FirstPage(c.ranges)] /\ blocked' = blocked \cup {p}
      /\ pc \in [Procs -> CachePlaces] /\ todo \in [Procs -> Seq(AllRanges)]
      /\ page \in [Procs -> Nat]
  BY DEF AddFunctionRanges, To, CacheInv, CacheTypeOK
<1>3. /\ pc'[p] = "next" /\ todo'[p] = c.ranges /\ page'[p] = FirstPage(c.ranges)
      /\ p \in blocked' /\ AloneInCache(p)
  BY <1>2 DEF AloneInCache
<1>4. CacheTypeOK'
  BY <1>1, <1>2 DEF CacheTypeOK, CacheInv, CachePlaces, AddPlaces
<1>5. HandlerInv'
  BY <1>2, <1>3, HandlersKeep, ProcNames
<1>6. RoleInv(p)'
  BY <1>1, <1>3 DEF RoleInv, AddPlaces, ModulePlaces, LookupPlaces
<1>7. Rests(p)
  BY <1>3 DEF Rests, mutexVars, Reads, Writes
<1>. QED  BY <1>3, <1>4, <1>5, <1>6, <1>7, RestKeeps DEF CacheMoves

\* A callback of the loader begins.
LEMMA ModuleBegins ==
    ASSUME CacheInv, NEW t \in Threads, NEW place \in {"load", "unload"}, ModuleCallback(t, place)
    PROVE  [MutexNext]_mutexVars /\ CacheKept
<1>. DEFINE p == CodeOf(t)
<1>1. CASE UNCHANGED <<callVars, pc, blocked>>
  <2>1. UNCHANGED <<mutexVars, pc, todo, page, ip, blocked, created>>
    BY <1>1 DEF ModuleCallback, mutexVars, dataVars
  <2>. QED  BY <2>1, CacheStutters
<1>2. CASE blocked' = blocked \cup {p} /\ Lock(p, ModuleList) /\ To(p, place)
  <2>1. /\ p \in Procs /\ p \notin Lookups /\ ~Interrupted(p) /\ pc[p] = "idle" /\ RoleInv(p)
        /\ UNCHANGED <<state, waitingWriters, hold, created, todo, page, ip>>
    BY ProcNames DEF CacheInv, ModuleCallback, At, dataVars
  <2>. HIDE DEF p
  <2>2. pc' = [pc EXCEPT ![p] = place] /\ pc \in [Procs -> CachePlaces]
    BY <1>2 DEF To, CacheInv, CacheTypeOK
  <2>3. AloneInCache(p) /\ pc'[p] = place
    BY <1>2, <2>1, <2>2 DEF AloneInCache
  <2>4. CacheTypeOK'
    BY <2>1, <2>2 DEF CacheTypeOK, CacheInv, CachePlaces, ModulePlaces
  <2>5. HandlerInv'
    BY <1>2, <2>1, <2>3, HandlersKeep, ProcNames
  <2>6. RoleInv(p)'
    BY <1>2, <2>1, <2>3 DEF RoleInv, AddPlaces, ModulePlaces, LookupPlaces
  <2>7. Begins(p, ModuleList, "try", FALSE)
    BY <1>2, <2>1, <2>3, MutexNames DEF Lock, Begins, Fits, Reads, Writes
  <2>. QED  BY <2>1, <2>3, <2>4, <2>5, <2>6, <2>7, BeginKeeps DEF CacheMoves
<1>. QED  BY <1>1, <1>2 DEF ModuleCallback

\* A lookup begins, in a signal handler on a thread that does not block signals
\* or in the resolver.
LEMMA LookupStarts ==
    ASSUME CacheInv, NEW p \in Lookups, NEW a, LookupBegins(p, a),
           \A t \in Sampled : p = HandlerOf(t) => CodeOf(t) \notin blocked
    PROVE  MutexNext /\ CacheKept
<1>1. p \in Procs /\ pc[p] = "idle" /\ RoleInv(p)
  BY ProcNames DEF CacheInv, LookupBegins, At, Lookups
<1>2. /\ UNCHANGED <<state, waitingWriters, hold, created, todo, page, blocked>> /\ Shared(p, Map)
      /\ pc' = [pc EXCEPT ![p] = "map"] /\ ip' = [ip EXCEPT ![p] = a] /\ pc \in [Procs -> CachePlaces]
  BY DEF LookupBegins, To, dataVars, CacheInv, CacheTypeOK
<1>3. PICK deadline \in BOOLEAN : Begin(p, Map, "look", deadline)
  BY <1>2, SharedBegins
<1>4. AloneInCache(p) /\ pc'[p] = "map"
  BY <1>1, <1>2 DEF AloneInCache, CacheInv, CacheTypeOK
<1>5. CacheTypeOK'
  BY <1>1, <1>2 DEF CacheTypeOK, CacheInv, CachePlaces, LookupPlaces
<1>6. HandlerInv'
  BY <1>1, <1>2, <1>4, HandlersKeep
<1>7. RoleInv(p)'
  BY <1>1, <1>2, <1>4 DEF RoleInv, AddPlaces, ModulePlaces, LookupPlaces
<1>8. Begins(p, Map, "look", deadline)
  BY <1>1, <1>2, <1>3, <1>4, MutexNames DEF Begins, Fits, Reads, Writes
<1>. QED  BY <1>1, <1>4, <1>5, <1>6, <1>7, <1>8, BeginKeeps DEF CacheMoves

\* GetFunctionFromIP: the resolver goes on to extend the cache, or is done.
LEMMA ResolverKeeps ==
    ASSUME CacheInv, GetFunctionFromIP
    PROVE  [MutexNext]_mutexVars /\ CacheKept
<1>1. /\ Resolver \in Procs /\ ~Interrupted(Resolver) /\ pc[Resolver] = "fromIP"
      /\ UNCHANGED <<mutexVars, created, ip>>
  BY ProcNames DEF GetFunctionFromIP, At, dataVars
<1>2. CASE AddFunctionRanges(Resolver, [func |-> Precompiled, ranges |-> <<Module>>])
  BY <1>1, <1>2, AddBegins, RangesAreKnown
<1>3. CASE UNCHANGED <<pc, todo, page, blocked>>
  BY <1>1, <1>3, CacheStutters
<1>4. CASE To(Resolver, "return") /\ UNCHANGED <<todo, page, blocked>>
  <2>1. CacheMoves(Resolver) /\ pc'[Resolver] = "return"
    BY <1>1, <1>4, WalkMoves DEF WalksTo, Way
  <2>2. Rests(Resolver)
    BY <1>1, <2>1 DEF Rests, mutexVars, Reads, Writes
  <2>. QED  BY <1>1, <2>1, <2>2, RestKeeps
<1>. QED  BY <1>2, <1>3, <1>4 DEF GetFunctionFromIP

\* Every step of the cache is one of its mutexes, or none, and keeps the invariant.
LEMMA CacheStep ==
    ASSUME CacheInv, [Next]_vars
    PROVE  [MutexNext]_mutexVars /\ CacheKept
<1>1. ASSUME NEW t \in Threads, NEW c \in Code, AddFunction(t, c)
      PROVE  [MutexNext]_mutexVars /\ CacheKept
  <2>1. CASE UNCHANGED <<localVars, blocked>>
    <3>1. UNCHANGED <<mutexVars, pc, todo, page, ip, blocked, created>>
      BY <1>1, <2>1 DEF AddFunction, localVars, dataVars
    <3>. QED  BY <3>1, CacheStutters
  <2>2. CASE AddFunctionRanges(CodeOf(t), c) /\ UNCHANGED <<ip, answer>>
    <3>1. /\ ~Interrupted(CodeOf(t)) /\ pc[CodeOf(t)] = "idle"
          /\ UNCHANGED <<mutexVars, created, ip>>
      BY <1>1, <2>2 DEF AddFunction, At, dataVars
    <3>2. c.ranges \in Seq(AllRanges) /\ CodeOf(t) \in Procs /\ CodeOf(t) \notin Lookups
      BY RangesAreKnown, ProcNames
    <3>. QED  BY <2>2, <3>1, <3>2, AddBegins
  <2>. QED  BY <1>1, <2>1, <2>2 DEF AddFunction
<1>2. ASSUME NEW t \in Threads, AddModule(t) \/ RemoveModule(t)
      PROVE  [MutexNext]_mutexVars /\ CacheKept
  BY <1>2, ModuleBegins DEF AddModule, RemoveModule
<1>3. ASSUME NEW t \in Sampled, Signal(t) PROVE MutexNext /\ CacheKept
  <2>1. PICK a \in Frames : LookupBegins(HandlerOf(t), a)
    BY <1>3 DEF Signal
  <2>2. \A u \in Sampled : HandlerOf(t) = HandlerOf(u) => CodeOf(u) \notin blocked
    BY <1>3, ProcNames DEF Signal
  <2>. QED  BY <2>1, <2>2, LookupStarts, ProcNames
<1>4. CASE GetFunctionInfo
  BY <1>4, LookupStarts, ProcNames DEF GetFunctionInfo
<1>5. ASSUME NEW p \in Procs, Step(p) PROVE [MutexNext]_mutexVars /\ CacheKept
  BY <1>5, LockingKeeps, AddKeeps, ModuleKeeps, LookupKeeps, ResolverKeeps DEF Step
<1>6. CASE UNCHANGED vars
  <2>1. UNCHANGED <<mutexVars, pc, todo, page, ip, blocked, created>>
    BY <1>6 DEF vars, localVars, dataVars
  <2>. QED  BY <2>1, CacheStutters
<1>. QED  BY <1>1, <1>2, <1>3, <1>4, <1>5, <1>6 DEF Next

-----------------------------------------------------------------------------
(***************************************************************************)
(* The cache and its mutexes.                                              *)
(***************************************************************************)
\* What is proved of the mutexes alone, for any callers.
Alone == INSTANCE ReaderWriterSpinningMutexProofs

\* Those are the mutexes of the cache.
LEMMA SameMutexes ==
    /\ MutexInit <=> Alone!MutexInit
    /\ MutexInv <=> Alone!MutexInv
    /\ MutexInv' <=> Alone!MutexInv'
    /\ [MutexNext]_mutexVars <=> [Alone!MutexNext]_Alone!mutexVars
<1>1. MutexInit <=> Alone!MutexInit
  BY ZenonT(60) DEF MutexInit, Alone!MutexInit, kFree, Alone!kFree
<1>2. (MutexInv <=> Alone!MutexInv) /\ (MutexInv' <=> Alone!MutexInv')
  BY ZenonT(60)
     DEF MutexInv, MutexTypeOK, AsksForOther, WordsAreExact, Readers, Writers, WaitingOn, Waiting,
         Returned, Places, kExclusive, Cardinality,
         Alone!MutexInv, Alone!MutexTypeOK, Alone!AsksForOther, Alone!WordsAreExact,
         Alone!Readers, Alone!Writers, Alone!WaitingOn, Alone!Waiting, Alone!Returned,
         Alone!Places, Alone!kExclusive, Alone!Cardinality
<1>3. MutexNext <=> Alone!MutexNext
  BY ZenonT(60)
     DEF MutexNext, MutexStep, LockTimesOut, Asks, GivesBack, CallerMoves, TryLock,
         WaitingWriterGuard, LockSlow, WaitingWriterLeaves, Look, TryLockSharedOnce,
         LockSharedTimesOut, Goes, Holds, Begin, NoCall, Lock, TryLockFor, LockShared,
         TryLockSharedFor, Unlock, UnlockShared, Returned, kFree, kExclusive,
         Alone!MutexNext, Alone!MutexStep, Alone!LockTimesOut, Alone!Asks, Alone!GivesBack,
         Alone!CallerMoves, Alone!TryLock, Alone!WaitingWriterGuard, Alone!LockSlow,
         Alone!WaitingWriterLeaves, Alone!Look, Alone!TryLockSharedOnce,
         Alone!LockSharedTimesOut, Alone!Goes, Alone!Holds, Alone!Begin, Alone!NoCall,
         Alone!Lock, Alone!TryLockFor, Alone!LockShared, Alone!TryLockSharedFor, Alone!Unlock,
         Alone!UnlockShared, Alone!Returned, Alone!kFree, Alone!kExclusive
<1>4. UNCHANGED mutexVars <=> UNCHANGED Alone!mutexVars
  BY DEF mutexVars, callVars, Alone!mutexVars, Alone!callVars
<1>. QED  BY <1>1, <1>2, <1>3, <1>4, ZenonT(60)

\* And they are there under the same assumption.
LEMMA SameAssumption == Alone!IsFiniteSet(Procs) /\ NoMutex \notin Mutexes
BY MutexAssumption, ZenonT(60) DEF IsFiniteSet, Alone!IsFiniteSet

\* Every step of the cache is one of its mutexes, or none, and keeps the
\* invariants of both.
LEMMA CacheKeeps ==
    ASSUME CacheInv, [Next]_vars
    PROVE  [MutexNext]_mutexVars /\ CacheInv'
<1>1. MutexInv /\ [MutexNext]_mutexVars /\ CacheKept
  BY CacheStep DEF CacheInv
<1>2. MutexInv'
  BY <1>1, SameMutexes, SameAssumption, Alone!NextKeepsInv, ZenonT(60)
<1>. QED  BY <1>1, <1>2 DEF CacheKept

\* At first nobody is in the cache, and its mutexes are free.
LEMMA InitCacheInv == Init => CacheInv
<1>. SUFFICES ASSUME Init PROVE CacheInv
  OBVIOUS
<1>1. MutexInv
  BY SameMutexes, SameAssumption, Alone!InitInv, ZenonT(60) DEF Init
<1>2. CacheTypeOK
  BY DEF Init, CacheTypeOK, CachePlaces
<1>3. HandlerInv
  BY ProcNames DEF Init, HandlerInv
<1>4. ASSUME NEW p \in Procs PROVE CallInv(p) /\ HoldInv(p) /\ RoleInv(p)
  <2>1. /\ pc[p] = "idle" /\ todo[p] = <<>> /\ at[p] = "idle" /\ on[p] = NoMutex
        /\ timed[p] = FALSE /\ \A m \in Mutexes : hold[m][p] = "none"
    BY <1>4 DEF Init, MutexInit
  <2>. QED  BY <2>1, MutexNames, ZenonT(60)
            DEF CallInv, HoldInv, RoleInv, Reads, Writes, AddPlaces, ModulePlaces, LookupPlaces
<1>. QED  BY <1>1, <1>2, <1>3, <1>4, ZenonT(60) DEF CacheInv

\* What each thread, handler and the resolver hold and ask for follows from where
\* they are in the code of ManagedCodeCache, whatever is compiled, loaded, unloaded
\* and looked up meanwhile.
THEOREM CacheInvariance == Spec => []CacheInv
<1>. QED  BY InitCacheInv, CacheKeeps, PTL DEF Spec

\* The cache calls its mutexes as they ask to be called: it locks none that the
\* thread already has, and unlocks in the mode it locked; what it does to them is
\* a behaviour of ReaderWriterSpinningMutex under arbitrary callers.
THEOREM CacheCallsMutexes == Spec => MutexSpec
<1>1. Init => MutexInit
  BY DEF Init
<1>2. CacheInv /\ [Next]_vars => [MutexNext]_mutexVars
  BY CacheKeeps
<1>. QED  BY <1>1, <1>2, CacheInvariance, PTL DEF Spec, MutexSpec

\* In the cache, too, the words of every mutex are exact.
THEOREM CacheMutexesExact == Spec => []MutexInv
<1>1. CacheInv => MutexInv
  BY DEF CacheInv
<1>. QED  BY <1>1, CacheInvariance, PTL

\* In the cache, too, the mutexes are reader-writer locks.
THEOREM CacheLocksHold == Spec => ImplementsLock
<1>1. /\ MutexInit <=> Alone!MutexInit
      /\ [MutexNext]_mutexVars <=> [Alone!MutexNext]_Alone!mutexVars
  BY SameMutexes
<1>2. RW!Init <=> Alone!RW!Init
  BY DEF RW!Init, Alone!RW!Init
<1>3. [RW!Next]_hold <=> [Alone!RW!Next]_hold
  BY DEF RW!Next, RW!AcquireShared, RW!AcquireExclusive, RW!Release, RW!Takes,
         Alone!RW!Next, Alone!RW!AcquireShared, Alone!RW!AcquireExclusive, Alone!RW!Release,
         Alone!RW!Takes
<1>4. Alone!MutexSpec => Alone!ImplementsLock
  BY SameAssumption, Alone!Implementation, ZenonT(60)
<1>. QED  BY <1>1, <1>2, <1>3, <1>4, CacheCallsMutexes, PTL
          DEF MutexSpec, ImplementsLock, RW!Spec, Alone!MutexSpec, Alone!ImplementsLock,
              Alone!RW!Spec

\* ScopedProfilerSignalBlocker: no profiler's signal interrupts a thread that has
\* or waits for a lock of the cache.
THEOREM HandlersWaitForOthers == Spec => []HandlerWaitsForOthers
<1>1. CacheInv => HandlerWaitsForOthers
  <2>. SUFFICES ASSUME CacheInv, NEW t \in Sampled, pc[HandlerOf(t)] # "idle", CodeOf(t) \in Procs
                PROVE  at[CodeOf(t)] = "idle" /\ \A m \in Mutexes : hold[m][CodeOf(t)] = "none"
    BY ZenonT(60) DEF HandlerWaitsForOthers
  <2>. DEFINE p == CodeOf(t)
  <2>1. p \notin blocked /\ p \notin Lookups /\ p # Resolver
    BY ProcNames, ZenonT(60) DEF CacheInv, HandlerInv, Lookups
  <2>2. CallInv(p) /\ HoldInv(p) /\ RoleInv(p) /\ pc[p] \in CachePlaces
    BY DEF CacheInv, CacheTypeOK
  <2>3. pc[p] = "idle"
    BY <2>1, <2>2, ZenonT(60) DEF RoleInv, CachePlaces
  <2>. QED  BY <2>2, <2>3, MutexNames, ZenonT(60) DEF CallInv, HoldInv, Reads, Writes
<1>. QED  BY <1>1, CacheInvariance, PTL
=============================================================================
