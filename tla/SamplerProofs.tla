----------------------------- MODULE SamplerProofs -----------------------------
(***************************************************************************)
(* What the sampler's thread goes through, and how.                        *)
(*                                                                         *)
(* The list of threads (ManagedThreadList), for any set of threads and of  *)
(* OS threads, whatever the runtime tells and in whatever order: the list  *)
(* and its two indexes hold the same threads, and no iterator returns      *)
(* another thread twice before one that waits for its turn.                *)
(*                                                                         *)
(* The sampling of each of them (LoopManager), for any set of threads,     *)
(* thresholds and number of periods: the watcher's abort is for the        *)
(* collection in progress, sampler and watcher between them leave no       *)
(* thread suspended, and the deadlocks held against a thread are those of  *)
(* the current period.                                                     *)
(***************************************************************************)
EXTENDS ManagedThreadList, LoopManager, TLAPS

USE ZenonT(5), SMTT(30)   \* the provers, in this order

-----------------------------------------------------------------------------
(***************************************************************************)
(* The list of threads that the sampler goes through.                      *)
(***************************************************************************)
\* A sequence without its n-th element.
LEMMA WithoutOne ==
    ASSUME NEW S, NEW s \in Seq(S), NEW n \in 1..Len(s), NEW r, r = Erase(s, n)
    PROVE  /\ r \in Seq(S) /\ Len(r) = Len(s) - 1
           /\ \A k \in 1..(Len(s) - 1) : r[k] = IF k < n THEN s[k] ELSE s[k + 1]
<1>. DEFINE l == SubSeq(s, 1, n - 1)
            m == SubSeq(s, n + 1, Len(s))
<1>1. l \in Seq(S) /\ Len(l) = n - 1 /\ \A k \in 1..(n - 1) : l[k] = s[k]
  OBVIOUS
<1>2. m \in Seq(S) /\ Len(m) = Len(s) - n /\ \A k \in 1..(Len(s) - n) : m[k] = s[n + k]
  OBVIOUS
<1>3. r = l \o m
  BY DEF Erase
<1>. HIDE DEF l, m
<1>4. r \in Seq(S) /\ Len(r) = Len(s) - 1
  <2>1. l \in Seq(S) /\ m \in Seq(S)
    BY <1>1, <1>2
  <2>2. r \in Seq(S) /\ Len(r) = Len(l) + Len(m)
    BY ONLY <2>1, <1>3
  <2>. QED  BY <1>1, <1>2, <2>2
<1>5. ASSUME NEW k \in 1..(Len(s) - 1) PROVE r[k] = IF k < n THEN s[k] ELSE s[k + 1]
  <2>1. r[k] = IF k <= n - 1 THEN l[k] ELSE m[k - (n - 1)]
    BY <1>1, <1>2, <1>3
  <2>2. CASE k < n
    BY <1>1, <2>1, <2>2
  <2>3. CASE k >= n
    <3>1. k - (n - 1) \in 1..(Len(s) - n) /\ n + (k - (n - 1)) = k + 1
      BY <2>3
    <3>. QED  BY <1>2, <2>1, <2>3, <3>1
  <2>. QED  BY <2>2, <2>3
<1>. QED  BY <1>4, <1>5

\* A thread is added at the end.
LEMMA ListGrows ==
    ASSUME threads \in Seq(ClrThreads), IsInjective(threads),
           NEW t \in ClrThreads, t \notin Listed, threads' = Append(threads, t)
    PROVE  /\ threads' \in Seq(ClrThreads) /\ Len(threads') = Len(threads) + 1
           /\ \A k \in 1..Len(threads) : threads'[k] = threads[k]
           /\ threads'[Len(threads) + 1] = t
           /\ IsInjective(threads') /\ Listed' = Listed \cup {t}
<1>1. /\ threads' \in Seq(ClrThreads) /\ Len(threads') = Len(threads) + 1
      /\ DOMAIN threads' = 1..(Len(threads) + 1) /\ DOMAIN threads = 1..Len(threads)
      /\ \A k \in 1..Len(threads) : threads'[k] = threads[k]
      /\ threads'[Len(threads) + 1] = t
  OBVIOUS
<1>2. IsInjective(threads')
  BY <1>1 DEF IsInjective, Listed, Range
<1>3. Listed' = Listed \cup {t}
  BY <1>1 DEF Listed, Range
<1>. QED  BY <1>1, <1>2, <1>3

\* A thread is removed, wherever it is.
LEMMA ListShrinks ==
    ASSUME threads \in Seq(ClrThreads), IsInjective(threads),
           NEW t \in Listed, threads' = Erase(threads, IndexOf(t))
    PROVE  /\ IndexOf(t) \in 1..Len(threads) /\ threads[IndexOf(t)] = t
           /\ threads' \in Seq(ClrThreads) /\ Len(threads') = Len(threads) - 1
           /\ \A k \in 1..(Len(threads) - 1) :
                 threads'[k] = IF k < IndexOf(t) THEN threads[k] ELSE threads[k + 1]
           /\ IsInjective(threads') /\ Listed' = Listed \ {t}
<1>. DEFINE n == IndexOf(t)
<1>1. n \in 1..Len(threads) /\ threads[n] = t
  BY DEF IndexOf, Listed, Range
<1>2. /\ threads' \in Seq(ClrThreads) /\ Len(threads') = Len(threads) - 1
      /\ \A k \in 1..(Len(threads) - 1) : threads'[k] = IF k < n THEN threads[k] ELSE threads[k + 1]
  BY <1>1, WithoutOne, ZenonT(60)
<1>. HIDE DEF n
<1>. DEFINE Old(k) == IF k < n THEN k ELSE k + 1
<1>a. /\ DOMAIN threads = 1..Len(threads) /\ DOMAIN threads' = 1..(Len(threads) - 1)
      /\ \A k \in 1..(Len(threads) - 1) :
            Old(k) \in 1..Len(threads) /\ Old(k) # n /\ threads'[k] = threads[Old(k)]
      /\ \A j, k \in 1..(Len(threads) - 1) : Old(j) = Old(k) => j = k
  BY <1>1, <1>2
<1>. HIDE DEF Old
<1>3. IsInjective(threads')
  BY <1>a DEF IsInjective
<1>4. Listed' = Listed \ {t}
  <2>1. ASSUME NEW u \in Listed' PROVE u \in Listed \ {t}
    <3>1. PICK k \in 1..(Len(threads) - 1) : u = threads'[k]
      BY <1>2, <2>1 DEF Listed, Range
    <3>. QED  BY <1>1, <1>a, <3>1 DEF Listed, Range, IsInjective
  <2>2. ASSUME NEW u \in Listed \ {t} PROVE u \in Listed'
    <3>1. PICK k \in 1..Len(threads) : u = threads[k] /\ k # n
      BY <1>1, <2>2 DEF Listed, Range
    <3>2. CASE k < n
      <4>1. k \in 1..(Len(threads) - 1) /\ threads'[k] = u
        BY <1>1, <1>2, <3>1, <3>2
      <4>. QED  BY <1>2, <4>1 DEF Listed, Range
    <3>3. CASE k > n
      <4>1. k - 1 \in 1..(Len(threads) - 1) /\ threads'[k - 1] = u
        BY <1>1, <1>2, <3>1, <3>3
      <4>. QED  BY <1>2, <4>1 DEF Listed, Range
    <3>. QED  BY <1>1, <3>1, <3>2, <3>3
  <2>. QED  BY <2>1, <2>2
<1>. QED  BY <1>1, <1>2, <1>3, <1>4 DEF n

\* A step that adds t at the most, and after which the same threads have an OS
\* thread.
LEMMA AddingKeepsList ==
    ASSUME ListInv, NEW t \in ClrThreads,
           \/ UNCHANGED <<threads, byClrId>>
           \/ t \notin byClrId /\ threads' = Append(threads, t) /\ byClrId' = byClrId \cup {t},
           UNCHANGED <<kind, byOsId, osId, handle>>,
           clr' \in [ClrThreads -> {"none", "created", "assigning", "assigned", "native"}],
           \A u \in ClrThreads : clr'[u] = "assigned" <=> clr[u] = "assigned"
    PROVE  ListInv'
<1>1. CASE UNCHANGED <<threads, byClrId>>
  BY <1>1 DEF ListInv, IndexesAgree, Listed
<1>2. CASE t \notin byClrId /\ threads' = Append(threads, t) /\ byClrId' = byClrId \cup {t}
  <2>1. /\ threads' \in Seq(ClrThreads) /\ IsInjective(threads')
        /\ Listed' = Listed \cup {t}
    BY <1>2, ListGrows DEF ListInv, IndexesAgree
  <2>2. t \notin Listed /\ byClrId' = Listed'
    BY <1>2, <2>1 DEF ListInv, IndexesAgree
  <2>3. kind = "managed" => osId[t] = None
    BY <2>2 DEF ListInv
  <2>4. ASSUME NEW o \in OsThreads, NEW u \in ClrThreads
        PROVE  byOsId'[o] = u <=> kind' = "managed" /\ u \in Listed' /\ osId'[u] = o
    BY <2>1, <2>3, ManagedThreadListAssumption DEF ListInv, IndexesAgree
  <2>. QED  BY <2>1, <2>2, <2>4 DEF ListInv, IndexesAgree
<1>. QED  BY <1>1, <1>2

\* SetThreadOsInfo on the managed list, which has the thread by then.
LEMMA AssigningKeepsList ==
    ASSUME ListInv, NEW t \in ClrThreads, NEW o \in OsThreads, OsThreadIsAssigned(t, o)
    PROVE  ListInv'
<1>. USE DEF OsThreadIsAssigned, SetThreadOsInfo, GetOrCreate
<1>1. osId[t] = None
  BY DEF ListInv
<1>2. CASE kind # "managed"
  <2>1. Listed' = Listed /\ UNCHANGED <<threads, byClrId, byOsId, kind>>
    BY <1>2 DEF Listed
  <2>. QED  BY <1>2, <2>1 DEF ListInv, IndexesAgree
<1>3. CASE kind = "managed"
  <2>1. /\ threads' \in Seq(ClrThreads) /\ IsInjective(threads')
        /\ Listed' = Listed \cup {t} /\ byClrId' = Listed'
    <3>1. CASE t \in byClrId
      BY <1>3, <3>1 DEF ListInv, IndexesAgree, Listed
    <3>2. CASE t \notin byClrId
      BY <1>3, <3>2, ListGrows DEF ListInv, IndexesAgree
    <3>. QED  BY <3>1, <3>2
  <2>2. /\ byOsId' = [byOsId EXCEPT ![o] = t] /\ osId' = [osId EXCEPT ![t] = o]
        /\ handle' = [handle EXCEPT ![t] = TRUE] /\ clr' = [clr EXCEPT ![t] = "assigned"] /\ kind' = kind
    BY <1>3
  <2>3. \A u \in ClrThreads : osId[u] # o
    BY <1>1, ManagedThreadListAssumption DEF ListInv
  <2>4. ASSUME NEW q \in OsThreads, NEW u \in ClrThreads
        PROVE  byOsId'[q] = u <=> kind' = "managed" /\ u \in Listed' /\ osId'[u] = q
    <3>1. CASE q = o
      BY <1>3, <2>1, <2>2, <2>3, <3>1 DEF ListInv
    <3>2. CASE q # o
      <4>1. byOsId'[q] = byOsId[q] /\ osId[t] # q
        BY <1>1, <2>2, <3>2, ManagedThreadListAssumption DEF ListInv
      <4>2. CASE u = t
        BY <1>1, <2>2, <3>2, <4>1, <4>2 DEF ListInv, IndexesAgree
      <4>3. CASE u # t
        BY <1>3, <2>1, <2>2, <4>1, <4>3 DEF ListInv, IndexesAgree
      <4>. QED  BY <4>2, <4>3
    <3>. QED  BY <3>1, <3>2
  <2>5. /\ byOsId' \in [OsThreads -> ClrThreads \cup {None}] /\ osId' \in [ClrThreads -> OsThreads \cup {None}]
        /\ handle' \in [ClrThreads -> BOOLEAN] /\ kind' \in {"managed", "codeHotspots"}
        /\ clr' \in [ClrThreads -> {"none", "created", "assigning", "assigned", "native"}]
    BY <2>2 DEF ListInv
  <2>6. ASSUME NEW u \in ClrThreads
        PROVE  /\ osId'[u] # None \/ handle'[u] => clr'[u] = "assigned"
               /\ kind' = "managed" /\ clr'[u] = "assigned" => u \in Listed'
    BY <1>3, <2>1, <2>2 DEF ListInv
  <2>. QED  BY <2>1, <2>4, <2>5, <2>6 DEF ListInv, IndexesAgree
<1>. QED  BY <1>2, <1>3

\* UnregisterThread.
LEMMA DestroyingKeepsList ==
    ASSUME ListInv, NEW t \in ClrThreads, ThreadDestroyed(t)
    PROVE  ListInv'
<1>. USE DEF ThreadDestroyed, UnregisterThread
<1>1. /\ threads' \in Seq(ClrThreads) /\ IsInjective(threads')
      /\ Listed' = Listed \ {t} /\ byClrId' = Listed'
  <2>1. CASE t \in Listed
    BY <2>1, ListShrinks DEF ListInv, IndexesAgree
  <2>2. CASE t \notin Listed
    BY <2>2 DEF ListInv, IndexesAgree, Listed
  <2>. QED  BY <2>1, <2>2
<1>2. /\ osId' = [osId EXCEPT ![t] = None] /\ handle' = [handle EXCEPT ![t] = FALSE]
      /\ clr' = [clr EXCEPT ![t] = "none"] /\ kind' = kind
  OBVIOUS
<1>3. /\ byOsId' \in [OsThreads -> ClrThreads \cup {None}]
      /\ \A q \in OsThreads :
            byOsId'[q] = IF t \in Listed /\ q = osId[t] THEN None ELSE byOsId[q]
  <2>1. CASE t \in Listed
    <3>1. byOsId' = [q \in OsThreads |-> IF q = osId[t] THEN None ELSE byOsId[q]]
      BY <2>1 DEF EraseOsId
    <3>. QED  BY <2>1, <3>1 DEF ListInv
  <2>2. CASE t \notin Listed
    BY <2>2 DEF ListInv
  <2>. QED  BY <2>1, <2>2
<1>4. ASSUME NEW q \in OsThreads, NEW u \in ClrThreads
      PROVE  byOsId'[q] = u <=> kind' = "managed" /\ u \in Listed' /\ osId'[u] = q
  <2>1. /\ byOsId[q] = u <=> kind = "managed" /\ u \in Listed /\ osId[u] = q
        /\ byOsId[q] = t <=> kind = "managed" /\ t \in Listed /\ osId[t] = q
    BY DEF ListInv, IndexesAgree
  <2>2. CASE u = t
    <3>1. u \notin Listed'
      BY <1>1, <2>2
    <3>2. byOsId'[q] # t
      BY <1>3, <2>1, ManagedThreadListAssumption
    <3>. QED  BY <2>2, <3>1, <3>2
  <2>3. CASE u # t
    <3>1. osId'[u] = osId[u] /\ (u \in Listed' <=> u \in Listed)
      BY <1>1, <1>2, <2>3 DEF ListInv
    <3>2. CASE t \in Listed /\ q = osId[t] /\ kind = "managed"
      BY <1>2, <1>3, <2>1, <2>3, <3>1, <3>2, ManagedThreadListAssumption
    <3>3. CASE ~(t \in Listed /\ q = osId[t])
      BY <1>2, <1>3, <2>1, <3>1, <3>3
    <3>4. CASE kind # "managed"
      BY <1>2, <1>3, <2>1, <3>4, ManagedThreadListAssumption
    <3>. QED  BY <3>2, <3>3, <3>4
  <2>. QED  BY <2>2, <2>3
<1>5. /\ osId' \in [ClrThreads -> OsThreads \cup {None}]
      /\ handle' \in [ClrThreads -> BOOLEAN] /\ kind' \in {"managed", "codeHotspots"}
      /\ clr' \in [ClrThreads -> {"none", "created", "assigning", "assigned", "native"}]
  BY <1>2 DEF ListInv
<1>6. ASSUME NEW u \in ClrThreads
      PROVE  /\ osId'[u] # None \/ handle'[u] => clr'[u] = "assigned"
             /\ kind' = "managed" /\ clr'[u] = "assigned" => u \in Listed'
  BY <1>1, <1>2 DEF ListInv
<1>. QED  BY <1>1, <1>3, <1>4, <1>5, <1>6 DEF ListInv, IndexesAgree

\* Every step keeps the list and its indexes.
LEMMA ListStep ==
    ASSUME ListInv, [ListNext]_threadListVars
    PROVE  ListInv'
<1>1. ASSUME UNCHANGED <<kind, threads, byClrId, byOsId, osId, handle, clr>> PROVE ListInv'
  BY <1>1 DEF ListInv, IndexesAgree, Listed
<1>2. ASSUME NEW t \in ClrThreads, ThreadCreated(t) PROVE ListInv'
  <2>1. /\ clr' \in [ClrThreads -> {"none", "created", "assigning", "assigned", "native"}]
        /\ \A u \in ClrThreads : clr'[u] = "assigned" <=> clr[u] = "assigned"
    BY <1>2 DEF ThreadCreated, ListInv
  <2>. QED  BY <1>2, <2>1, AddingKeepsList DEF ThreadCreated, GetOrCreate
<1>3. ASSUME NEW t \in ClrThreads, ThreadNameChanged(t) PROVE ListInv'
  <2>1. clr' \in [ClrThreads -> {"none", "created", "assigning", "assigned", "native"}] /\ clr' = clr
    BY <1>3 DEF ThreadNameChanged, ListInv
  <2>. QED  BY <1>3, <2>1, AddingKeepsList DEF ThreadNameChanged, GetOrCreate
<1>4. ASSUME NEW t \in ClrThreads, ThreadAssignedToOSThread(t) PROVE ListInv'
  <2>1. /\ clr' \in [ClrThreads -> {"none", "created", "assigning", "assigned", "native"}]
        /\ \A u \in ClrThreads : clr'[u] = "assigned" <=> clr[u] = "assigned"
    BY <1>4 DEF ThreadAssignedToOSThread, ListInv
  <2>. QED  BY <1>4, <2>1, AddingKeepsList DEF ThreadAssignedToOSThread, GetOrCreate
<1>5. ASSUME NEW t \in ClrThreads, NEW o \in OsThreads, NativeThreadAssigned(t, o) PROVE ListInv'
  <2>1. /\ clr' \in [ClrThreads -> {"none", "created", "assigning", "assigned", "native"}]
        /\ \A u \in ClrThreads : clr'[u] = "assigned" <=> clr[u] = "assigned"
    BY <1>5 DEF NativeThreadAssigned, ListInv
  <2>. QED  BY <1>5, <2>1, AddingKeepsList DEF NativeThreadAssigned, listVars
<1>6. ASSUME NEW t \in ClrThreads, TraceContextIsSet(t) PROVE ListInv'
  <2>1. clr' \in [ClrThreads -> {"none", "created", "assigning", "assigned", "native"}] /\ clr' = clr
    BY <1>6 DEF TraceContextIsSet, ListInv
  <2>. QED  BY <1>6, <2>1, AddingKeepsList DEF TraceContextIsSet, RegisterThread
<1>7. ASSUME CreateIterator PROVE ListInv'
  BY <1>1, <1>7 DEF CreateIterator, listVars
<1>8. ASSUME NEW i, LoopNext(i) PROVE ListInv'
  BY <1>1, <1>8 DEF LoopNext, LoopNextNull, LoopNextThread, listVars
<1>9. ASSUME UNCHANGED threadListVars PROVE ListInv'
  BY <1>1, <1>9 DEF threadListVars, listVars
<1>. QED  BY <1>2, <1>3, <1>4, <1>5, <1>6, <1>7, <1>8, <1>9, AssigningKeepsList, DestroyingKeepsList
             DEF ListNext

\* The list starts empty.
LEMMA InitListInv ==
    ASSUME ListInit
    PROVE  ListInv
<1>1. Listed = {} /\ IsInjective(threads) /\ threads \in Seq(ClrThreads)
  BY DEF ListInit, Listed, Range, IsInjective
<1>. QED  BY <1>1, ManagedThreadListAssumption DEF ListInit, ListInv, IndexesAgree

\* The list and its two indexes hold the same threads, for any number of
\* threads, however they come and go and however their ids are used again.
THEOREM ListIndexesAgree == ListSpec => []IndexesAgree
<1>1. ListInit => ListInv
  BY InitListInv
<1>2. ListInv /\ [ListNext]_threadListVars => ListInv'
  BY ListStep
<1>3. ListInv => IndexesAgree
  BY DEF ListInv
<1>. QED  BY <1>1, <1>2, <1>3, PTL DEF ListSpec

\* What % is below twice the divisor.
LEMMA ModBelowTwice ==
    ASSUME NEW n \in Nat, n > 0, NEW x \in Nat, x < n + n
    PROVE  x % n = IF x < n THEN x ELSE x - n
<1>. DEFINE q == x \div n
            m == x % n
<1>1. q \in Int /\ m \in 0..(n - 1) /\ x = n * q + m
  OBVIOUS
<1>. HIDE DEF q, m
<1>2. q = 0 \/ q = 1
  <2>1. ASSUME q >= 2 PROVE FALSE
    <3>1. n * q >= n * 2
      BY <1>1, <2>1
    <3>. QED  BY <1>1, <3>1
  <2>2. ASSUME q <= -1 PROVE FALSE
    <3>1. n * q <= n * (-1)
      BY <1>1, <2>2
    <3>. QED  BY <1>1, <3>1
  <2>. QED  BY <1>1, <2>1, <2>2
<1>3. CASE q = 0
  BY <1>1, <1>3 DEF m
<1>4. CASE q = 1
  BY <1>1, <1>4 DEF m
<1>. QED  BY <1>2, <1>3, <1>4

\* How far the a-th of n threads is from position p on, and around.
Rank(n, p, a) == IF a > p THEN a - p ELSE a - p + n

\* ComesBefore is the order of the ranks.
LEMMA RankOrders ==
    ASSUME NEW n \in Nat, NEW p \in Nat, p = 0 \/ p < n, NEW a \in 1..n, NEW b \in 1..n
    PROVE  /\ Rank(n, p, a) \in 1..n
           /\ ComesBefore(p, a, b) <=> Rank(n, p, a) < Rank(n, p, b)
BY DEF Rank, ComesBefore

\* The k-th thread from position p on is the c-th of the list.  It goes from rank
\* k to the last when the position goes to z; the order behind it stays.
Turned(n, p, k, c, z) ==
    /\ c \in 1..n /\ z \in 0..(n - 1) /\ Rank(n, p, c) = k /\ Rank(n, z, c) = n
    /\ \A a \in 1..n : Rank(n, p, a) > k => Rank(n, z, a) = Rank(n, p, a) - k
    /\ \A a \in 1..n : a # c => Rank(n, z, a) < n /\ Rank(n, p, a) # k
    /\ \A a \in 1..n : Rank(n, p, a) < k =>
          Rank(n, p, a) \in 1..(k - 1) /\ ((p + Rank(n, p, a) - 1) % n) + 1 = a

\* This is how LoopNext moves its position when it looked at k threads.
LEMMA RoundTurns ==
    ASSUME NEW n \in Nat, NEW p \in Nat, p < n, NEW k \in 1..(n - 1), NEW c, NEW z,
           c = ((p + k - 1) % n) + 1, z = (p + k) % n
    PROVE  Turned(n, p, k, c, z)
<1>1. /\ c = IF p + k <= n THEN p + k ELSE p + k - n
      /\ z = IF p + k < n THEN p + k ELSE p + k - n
  BY ModBelowTwice
<1>2. ASSUME NEW a \in 1..n, Rank(n, p, a) < k
      PROVE  Rank(n, p, a) \in 1..(k - 1) /\ ((p + Rank(n, p, a) - 1) % n) + 1 = a
  <2>1. Rank(n, p, a) \in 1..(k - 1)
    BY <1>2 DEF Rank
  <2>2. PICK x \in Nat : x = p + Rank(n, p, a) - 1
    BY <2>1
  <2>3. x < n + n /\ (x < n => x + 1 = a) /\ (x >= n => x - n + 1 = a)
    BY <2>1, <2>2 DEF Rank
  <2>4. x % n = IF x < n THEN x ELSE x - n
    BY <2>3, ModBelowTwice
  <2>. QED  BY <2>1, <2>2, <2>3, <2>4
<1>3. c \in 1..n /\ z \in 0..(n - 1) /\ Rank(n, p, c) = k /\ Rank(n, z, c) = n
  BY <1>1 DEF Rank
<1>4. /\ \A a \in 1..n : Rank(n, p, a) > k => Rank(n, z, a) = Rank(n, p, a) - k
      /\ \A a \in 1..n : a # c => Rank(n, z, a) < n /\ Rank(n, p, a) # k
  BY <1>1 DEF Rank
<1>. QED  BY <1>2, <1>3, <1>4 DEF Turned

\* Only an iterator that there is has returned threads, and only listed ones.
LEMMA PassedAreListed ==
    ASSUME RoundInv, NEW i \in Iterators, NEW t \in ClrThreads, passed[i][t] # {}
    PROVE  i \in DOMAIN iterators /\ Eligible(t) /\ passed[i][t] \subseteq Listed
BY DEF RoundInv

\* A step that adds a thread at the most, and forgets who was returned at the
\* most.
LEMMA AddingKeepsRound ==
    ASSUME ListInv, RoundInv, MaxIterators \in Nat, NEW t \in ClrThreads,
           UNCHANGED threads \/ (t \notin Listed /\ threads' = Append(threads, t)),
           UNCHANGED <<iterators, starved>>,
           passed' \in [Iterators -> [ClrThreads -> SUBSET ClrThreads]],
           \A i \in Iterators, u \in ClrThreads :
              passed'[i][u] \subseteq passed[i][u] /\ (passed'[i][u] # {} => handle'[u])
    PROVE  RoundInv'
<1>1. /\ Listed \subseteq Listed' /\ Len(threads') \in Nat /\ Len(threads') >= Len(threads)
      /\ DOMAIN threads' = 1..Len(threads') /\ DOMAIN threads = 1..Len(threads) /\ Len(threads) \in Nat
      /\ \A k \in DOMAIN threads : threads'[k] = threads[k]
      /\ \A k \in DOMAIN threads' : threads'[k] \in ClrThreads
      /\ \A k \in DOMAIN threads' : threads'[k] \in Listed => k \in DOMAIN threads
  <2>1. CASE UNCHANGED threads
    BY <2>1 DEF ListInv, Listed
  <2>2. CASE t \notin Listed /\ threads' = Append(threads, t)
    <3>1. /\ threads' \in Seq(ClrThreads) /\ Len(threads') = Len(threads) + 1 /\ threads \in Seq(ClrThreads)
          /\ \A k \in 1..Len(threads) : threads'[k] = threads[k]
          /\ threads'[Len(threads) + 1] = t /\ Listed' = Listed \cup {t}
      BY <2>2, ListGrows DEF ListInv, IndexesAgree
    <3>. QED  BY ONLY <2>2, <3>1
  <2>. QED  BY <2>1, <2>2
<1>2. ASSUME NEW i \in Iterators, NEW u \in ClrThreads, passed'[i][u] # {}
      PROVE  i \in DOMAIN iterators' /\ Eligible(u)' /\ passed'[i][u] \subseteq Listed'
  <2>1. passed[i][u] # {} /\ handle'[u] /\ passed'[i][u] \subseteq passed[i][u]
    BY <1>2
  <2>2. i \in DOMAIN iterators /\ Eligible(u) /\ passed[i][u] \subseteq Listed
    BY <2>1, PassedAreListed
  <2>. QED  BY <1>1, <2>1, <2>2 DEF Eligible
<1>3. ASSUME NEW i \in DOMAIN iterators', NEW a \in DOMAIN threads', NEW b \in DOMAIN threads',
             threads'[b] \in passed'[i][threads'[a]], i \in Iterators
      PROVE  ComesBefore(iterators'[i], a, b)
  <2>1. threads'[a] \in ClrThreads /\ threads'[b] \in passed[i][threads'[a]]
    BY <1>1, <1>3
  <2>2. threads'[a] \in Listed /\ threads'[b] \in Listed
    BY <1>3, <2>1 DEF RoundInv, Eligible
  <2>3. /\ a \in DOMAIN threads /\ b \in DOMAIN threads
        /\ threads[b] \in passed[i][threads[a]]
    BY <1>1, <2>1, <2>2
  <2>. QED  BY <1>3, <2>3 DEF RoundInv, ComesBefore
<1>4. \A i \in DOMAIN iterators' : i \in Iterators
  <2>1. DOMAIN iterators = 1..Len(iterators) /\ Len(iterators) \in Nat /\ Len(iterators) <= MaxIterators
    BY DEF RoundInv
  <2>. QED  BY <2>1, SMT DEF Iterators
<1>5. \A i \in DOMAIN iterators' : iterators'[i] = 0 \/ iterators'[i] < Len(threads')
  <2>1. /\ iterators' = iterators
        /\ \A i \in DOMAIN iterators : iterators[i] \in Nat /\ (iterators[i] = 0 \/ iterators[i] < Len(threads))
    BY DEF RoundInv
  <2>. QED  BY ONLY <1>1, <2>1
<1>6. iterators' \in Seq(Nat) /\ Len(iterators') <= MaxIterators /\ starved' = {}
  BY DEF RoundInv
<1>. QED  BY <1>2, <1>3, <1>4, <1>5, <1>6 DEF RoundInv

\* UpdateIterators: the positions follow the threads that stay.
LEMMA DestroyingKeepsRound ==
    ASSUME ListInv, RoundInv, NEW t \in Listed, t \in ClrThreads, ThreadDestroyed(t),
           MaxIterators \in Nat
    PROVE  RoundInv'
<1>. DEFINE n == Len(threads)
            r == IndexOf(t)
            Old(k) == IF k < r THEN k ELSE k + 1
<1>1. /\ r \in 1..n /\ threads[r] = t /\ threads' \in Seq(ClrThreads) /\ Len(threads') = n - 1
      /\ \A k \in 1..(n - 1) : threads'[k] = threads[Old(k)]
      /\ Listed' = Listed \ {t} /\ n \in Nat
      /\ DOMAIN threads' = 1..(n - 1) /\ DOMAIN threads = 1..n
      /\ \A k \in 1..(n - 1) : Old(k) \in 1..n
  <2>1. threads \in Seq(ClrThreads) /\ IsInjective(threads)
    BY DEF ListInv, IndexesAgree
  <2>2. threads' = Erase(threads, r)
    BY DEF ThreadDestroyed, UnregisterThread
  <2>3. /\ r \in 1..n /\ threads[r] = t /\ threads' \in Seq(ClrThreads) /\ Len(threads') = n - 1
        /\ \A k \in 1..(n - 1) : threads'[k] = IF k < r THEN threads[k] ELSE threads[k + 1]
        /\ Listed' = Listed \ {t}
    BY <2>1, <2>2, ListShrinks
  <2>. HIDE DEF r
  <2>4. n \in Nat /\ DOMAIN threads' = 1..(n - 1) /\ DOMAIN threads = 1..n
    BY <2>1, <2>3
  <2>. HIDE DEF n
  <2>5. \A k \in 1..(n - 1) : Old(k) \in 1..n
    BY <2>3, <2>4
  <2>6. \A k \in 1..(n - 1) : threads'[k] = threads[Old(k)]
    BY <2>3
  <2>. QED  BY <2>3, <2>4, <2>5, <2>6
<1>2. /\ iterators' = UpdateIterators(r - 1, n - 1) /\ starved' = {}
      /\ handle' = [handle EXCEPT ![t] = FALSE]
      /\ passed' = [i \in Iterators |->
                      [u \in ClrThreads |-> IF u = t THEN {} ELSE passed[i][u] \ {t}]]
  BY DEF ThreadDestroyed, UnregisterThread, RoundInv
<1>. HIDE DEF r
<1>3. /\ DOMAIN iterators = 1..Len(iterators) /\ Len(iterators) \in Nat /\ Len(iterators) <= MaxIterators
      /\ \A i \in DOMAIN iterators : iterators[i] \in Nat /\ (iterators[i] = 0 \/ iterators[i] < n)
  BY DEF RoundInv
<1>. DEFINE Moved(p) == IF r - 1 < p THEN p - 1 ELSE p
            New(p) == IF Moved(p) >= n - 1 THEN 0 ELSE Moved(p)
<1>4. iterators' = [i \in DOMAIN iterators |-> New(iterators[i])]
  BY <1>2 DEF UpdateIterators
<1>5. \A p \in Nat : Moved(p) \in Nat /\ New(p) \in Nat /\ (New(p) = 0 \/ New(p) < n - 1)
  BY <1>1
<1>6. ASSUME NEW p \in Nat, p = 0 \/ p < n, NEW a \in 1..(n - 1), NEW b \in 1..(n - 1),
             ComesBefore(p, Old(a), Old(b))
      PROVE  ComesBefore(New(p), a, b)
  <2>1. PICK c, d, q, z \in Nat : c = Old(a) /\ d = Old(b) /\ q = Moved(p) /\ z = New(p)
    <3>1. Old(a) \in Nat /\ Old(b) \in Nat
      BY <1>1
    <3>. QED  BY <1>5, <3>1
  <2>2. ComesBefore(p, c, d)
    BY <1>6, <2>1
  <2>3. ComesBefore(z, a, b)
    <3>1. n \in Nat /\ r \in 1..n
      BY <1>1
    <3>2. c = IF a < r THEN a ELSE a + 1
      BY <2>1
    <3>3. d = IF b < r THEN b ELSE b + 1
      BY <2>1
    <3>4. q = (IF r - 1 < p THEN p - 1 ELSE p) /\ z = IF q >= n - 1 THEN 0 ELSE q
      BY <2>1
    <3>5. p \in Nat /\ (p = 0 \/ p < n) /\ a \in 1..(n - 1) /\ b \in 1..(n - 1)
      BY <1>6
    <3>. HIDE DEF n, Old, Moved, New
    <3>. QED  BY <2>2, <3>1, <3>2, <3>3, <3>4, <3>5, SMT DEF ComesBefore
  <2>. QED  BY <2>1, <2>3
<1>. HIDE DEF Old, New, n
<1>7. /\ iterators' \in Seq(Nat) /\ Len(iterators') = Len(iterators) /\ DOMAIN iterators' = DOMAIN iterators
      /\ \A i \in DOMAIN iterators : iterators'[i] = New(iterators[i])
  <2>1. /\ DOMAIN iterators' = 1..Len(iterators)
        /\ \A i \in 1..Len(iterators) : iterators'[i] = New(iterators[i]) /\ iterators'[i] \in Nat
    BY <1>3, <1>4, <1>5
  <2>2. iterators' \in [1..Len(iterators) -> Nat]
    BY <1>3, <1>4, <1>5, <2>1
  <2>. QED  BY <1>3, <2>1, <2>2
<1>8. passed' \in [Iterators -> [ClrThreads -> SUBSET ClrThreads]]
  BY <1>2 DEF RoundInv
<1>9. ASSUME NEW i \in Iterators, NEW u \in ClrThreads, passed'[i][u] # {}
      PROVE  i \in DOMAIN iterators' /\ Eligible(u)' /\ passed'[i][u] \subseteq Listed'
  <2>1. u # t /\ passed'[i][u] = passed[i][u] \ {t} /\ passed[i][u] # {}
    BY <1>2, <1>9
  <2>2. i \in DOMAIN iterators /\ Eligible(u) /\ passed[i][u] \subseteq Listed
    BY <2>1, PassedAreListed
  <2>3. handle'[u] = handle[u]
    BY <1>2, <2>1 DEF ListInv
  <2>. QED  BY <1>1, <1>7, <2>1, <2>2, <2>3 DEF Eligible
<1>10. ASSUME NEW i \in DOMAIN iterators', NEW a \in DOMAIN threads', NEW b \in DOMAIN threads',
              threads'[b] \in passed'[i][threads'[a]]
       PROVE  ComesBefore(iterators'[i], a, b)
  <2>1. i \in Iterators /\ i \in DOMAIN iterators
    BY <1>3, <1>7 DEF Iterators
  <2>2. threads[Old(b)] \in passed[i][threads[Old(a)]] /\ Old(a) \in 1..n /\ Old(b) \in 1..n
    <3>1. threads'[a] \in ClrThreads /\ threads'[a] = threads[Old(a)] /\ threads'[b] = threads[Old(b)]
      BY <1>1
    <3>2. threads'[b] \in passed[i][threads'[a]]
      BY <1>2, <1>10, <2>1, <3>1
    <3>. QED  BY <1>1, <3>1, <3>2
  <2>3. ComesBefore(iterators[i], Old(a), Old(b))
    BY <1>1, <2>1, <2>2 DEF RoundInv
  <2>4. ComesBefore(New(iterators[i]), a, b)
    BY <1>1, <1>3, <1>6, <2>1, <2>3
  <2>. QED  BY <1>7, <2>1, <2>4
<1>11. \A i \in DOMAIN iterators' : iterators'[i] = 0 \/ iterators'[i] < Len(threads')
  BY <1>1, <1>3, <1>5, <1>7
<1>. QED  BY <1>2, <1>3, <1>7, <1>8, <1>9, <1>10, <1>11 DEF RoundInv

\* LoopNext returns the first thread with a handle from its position on, and
\* goes on behind it.
LEMMA ReturningKeepsRound ==
    ASSUME ListInv, RoundInv, MaxIterators \in Nat, NEW i \in Iterators, LoopNextThread(i)
    PROVE  RoundInv'
<1>. DEFINE n == Len(threads)
            p == iterators[i]
<1>1. PICK k \in 1..(n - 1) :
         /\ Looked(i, k)
         /\ iterators' = [iterators EXCEPT ![i] = (@ + k) % n]
         /\ Returns(i, ThreadFrom(i, k))
  BY DEF LoopNextThread
<1>. DEFINE c == ((p + k - 1) % n) + 1
            u == threads[c]
            z == (p + k) % n
<1>2. /\ n \in Nat /\ DOMAIN threads = 1..n /\ \A a \in 1..n : threads[a] \in ClrThreads
      /\ \A a \in 1..n : threads[a] \in Listed
      /\ \A a, b \in 1..n : threads[a] = threads[b] => a = b
  BY DEF ListInv, IndexesAgree, IsInjective, Listed, Range
<1>3. i \in DOMAIN iterators /\ p \in Nat /\ p < n
  <2>1. i \in DOMAIN iterators
    BY DEF LoopNextThread
  <2>2. iterators \in Seq(Nat) /\ (p = 0 \/ p < n)
    BY <2>1 DEF RoundInv
  <2>. QED  BY <1>2, <2>1, <2>2
<1>4. u = ThreadFrom(i, k) /\ UNCHANGED <<kind, threads, handle, clr>>
  BY DEF LoopNextThread, ThreadFrom, listVars
<1>5. iterators' = [iterators EXCEPT ![i] = z]
  BY <1>1
<1>6. /\ c \in 1..n /\ z \in 0..(n - 1) /\ Rank(n, p, c) = k /\ Rank(n, z, c) = n
      /\ \A a \in 1..n : Rank(n, p, a) > k => Rank(n, z, a) = Rank(n, p, a) - k
      /\ \A a \in 1..n : a # c => Rank(n, z, a) < n /\ Rank(n, p, a) # k
      /\ \A a \in 1..n : Rank(n, p, a) < k =>
            Rank(n, p, a) \in 1..(k - 1) /\ ((p + Rank(n, p, a) - 1) % n) + 1 = a
  <2>1. n \in Nat /\ p \in Nat /\ p < n /\ k \in 1..(n - 1)
    BY <1>2, <1>3
  <2>2. c = ((p + k - 1) % n) + 1 /\ z = (p + k) % n
    OBVIOUS
  <2>. HIDE DEF n, p, c, z
  <2>3. Turned(n, p, k, c, z)
    BY <2>1, <2>2, RoundTurns
  <2>. QED  BY <2>3 DEF Turned
\* Those before it have no handle.
<1>7. ASSUME NEW a \in 1..n, Eligible(threads[a]), a # c PROVE Rank(n, p, a) > k
  <2>1. ASSUME Rank(n, p, a) < k PROVE FALSE
    <3>1. Rank(n, p, a) \in 1..(k - 1) /\ threads[a] = ThreadFrom(i, Rank(n, p, a))
      BY <1>6, <2>1 DEF ThreadFrom
    <3>. QED  BY <1>1, <1>7, <3>1 DEF Looked, Eligible
  <2>2. Rank(n, p, a) \in Int /\ Rank(n, p, a) # k
    <3>. HIDE DEF n, p, c
    <3>1. Rank(n, p, a) # k
      BY <1>6, <1>7
    <3>. QED  BY <1>2, <1>3, <1>7, <3>1 DEF Rank
  <2>. QED  BY <2>1, <2>2
<1>8. u \in ClrThreads /\ u \in Listed
  BY <1>2, <1>6
<1>9. /\ passed' = [passed EXCEPT ![i] = [t \in ClrThreads |->
                       IF t = u \/ ~Eligible(t) THEN {} ELSE passed[i][t] \cup {u}]]
      /\ starved' = starved \cup {t \in ClrThreads \ {u} : Eligible(t) /\ u \in passed[i][t]}
  BY <1>1, <1>4 DEF Returns
<1>. HIDE DEF n, p, c, u, z
<1>10. ASSUME NEW a \in 1..n, NEW b \in 1..n, threads[b] \in passed[i][threads[a]]
       PROVE  Rank(n, p, a) < Rank(n, p, b)
  <2>1. ComesBefore(p, a, b)
    BY <1>2, <1>3, <1>10 DEF RoundInv, p
  <2>. QED  BY <1>2, <1>3, <2>1, RankOrders
<1>11. starved' = {}
  <2>1. ASSUME NEW t \in ClrThreads \ {u}, Eligible(t), u \in passed[i][t] PROVE FALSE
    <3>1. PICK a \in 1..n : t = threads[a]
      BY <1>2, <2>1 DEF Eligible, Listed, Range
    <3>2. a # c
      BY <2>1, <3>1 DEF u
    <3>3. Rank(n, p, a) < Rank(n, p, c)
      BY <1>6, <1>10, <2>1, <3>1 DEF u
    <3>4. Rank(n, p, a) > Rank(n, p, c)
      BY <1>6, <1>7, <2>1, <3>1, <3>2
    <3>5. Rank(n, p, a) \in Int /\ Rank(n, p, c) \in Int
      BY <1>2, <1>3, <1>6, <3>1 DEF Rank
    <3>. QED  BY <3>3, <3>4, <3>5
  <2>. QED  BY <1>9, <2>1 DEF RoundInv
<1>12. /\ passed' \in [Iterators -> [ClrThreads -> SUBSET ClrThreads]]
       /\ \A t \in ClrThreads : passed'[i][t] = IF t = u \/ ~Eligible(t) THEN {} ELSE passed[i][t] \cup {u}
       /\ \A j \in Iterators : j # i => passed'[j] = passed[j]
  BY <1>8, <1>9 DEF RoundInv
<1>13. ASSUME NEW j \in Iterators, NEW t \in ClrThreads, passed'[j][t] # {}
       PROVE  j \in DOMAIN iterators' /\ Eligible(t)' /\ passed'[j][t] \subseteq Listed'
  <2>1. DOMAIN iterators' = DOMAIN iterators /\ Listed' = Listed /\ Eligible(t)' = Eligible(t)
    BY <1>4, <1>5 DEF Listed, Eligible
  <2>a. passed[j][t] # {} => j \in DOMAIN iterators /\ Eligible(t) /\ passed[j][t] \subseteq Listed
    BY PassedAreListed
  <2>2. CASE j # i
    <3>1. passed'[j][t] = passed[j][t]
      BY <1>12, <2>2
    <3>. QED  BY <1>13, <2>1, <2>a, <3>1
  <2>3. CASE j = i
    <3>1. Eligible(t) /\ passed'[i][t] = passed[i][t] \cup {u}
      BY <1>12, <1>13, <2>3
    <3>2. passed[i][t] \subseteq Listed
      BY <2>3, <2>a
    <3>. QED  BY <1>3, <1>8, <2>1, <2>3, <3>1, <3>2
  <2>. QED  BY <2>2, <2>3
<1>14. ASSUME NEW a \in 1..n, NEW b \in 1..n, threads[b] \in passed'[i][threads[a]]
       PROVE  ComesBefore(z, a, b)
  <2>1. threads[a] # u /\ Eligible(threads[a]) /\ threads[b] \in passed[i][threads[a]] \cup {u}
    BY <1>2, <1>12, <1>14
  <2>2. a # c /\ Rank(n, p, a) > k
    BY <1>7, <2>1 DEF u
  <2>3. CASE threads[b] = u
    <3>1. b = c
      BY <1>2, <1>6, <2>3 DEF u
    <3>2. Rank(n, z, a) < Rank(n, z, b)
      BY <1>6, <2>2, <3>1
    <3>. QED  BY <1>2, <1>6, <3>2, RankOrders
  <2>4. CASE threads[b] \in passed[i][threads[a]]
    <3>1. Rank(n, p, a) < Rank(n, p, b) /\ Rank(n, p, a) \in Int /\ Rank(n, p, b) \in Int
      BY <1>2, <1>3, <1>10, <2>4 DEF Rank
    <3>2. Rank(n, z, a) < Rank(n, z, b)
      BY <1>6, <2>2, <3>1
    <3>. QED  BY <1>2, <1>6, <3>2, RankOrders
  <2>. QED  BY <2>1, <2>3, <2>4
<1>15. ASSUME NEW j \in DOMAIN iterators'
       PROVE  /\ iterators'[j] = 0 \/ iterators'[j] < Len(threads')
              /\ \A a, b \in DOMAIN threads' :
                    threads'[b] \in passed'[j][threads'[a]] => ComesBefore(iterators'[j], a, b)
  <2>1. j \in DOMAIN iterators /\ j \in Iterators
    <3>1. DOMAIN iterators = 1..Len(iterators) /\ Len(iterators) \in Nat /\ Len(iterators) <= MaxIterators
      BY DEF RoundInv
    <3>. QED  BY <1>5, <3>1 DEF Iterators
  <2>2. CASE j = i
    <3>1. iterators'[j] = z
      BY <1>3, <1>5, <2>2
    <3>2. DOMAIN threads' = 1..n /\ threads' = threads /\ Len(threads') = n
      BY <1>2, <1>4 DEF n
    <3>3. z = 0 \/ z < n
      BY <1>2, <1>6
    <3>. QED  BY <1>14, <2>2, <3>1, <3>2, <3>3
  <2>3. CASE j # i
    <3>1. iterators'[j] = iterators[j] /\ passed'[j] = passed[j]
      BY <1>5, <1>12, <2>1, <2>3
    <3>. QED  BY <1>4, <2>1, <3>1 DEF RoundInv
  <2>. QED  BY <2>2, <2>3
<1>16. iterators' \in Seq(Nat) /\ Len(iterators') <= MaxIterators
  BY <1>3, <1>5, <1>6 DEF RoundInv
<1>. QED  BY <1>11, <1>12, <1>13, <1>15, <1>16 DEF RoundInv

\* Every step keeps the round.
LEMMA RoundStep ==
    ASSUME MaxIterators \in Nat, ListInv, RoundInv, [ListNext]_threadListVars
    PROVE  RoundInv'
<1>. DEFINE Forgets == \A i \in Iterators, u \in ClrThreads :
               passed'[i][u] \subseteq passed[i][u] /\ (passed'[i][u] # {} => handle'[u])
<1>1. /\ passed \in [Iterators -> [ClrThreads -> SUBSET ClrThreads]] /\ byClrId = Listed
      /\ \A i \in Iterators, u \in ClrThreads : passed[i][u] # {} => handle[u]
  BY DEF RoundInv, Eligible, ListInv, IndexesAgree
<1>2. ASSUME UNCHANGED <<passed, handle>> PROVE Forgets
  BY <1>1, <1>2
<1>3. ASSUME NEW t \in ClrThreads, ThreadCreated(t) PROVE RoundInv'
  <2>1. Forgets /\ passed' = passed
    BY <1>2, <1>3 DEF ThreadCreated, historyVars
  <2>. QED  BY <1>1, <1>3, <2>1, AddingKeepsRound DEF ThreadCreated, GetOrCreate, historyVars
<1>4. ASSUME NEW t \in ClrThreads, ThreadNameChanged(t) PROVE RoundInv'
  <2>1. Forgets /\ passed' = passed
    BY <1>2, <1>4 DEF ThreadNameChanged, historyVars
  <2>. QED  BY <1>1, <1>4, <2>1, AddingKeepsRound DEF ThreadNameChanged, GetOrCreate, historyVars
<1>5. ASSUME NEW t \in ClrThreads, ThreadAssignedToOSThread(t) PROVE RoundInv'
  <2>1. Forgets /\ passed' = passed
    BY <1>2, <1>5 DEF ThreadAssignedToOSThread, historyVars
  <2>. QED  BY <1>1, <1>5, <2>1, AddingKeepsRound
            DEF ThreadAssignedToOSThread, GetOrCreate, historyVars
<1>6. ASSUME NEW t \in ClrThreads, NEW o \in OsThreads, NativeThreadAssigned(t, o) PROVE RoundInv'
  <2>1. Forgets /\ passed' = passed
    BY <1>2, <1>6 DEF NativeThreadAssigned, historyVars, listVars
  <2>. QED  BY <1>1, <1>6, <2>1, AddingKeepsRound DEF NativeThreadAssigned, listVars, historyVars
<1>7. ASSUME NEW t \in ClrThreads, NEW o \in OsThreads, OsThreadIsAssigned(t, o) PROVE RoundInv'
  <2>1. /\ handle' = [handle EXCEPT ![t] = TRUE]
        /\ passed' = [i \in Iterators |-> [passed[i] EXCEPT ![t] = {}]]
    BY <1>7 DEF OsThreadIsAssigned, SetThreadOsInfo
  <2>2. Forgets /\ passed' \in [Iterators -> [ClrThreads -> SUBSET ClrThreads]]
    BY <1>1, <2>1 DEF ListInv
  <2>. QED  BY <1>1, <1>7, <2>2, AddingKeepsRound
            DEF OsThreadIsAssigned, SetThreadOsInfo, GetOrCreate
<1>8. ASSUME NEW t \in ClrThreads, TraceContextIsSet(t) PROVE RoundInv'
  <2>1. /\ handle' = handle
        /\ passed' = [i \in Iterators |->
                         [passed[i] EXCEPT ![t] = IF t \in Listed THEN @ ELSE {}]]
    BY <1>8 DEF TraceContextIsSet
  <2>2. Forgets /\ passed' \in [Iterators -> [ClrThreads -> SUBSET ClrThreads]]
    BY <1>1, <2>1
  <2>. QED  BY <1>1, <1>8, <2>2, AddingKeepsRound DEF TraceContextIsSet, RegisterThread
<1>9. ASSUME NEW t \in ClrThreads, ThreadDestroyed(t) PROVE RoundInv'
  <2>1. CASE t \in Listed
    BY <1>9, <2>1, DestroyingKeepsRound
  <2>2. CASE t \notin Listed
    <3>1. /\ handle' = [handle EXCEPT ![t] = FALSE]
          /\ passed' = [i \in Iterators |->
                           [u \in ClrThreads |-> IF u = t THEN {} ELSE passed[i][u] \ {t}]]
      BY <1>9 DEF ThreadDestroyed
    <3>2. Forgets /\ passed' \in [Iterators -> [ClrThreads -> SUBSET ClrThreads]]
      BY <1>1, <3>1 DEF ListInv
    <3>. QED  BY <1>9, <2>2, <3>2, AddingKeepsRound DEF ThreadDestroyed, UnregisterThread
  <2>. QED  BY <2>1, <2>2
<1>10. ASSUME UNCHANGED <<threads, handle, iterators, passed, starved>> PROVE RoundInv'
  BY <1>10, ZenonT(60) DEF RoundInv, Eligible, Listed, ComesBefore
<1>11. ASSUME CreateIterator PROVE RoundInv'
  <2>1. /\ Len(iterators') = Len(iterators) + 1 /\ iterators' \in Seq(Nat) /\ Len(iterators') <= MaxIterators
        /\ DOMAIN iterators' = 1..(Len(iterators) + 1) /\ DOMAIN iterators = 1..Len(iterators)
        /\ iterators'[Len(iterators) + 1] = 0 /\ Len(iterators) \in Nat
        /\ \A i \in 1..Len(iterators) : iterators'[i] = iterators[i]
    <3>1. iterators \in Seq(Nat) /\ Len(iterators) < MaxIterators /\ iterators' = Append(iterators, 0)
      BY <1>11 DEF CreateIterator, RoundInv
    <3>. QED  BY <3>1
  <2>2. UNCHANGED <<threads, handle, passed, starved>>
    BY <1>11 DEF CreateIterator, listVars, historyVars
  <2>3. ASSUME NEW i \in DOMAIN iterators', NEW a \in DOMAIN threads, NEW b \in DOMAIN threads,
               threads[b] \in passed[i][threads[a]]
        PROVE  ComesBefore(iterators'[i], a, b)
    <3>1. i \in Iterators /\ threads[a] \in ClrThreads
      BY <2>1 DEF Iterators, ListInv
    <3>2. i \in DOMAIN iterators
      BY <2>3, <3>1 DEF RoundInv
    <3>. QED  BY <2>1, <2>3, <3>2 DEF RoundInv
  <2>4. \A i \in DOMAIN iterators' : iterators'[i] = 0 \/ iterators'[i] < Len(threads)
    <3>1. \A i \in DOMAIN iterators : iterators[i] = 0 \/ iterators[i] < Len(threads)
      BY DEF RoundInv
    <3>. QED  BY <2>1, <3>1
  <2>5. ASSUME NEW i \in Iterators, NEW t \in ClrThreads, passed[i][t] # {}
        PROVE  i \in DOMAIN iterators' /\ Eligible(t)' /\ passed[i][t] \subseteq Listed'
    <3>1. i \in DOMAIN iterators /\ Eligible(t) /\ passed[i][t] \subseteq Listed
      BY <2>5, PassedAreListed
    <3>. QED  BY <2>1, <2>2, <3>1 DEF Eligible, Listed
  <2>. QED  BY <1>1, <2>1, <2>2, <2>3, <2>4, <2>5 DEF RoundInv
<1>12. ASSUME NEW i \in Iterators, LoopNext(i) PROVE RoundInv'
  BY <1>10, <1>12, ReturningKeepsRound DEF LoopNext, LoopNextNull, listVars
<1>13. ASSUME UNCHANGED threadListVars PROVE RoundInv'
  BY <1>10, <1>13 DEF threadListVars, listVars, historyVars
<1>. QED  BY <1>3, <1>4, <1>5, <1>6, <1>7, <1>8, <1>9, <1>11, <1>12, <1>13 DEF ListNext

\* No thread with a handle is left out of a round, for any number of threads and
\* of iterators, however threads come and go between the calls of LoopNext.
THEOREM NobodyIsOvertaken == ListSpec => []NobodyOvertaken
<1>1. ListInit => ListInv /\ RoundInv
  <2>1. ASSUME ListInit PROVE RoundInv
    <3>1. DOMAIN iterators = {} /\ iterators \in Seq(Nat) /\ Len(iterators) = 0
      BY <2>1 DEF ListInit
    <3>. QED  BY <2>1, <3>1, ManagedThreadListAssumption DEF ListInit, RoundInv
  <2>. QED  BY <2>1, InitListInv
<1>2. (ListInv /\ RoundInv) /\ [ListNext]_threadListVars => (ListInv /\ RoundInv)'
  BY ListStep, RoundStep, ManagedThreadListAssumption
<1>3. RoundInv => NobodyOvertaken
  BY DEF RoundInv, NobodyOvertaken
<1>. QED  BY <1>1, <1>2, <1>3, PTL DEF ListSpec

-----------------------------------------------------------------------------
(***************************************************************************)
(* The sampler and the deadlock watcher.                                   *)
(***************************************************************************)
HoldsTarget == {"suspended", "collecting", "stuck", "collected", "ended"}

\* What the manager knows of the sampler.
TargetInv ==
    /\ spc \in SamplerStates
    /\ spc # "idle" => target \in Threads
    /\ spc \notin {"idle", "locking"} => pTargetThread = target
    /\ collecting => spc \in {"collecting", "stuck", "collected"}

\* An abort is requested only while the sampler collects, and forgotten before
\* it does so again.
AbortInv ==
    /\ spc \in {"allowed", "suspended"} => ~abortRequested
    /\ spc \in {"collecting", "stuck"} /\ abortRequested => intervention # 0

\* The sampler and a debugger have suspended a thread at most once each.
SuspendInv ==
    /\ suspendCount \in [Threads -> Nat]
    /\ debugged \in [Threads -> BOOLEAN]
    /\ "resumeFails" \notin faults =>
          \A t \in Threads :
              suspendCount[t] <= (IF spc \in HoldsTarget /\ t = target THEN 1 ELSE 0)
                                 + (IF debugged[t] THEN 1 ELSE 0)

\* A thread's counter is that of the period it was last looked at.
CountInv ==
    /\ deadlockCount \in [Threads -> Nat]
    /\ deadlockPeriod \in [Threads -> Nat]
    /\ interventions \in Seq(Threads)
    /\ deadlocksInPeriod = Len(interventions)
    /\ currentPeriod \in Nat
    /\ \A t \in Threads :
          /\ deadlockPeriod[t] <= currentPeriod
          /\ InterventionsOn(t) = IF deadlockPeriod[t] = currentPeriod THEN deadlockCount[t] ELSE 0

LoopInv == TargetInv /\ AbortInv /\ SuspendInv /\ CountInv

\* The sampler asks for permission.
LEMMA AllowStep ==
    ASSUME LoopInv, NEW t \in Threads, AllowStackWalk(t)
    PROVE  LoopInv'
<1>. USE DEF AllowStackWalk, LoopInv, threadVars, statVars
<1>1. TargetInv' /\ AbortInv'
  BY DEF TargetInv, AbortInv, SamplerStates
<1>2. SuspendInv'
  BY DEF SuspendInv, HoldsTarget
<1>3. CountInv'
  BY DEF CountInv, DeadlocksCount, InterventionsOn
<1>. QED  BY <1>1, <1>2, <1>3

\* The sampler's steps do not touch the counters.
LEMMA SamplerKeepsCounts ==
    ASSUME SamplerStep
    PROVE  UNCHANGED <<deadlockVars, faults>>
BY DEF SamplerStep, ThreadLocked, ThreadWasDestroyed, SuspendTargetThread,
       NotifyCollectionStart,
       CollectStackSample, LockReleased, NotifyCollectionEnd,
       ResumeTargetThread,
       NotifyIterationFinished

\* The sampler's other steps.
LEMMA SamplerPreserves ==
    ASSUME LoopInv, SamplerStep
    PROVE  LoopInv'
<1>. USE DEF LoopInv, TargetInv, AbortInv, SuspendInv, SamplerStates, HoldsTarget
<1>0. CountInv' /\ faults' = faults
  BY SamplerKeepsCounts DEF CountInv, deadlockVars, InterventionsOn
<1>1. CASE ThreadLocked
  BY <1>0, <1>1 DEF ThreadLocked
<1>2. CASE ThreadWasDestroyed
  BY <1>0, <1>2 DEF ThreadWasDestroyed, threadVars
<1>3. CASE SuspendTargetThread
  BY <1>0, <1>3 DEF SuspendTargetThread, managerVars
<1>4. CASE NotifyCollectionStart
  BY <1>0, <1>4 DEF NotifyCollectionStart, threadVars
<1>5. CASE CollectStackSample
  BY <1>0, <1>5 DEF CollectStackSample, threadVars, managerVars
<1>6. CASE LockReleased
  BY <1>0, <1>6 DEF LockReleased, threadVars, managerVars
<1>7. CASE NotifyCollectionEnd
  BY <1>0, <1>7 DEF NotifyCollectionEnd, threadVars
<1>8. CASE ResumeTargetThread
  BY <1>0, <1>8 DEF ResumeTargetThread, ResumeThread, managerVars
<1>9. CASE NotifyIterationFinished
  BY <1>0, <1>9 DEF NotifyIterationFinished
<1>. QED  BY <1>1, <1>2, <1>3, <1>4, <1>5, <1>6, <1>7, <1>8, <1>9 DEF SamplerStep

\* The statistics, the threads and a debugger.
LEMMA OthersStep ==
    ASSUME LoopInv,
           \/ SendStatistics \/ StatisticsSent \/ UNCHANGED vars
           \/ \E t \in Threads : \/ LockSelf(t) \/ UnlockSelf(t) \/ SetThreadDestroyed(t)
                                 \/ DebuggerSuspends(t) \/ DebuggerResumes(t)
    PROVE  LoopInv'
<1>1. /\ UNCHANGED <<spc, target, pTargetThread, collecting, abortRequested, intervention, faults,
                     deadlockCount, deadlockPeriod, currentPeriod, deadlocksInPeriod,
                     interventions>>
      /\ \/ UNCHANGED <<suspendCount, debugged>>
         \/ \E t \in Threads : DebuggerSuspends(t) \/ DebuggerResumes(t)
  BY DEF SendStatistics, StatisticsSent, LockSelf, UnlockSelf,
         SetThreadDestroyed, DebuggerSuspends, DebuggerResumes, vars,
         samplerVars, threadVars, managerVars, deadlockVars
<1>2. TargetInv /\ AbortInv /\ CountInv /\ SuspendInv
  BY DEF LoopInv
<1>3. TargetInv' /\ AbortInv'
  BY <1>1, <1>2 DEF TargetInv, AbortInv
<1>4. CountInv'
  BY <1>1, <1>2 DEF CountInv, InterventionsOn
<1>5. SuspendInv'
  <2>1. CASE UNCHANGED <<suspendCount, debugged>>
    BY <1>1, <1>2, <2>1 DEF SuspendInv, HoldsTarget
  <2>2. ASSUME NEW t \in Threads, DebuggerSuspends(t) \/ DebuggerResumes(t)
        PROVE  SuspendInv'
    <3>1. SuspendInv /\ UNCHANGED <<spc, target, faults>>
      BY <1>1, <1>2
    <3>2. CASE DebuggerSuspends(t)
      BY <3>1, <3>2 DEF DebuggerSuspends, SuspendInv
    <3>3. CASE DebuggerResumes(t)
      BY <3>1, <3>3 DEF DebuggerResumes, SuspendInv
    <3>. QED  BY <2>2, <3>2, <3>3
  <2>. QED  BY <1>1, <2>1, <2>2
<1>. QED  BY <1>2, <1>3, <1>4, <1>5 DEF LoopInv

\* How often t is in s, which InterventionsOn asks of interventions.
Count(s, t) == Cardinality({n \in DOMAIN s : s[n] = t})

\* What the steps below need to know of it; it is shown at the end.
Counting ==
    /\ \A t : Count(<<>>, t) = 0
    /\ \A s \in Seq(Threads), u \in Threads, t \in Threads :
          Count(Append(s, u), t) = Count(s, t) + IF u = t THEN 1 ELSE 0

\* InterventionsOn counts in the same way, in this state and in the next.
LEMMA CountIsInterventions ==
    ASSUME NEW t
    PROVE  /\ InterventionsOn(t) = Count(interventions, t)
           /\ InterventionsOn(t)' = Count(interventions', t)
BY DEF InterventionsOn, Count, Cardinality, Cardinality

\* Nothing has happened yet.
LEMMA LoopInitially ==
    ASSUME Counting, Init
    PROVE  LoopInv
<1>1. CountInv
  BY CountIsInterventions DEF Counting, Init, CountInv
<1>. QED  BY <1>1
             DEF Init, LoopInv, TargetInv, AbortInv, SuspendInv, SamplerStates,
                 HoldsTarget

\* The watcher has nothing to do, or waits for its intervention to work.
LEMMA WatcherLooks ==
    ASSUME Counting, LoopInv, NEW newPeriod \in BOOLEAN,
           NothingToDo(newPeriod) \/ StillInProgress(newPeriod)
    PROVE  LoopInv'
<1>0. /\ UNCHANGED <<spc, target, pTargetThread, collecting, abortRequested, suspendCount,
                     debugged, faults>>
      /\ intervention' \in {intervention, 2}
      /\ PeriodStarts(newPeriod) /\ UNCHANGED <<deadlockCount, deadlockPeriod>>
      /\ interventions' = InPeriod(newPeriod)
      /\ deadlocksInPeriod' = IF newPeriod THEN 0 ELSE deadlocksInPeriod
      /\ TargetInv /\ AbortInv /\ SuspendInv /\ CountInv
  BY DEF NothingToDo, StillInProgress, samplerVars, threadVars,
                    managerVars, LoopInv
<1>1. TargetInv' /\ AbortInv'
  BY <1>0 DEF TargetInv, AbortInv
<1>2. SuspendInv'
  BY <1>0 DEF SuspendInv
<1>3. CountInv'
  <2>1. CASE newPeriod
    BY <1>0, <2>1, CountIsInterventions
       DEF Counting, CountInv, InPeriod, PeriodStarts, Period
  <2>2. CASE ~newPeriod
    BY <1>0, <2>2, CountIsInterventions
       DEF CountInv, InPeriod, PeriodStarts, Period
  <2>. QED  BY <2>1, <2>2
<1>. QED  BY <1>1, <1>2, <1>3 DEF LoopInv

\* The watcher intervenes.
LEMMA WatcherIntervenes ==
    ASSUME Counting, LoopInv, NEW newPeriod \in BOOLEAN, PerformDeadlockIntervention(newPeriod)
    PROVE  LoopInv'
<1>0. pTargetThread \in Threads /\ TargetInv /\ AbortInv /\ SuspendInv /\ CountInv
  BY DEF PerformDeadlockIntervention, LoopInv, TargetInv
<1>1. TargetInv' /\ AbortInv'
  BY <1>0 DEF PerformDeadlockIntervention, samplerVars, TargetInv, AbortInv
<1>2. SuspendInv'
  <2>1. /\ UNCHANGED <<spc, target, debugged, faults>>
        /\ \/ suspendCount' = [suspendCount EXCEPT ![pTargetThread] = IF @ = 0 THEN 0 ELSE @ - 1]
           \/ UNCHANGED suspendCount
    BY DEF PerformDeadlockIntervention, samplerVars, ResumeThread
  <2>. QED  BY <1>0, <2>1 DEF SuspendInv
<1>3. CountInv'
  <2>. DEFINE t == pTargetThread
              p == currentPeriod'
              before == InPeriod(newPeriod)
  <2>0. p = Period(newPeriod) /\ p \in Nat /\ before \in Seq(Threads)
    BY <1>0 DEF PerformDeadlockIntervention, PeriodStarts, Period, CountInv,
                InPeriod
  <2>1. /\ interventions' = Append(before, t) /\ deadlocksInPeriod' = Len(before) + 1
        /\ deadlockCount' = [deadlockCount EXCEPT ![t] = IF deadlockPeriod[t] = p THEN @ + 1 ELSE 1]
        /\ deadlockPeriod' = [deadlockPeriod EXCEPT ![t] = p]
    BY <1>0, <2>0 DEF PerformDeadlockIntervention, PeriodStarts, CountInv, InPeriod
  <2>2. ASSUME NEW u \in Threads
        PROVE  /\ deadlockPeriod[u] <= p
               /\ Count(before, u) = IF deadlockPeriod[u] = p THEN deadlockCount[u] ELSE 0
    BY <1>0, <2>0, CountIsInterventions DEF Counting, CountInv, InPeriod, Period
  <2>. HIDE DEF before
  <2>3. ASSUME NEW u \in Threads
        PROVE  InterventionsOn(u)' = Count(before, u) + IF t = u THEN 1 ELSE 0
    BY <1>0, <2>0, <2>1, CountIsInterventions DEF Counting
  <2>4. /\ interventions' \in Seq(Threads) /\ Len(interventions') = Len(before) + 1
    BY <1>0, <2>0, <2>1
  <2>5. deadlockCount' \in [Threads -> Nat] /\ deadlockPeriod' \in [Threads -> Nat]
    BY <1>0, <2>0, <2>1 DEF CountInv
  <2>6. ASSUME NEW u \in Threads
        PROVE  /\ deadlockPeriod'[u] <= p
               /\ InterventionsOn(u)' = IF deadlockPeriod'[u] = p THEN deadlockCount'[u] ELSE 0
    BY <1>0, <2>0, <2>1, <2>2, <2>3 DEF CountInv
  <2>. QED  BY <2>0, <2>1, <2>4, <2>5, <2>6 DEF CountInv
<1>. QED  BY <1>1, <1>2, <1>3 DEF LoopInv

\* Every step of the sampler, the watcher and the threads.
LEMMA LoopKeeps ==
    ASSUME Counting, LoopInv, [Next]_vars
    PROVE  LoopInv'
BY AllowStep, SamplerPreserves, WatcherLooks, WatcherIntervenes, OthersStep
   DEF Next, Intervene

-----------------------------------------------------------------------------
INSTANCE FiniteSetTheorems

\* Nothing is in the empty sequence.
LEMMA CountNone == \A t : Count(<<>>, t) = 0
<1>. SUFFICES ASSUME NEW t PROVE Count(<<>>, t) = 0
  OBVIOUS
<1>1. {n \in DOMAIN <<>> : <<>>[n] = t} = {}
  OBVIOUS
<1>. QED  BY <1>1, FS_EmptySet DEF Count

\* One element more.
LEMMA CountMore ==
    ASSUME NEW S, NEW s \in Seq(S), NEW u \in S, NEW t
    PROVE  /\ Count(s, t) \in Nat
           /\ Count(Append(s, u), t) = Count(s, t) + IF u = t THEN 1 ELSE 0
<1>. DEFINE A == {n \in DOMAIN s : s[n] = t}
            B == {n \in DOMAIN Append(s, u) : Append(s, u)[n] = t}
<1>1. IsFiniteSet(A) /\ Cardinality(A) \in Nat
  <2>1. IsFiniteSet(1..Len(s))
    BY FS_Interval
  <2>. QED  BY <2>1, FS_Subset, FS_CardinalityType
<1>2. CASE u = t
  <2>1. B = A \cup {Len(s) + 1} /\ Len(s) + 1 \notin A
    BY <1>2
  <2>. QED  BY <1>1, <1>2, <2>1, FS_AddElement DEF Count
<1>3. CASE u # t
  <2>1. B = A
    BY <1>3
  <2>2. Count(Append(s, u), t) = Count(s, t) /\ Count(s, t) \in Nat
    BY <1>1, <2>1 DEF Count
  <2>. QED  BY <1>3, <2>2
<1>4. Count(s, t) \in Nat
  BY <1>1 DEF Count
<1>. QED  BY <1>2, <1>3, <1>4

\* So Count counts.
LEMMA Counts == Counting
BY CountNone, CountMore DEF Counting

\* The inductive invariant of the manager.
THEOREM LoopInvariance == Spec => []LoopInv
<1>1. Init => LoopInv
  BY LoopInitially, Counts
<1>2. LoopInv /\ [Next]_vars => LoopInv'
  BY LoopKeeps, Counts
<1>. QED  BY <1>1, <1>2, PTL DEF Spec

\* No collection is aborted because of an earlier one, whenever the watcher
\* intervenes.
THEOREM AbortsAreForThisCollection == Spec => []AbortIsForThisCollection
<1>1. LoopInv => AbortIsForThisCollection
  BY DEF LoopInv, AbortInv, AbortIsForThisCollection
<1>. QED  BY <1>1, LoopInvariance, PTL

\* Sampler and watcher, which both resume the target, leave no thread suspended
\* between two collections.
THEOREM NobodyIsLeftSuspended == Spec => []NoThreadLeftSuspended
<1>1. LoopInv => NoThreadLeftSuspended
  BY DEF LoopInv, SuspendInv, HoldsTarget, NoThreadLeftSuspended
<1>. QED  BY <1>1, LoopInvariance, PTL

\* GetOrResetDeadlocksCount, and the count of all threads, answer with the
\* interventions since the current period began: a thread is judged by exactly
\* those, although a counter is reset only when somebody looks at it.
THEOREM SafetyIsOfThePeriod == Spec => []SafetyIsPerPeriod
<1>1. LoopInv => SafetyIsPerPeriod
  BY DEF LoopInv, CountInv, SafetyIsPerPeriod, ShouldCollectThread, DeadlocksCount
<1>. QED  BY <1>1, LoopInvariance, PTL
=============================================================================
