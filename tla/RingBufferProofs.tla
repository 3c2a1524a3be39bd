-------------------------- MODULE RingBufferProofs --------------------------
(***************************************************************************)
(* The safety of RingBuffer for any number of writers, any buffer size and *)
(* any sample size, from the inductive invariant IInv.                     *)
(***************************************************************************)
EXTENDS RingBuffer, SequenceTheorems, TLAPS

USE RingBufferAssumption, ZenonT(5), SMTT(30)   \* the provers, in this order

-----------------------------------------------------------------------------
(***************************************************************************)
(* Arithmetic of positions.                                                *)
(***************************************************************************)

\* Euclidean division, as `pos & mask` uses it.
LEMMA DivMod ==
    ASSUME NEW x \in Nat, NEW n \in Nat, n > 0
    PROVE  /\ x \div n \in Int
           /\ x % n \in Int
           /\ x = n * (x \div n) + (x % n)
           /\ 0 <= x % n
           /\ x % n < n
BY SMT

\* Two positions with the same remainder are at least the modulus apart.
LEMMA ModGap ==
    ASSUME NEW p \in Nat, NEW q \in Nat, NEW n \in Nat, n > 0,
           p < q, p % n = q % n
    PROVE  p + n <= q
<1> DEFINE a == p \div n
           b == q \div n
<1>1. a \in Int /\ b \in Int /\ p % n \in Int /\ p = n * a + (p % n) /\ q = n * b + (q % n)
  BY DivMod
<1>2. n * a < n * b
  BY <1>1
<1> HIDE DEF a, b
<1>3. a + 1 <= b
  BY <1>1, <1>2, SMT
<1>4. n * (a + 1) <= n * b
  BY <1>1, <1>3, SMT
<1> QED BY <1>1, <1>4

\* Moving by one record keeps a position aligned.
LEMMA ModShift ==
    ASSUME NEW p \in Nat, NEW n \in Nat, n > 0
    PROVE  (p + n) % n = p % n
<1> DEFINE a == p \div n
           b == (p + n) \div n
           r == p % n
           s == (p + n) % n
<1>1. /\ a \in Int /\ b \in Int /\ r \in Int /\ s \in Int
      /\ p = n * a + r /\ p + n = n * b + s
      /\ 0 <= r /\ r < n /\ 0 <= s /\ s < n
  BY DivMod
<1> HIDE DEF a, b, r, s
<1>2. a + 1 = b
  BY <1>1
<1> QED BY <1>1, <1>2 DEF r, s

\* `pos & mask` is an address of the data area.
LEMMA AtType ==
    ASSUME NEW p \in Nat
    PROVE  At(p) \in Addresses
BY DivMod DEF At, Addresses

\* Positions less than one lap apart live in different words.
LEMMA AtInjective ==
    ASSUME NEW p \in Nat, NEW q \in Nat, p # q,
           p - q < DataWords, q - p < DataWords
    PROVE  At(p) # At(q)
<1> SUFFICES ASSUME At(p) = At(q) PROVE FALSE
  OBVIOUS
<1>1. p % DataWords = q % DataWords
  BY DEF At
<1>2. DataWords \in Nat /\ DataWords > 0
  OBVIOUS
<1>3. CASE p < q
  <2>1. p + DataWords <= q
    BY <1>1, <1>2, <1>3, ModGap
  <2> QED BY <2>1, <1>2
<1>4. CASE q < p
  <2>1. q + DataWords <= p
    BY <1>1, <1>2, <1>4, ModGap
  <2> QED BY <2>1, <1>2
<1> QED BY <1>3, <1>4

\* A record is its header and its sample.
LEMMA RecordWordsType == RecordWords \in Nat /\ RecordWords > 0 /\ RecordWords = SampleWords + 1
BY DEF RecordWords

\* Two aligned positions of one lap are starts of records that do not overlap.
LEMMA RecordsDisjoint ==
    ASSUME NEW p \in Nat, NEW q \in Nat, NEW lo \in Nat,
           NEW i \in 0 .. SampleWords, NEW j \in 0 .. SampleWords,
           p % RecordWords = 0, q % RecordWords = 0, p # q,
           lo <= p, lo <= q,
           p + RecordWords - lo <= DataWords, q + RecordWords - lo <= DataWords
    PROVE  At(p + i) # At(q + j)
<1>1. p + RecordWords <= q \/ q + RecordWords <= p
  BY ModGap, RecordWordsType
<1>2. p + i \in Nat /\ q + j \in Nat /\ p + i # q + j
  BY <1>1, RecordWordsType
<1>3. p + i - (q + j) < DataWords /\ q + j - (p + i) < DataWords
  BY RecordWordsType
<1> QED BY <1>2, <1>3, AtInjective

\* Within a record the words are different.
LEMMA RecordInjective ==
    ASSUME NEW p \in Nat, NEW i \in 0 .. SampleWords, NEW j \in 0 .. SampleWords,
           i # j, RecordWords <= DataWords
    PROVE  At(p + i) # At(p + j)
<1>1. p + i \in Nat /\ p + j \in Nat /\ p + i # p + j
  OBVIOUS
<1>2. p + i - (p + j) < DataWords /\ p + j - (p + i) < DataWords
  BY RecordWordsType
<1> QED BY <1>1, <1>2, AtInjective

\* An aligned position below another one leaves room for a whole record.
LEMMA AlignedRoom ==
    ASSUME NEW p \in Nat, NEW q \in Nat, p < q,
           p % RecordWords = 0, q % RecordWords = 0
    PROVE  p + RecordWords <= q
BY ModGap, RecordWordsType
-----------------------------------------------------------------------------
(***************************************************************************)
(* The steps of the writers.                                               *)
(***************************************************************************)

\* Whole, word by word.
LEMMA WholeWords ==
    ASSUME NEW p \in Nat
    PROVE  Whole(p) <=> \A j \in 1 .. SampleWords :
                            mem[At(p + j)] = [tag |-> "body", rec |-> p]
BY DEF Whole, BodyAddresses

\* The same in the next state.
LEMMA NextWords ==
    ASSUME NEW p \in Nat
    PROVE  /\ Header(p)' = mem'[At(p)]
           /\ Whole(p)' <=> \A j \in 1 .. SampleWords :
                               mem'[At(p + j)] = [tag |-> "body", rec |-> p]
BY DEF Header, Whole, BodyAddresses, At

\* A step that leaves the data area alone leaves headers and bodies alone.
LEMMA SameMemory ==
    ASSUME mem' = mem
    PROVE  /\ \A p : Header(p)' = Header(p)
           /\ \A p : Whole(p)' <=> Whole(p)
BY DEF Header, Whole, BodyAddresses, At

\* The constructor leaves an empty buffer that nobody holds.
LEMMA InitIInv == Init => IInv
<1> SUFFICES ASSUME Init PROVE IInv
  OBVIOUS
<1>1. TypeOK
  BY DEF Init, TypeOK, Words, Tags, WriterStates, ReaderStates
<1>2. 0 % RecordWords = 0
  BY RecordWordsType, SMT
<1>3. PositionsInv
  BY <1>2 DEF Init, PositionsInv
<1>4. ReaderInv
  BY DEF Init, ReaderInv
<1>5. LockInv
  BY DEF Init, LockInv, InReserveStates
<1>6. HoldInv /\ DistinctInv
  BY DEF Init, HoldInv, DistinctInv, Holding
<1>7. LiveInv
  BY DEF Init, LiveInv
<1> QED BY <1>1, <1>3, <1>4, <1>5, <1>6, <1>7 DEF IInv

\* Taking the lock, before the space test: nothing is published yet.
LEMMA TryLockIInv ==
    ASSUME IInv, NEW w \in Writers, TryLock(w)
    PROVE  IInv'
<1> USE DEF IInv
<1>0. mem' = mem /\ UNCHANGED <<positions, wpos, readerVars>>
  BY DEF TryLock
<1>1. TypeOK'
  BY <1>0 DEF TryLock, TypeOK, positions, readerVars, WriterStates
<1>2. \A v \in Writers : Holding(v)' = Holding(v) /\ (wpc[v]' = "filled" <=> wpc[v] = "filled")
  BY DEF TryLock, TypeOK, Holding
<1>3. PositionsInv' /\ ReaderInv'
  BY <1>0, SameMemory DEF PositionsInv, ReaderInv, positions, readerVars
<1>4. LockInv'
  BY <1>0, SameMemory DEF LockInv, TypeOK, TryLock, InReserveStates, positions
<1>5. HoldInv' /\ DistinctInv'
  BY <1>0, <1>2, SameMemory DEF HoldInv, DistinctInv, positions
<1>6. LiveInv'
  BY <1>0, SameMemory DEF LiveInv, positions
<1> QED BY <1>1, <1>3, <1>4, <1>5, <1>6

\* Reserve gives up for lack of space and releases the lock.
LEMMA ReserveFullIInv ==
    ASSUME IInv, NEW w \in Writers, ReserveFull(w)
    PROVE  IInv'
<1> USE DEF IInv
<1>0. mem' = mem /\ UNCHANGED <<positions, wpos, readerVars>>
  BY DEF ReserveFull
<1>1. TypeOK'
  BY <1>0 DEF ReserveFull, TypeOK, positions, readerVars, WriterStates
<1>2. \A v \in Writers : Holding(v)' = Holding(v) /\ (wpc[v]' = "filled" <=> wpc[v] = "filled")
  BY DEF ReserveFull, TypeOK, Holding
<1>3. PositionsInv' /\ ReaderInv'
  BY <1>0, SameMemory DEF PositionsInv, ReaderInv, positions, readerVars
<1>4. LockInv'
  BY <1>0, SameMemory DEF LockInv, TypeOK, ReserveFull, InReserveStates, positions
<1>5. HoldInv' /\ DistinctInv'
  BY <1>0, <1>2, SameMemory DEF HoldInv, DistinctInv, positions
<1>6. LiveInv'
  BY <1>0, SameMemory DEF LiveInv, positions
<1> QED BY <1>1, <1>3, <1>4, <1>5, <1>6

\* The space test: what it finds stays true while the lock is held, as the
\* reader only frees space.
LEMMA ReserveFitsIInv ==
    ASSUME IInv, NEW w \in Writers, ReserveFits(w)
    PROVE  IInv'
<1> USE DEF IInv
<1>0. mem' = mem /\ UNCHANGED <<positions, spinlock, readerVars>>
  BY DEF ReserveFits
<1>1. TypeOK'
  BY <1>0 DEF ReserveFits, TypeOK, positions, readerVars, WriterStates
<1>2. \A v \in Writers :
        /\ Holding(v)' = Holding(v)
        /\ wpc[v]' = "filled" <=> wpc[v] = "filled"
        /\ Holding(v) => wpos[v]' = wpos[v]
  BY DEF ReserveFits, TypeOK, Holding
<1>3. PositionsInv' /\ ReaderInv'
  BY <1>0, SameMemory DEF PositionsInv, ReaderInv, positions, readerVars
<1>4. writer_pos + RecordWords - reader_pos <= DataWords - 1
  BY RecordWordsType DEF ReserveFits, NoRoom, TypeOK
<1>5. LockInv'
  BY <1>0, <1>4, SameMemory DEF LockInv, TypeOK, ReserveFits, InReserveStates, positions
<1>6. HoldInv' /\ DistinctInv'
  BY <1>0, <1>2, SameMemory DEF HoldInv, DistinctInv, positions
<1>7. LiveInv'
  BY <1>0, SameMemory DEF LiveInv, positions
<1> QED BY <1>1, <1>3, <1>5, <1>6, <1>7

\* The words of the body are words of the record.
LEMMA BodyIsOfRecord == \A j \in 1 .. SampleWords : j \in 0 .. SampleWords
OBVIOUS

\* Where a writer may write its header: away from every word of a live record.
LEMMA WriterPosFree ==
    ASSUME TypeOK, PositionsInv,
           writer_pos + RecordWords - reader_pos <= DataWords - 1,
           NEW p \in Nat, reader_pos <= p, p < writer_pos, p % RecordWords = 0,
           NEW i \in 0 .. SampleWords
    PROVE  At(p + i) # At(writer_pos)
<1>1. p + RecordWords <= writer_pos
  BY AlignedRoom DEF TypeOK, PositionsInv
<1>2. /\ p + i \in Nat /\ writer_pos \in Nat /\ p + i # writer_pos
      /\ p + i - writer_pos < DataWords /\ writer_pos - (p + i) < DataWords
  BY <1>1, RecordWordsType DEF TypeOK
<1> QED BY <1>2, AtInjective

\* Reserve writes its header ahead of writer_pos, where no live record has a
\* word.
LEMMA MarkReservedIInv ==
    ASSUME IInv, NEW w \in Writers, MarkReserved(w)
    PROVE  IInv'
<1> USE DEF IInv
<1>0. UNCHANGED <<positions, spinlock, wpos, readerVars>>
  BY DEF MarkReserved
<1>1. /\ wpos[w] = writer_pos
      /\ writer_pos \in Nat
      /\ writer_pos + RecordWords - reader_pos <= DataWords - 1
  BY DEF MarkReserved, LockInv, TypeOK
<1>2. At(writer_pos) \in Addresses
  BY <1>1, AtType
<1>3. mem' = [mem EXCEPT ![At(writer_pos)] = [tag |-> "reserved", rec |-> writer_pos]]
  BY <1>1 DEF MarkReserved
<1>4. ASSUME NEW p \in Nat, reader_pos <= p, p < writer_pos, p % RecordWords = 0
      PROVE  /\ mem'[At(p)] = mem[At(p)]
             /\ \A j \in 1 .. SampleWords : mem'[At(p + j)] = mem[At(p + j)]
  <2>1. \A i \in 0 .. SampleWords : mem'[At(p + i)] = mem[At(p + i)]
    <3> TAKE i \in 0 .. SampleWords
    <3>1. p + i \in Nat
      OBVIOUS
    <3>2. At(p + i) # At(writer_pos)
      BY <1>1, <1>4, WriterPosFree
    <3>3. At(p + i) \in Addresses
      BY <3>1, AtType
    <3> QED BY <1>2, <1>3, <3>2, <3>3 DEF TypeOK
  <2>2. 0 \in 0 .. SampleWords /\ p + 0 = p /\ \A j \in 1 .. SampleWords : j \in 0 .. SampleWords
    OBVIOUS
  <2> QED BY <2>1, <2>2
<1>5. TypeOK'
  BY <1>0, <1>1, <1>2, <1>3
     DEF MarkReserved, TypeOK, positions, readerVars, WriterStates, Words, Tags
<1>6. PositionsInv'
  BY <1>0 DEF PositionsInv, positions
<1>7. ReaderInv'
  <2>1. CASE rpc = "got"
    <3>1. cur \in Nat /\ reader_pos <= cur /\ cur < writer_pos /\ cur % RecordWords = 0
      BY <2>1, RecordWordsType DEF ReaderInv, PositionsInv, TypeOK
    <3>2. mem'[At(cur)] = mem[At(cur)]
      BY <1>4, <3>1
    <3> QED BY <1>0, <2>1, <3>2 DEF ReaderInv, positions, readerVars, Header, At
  <2>2. CASE rpc # "got"
    BY <1>0, <2>2 DEF ReaderInv, positions, readerVars
  <2> QED BY <2>1, <2>2
<1>8. LockInv'
  <2>1. Header(writer_pos)' = [tag |-> "reserved", rec |-> writer_pos]
    BY <1>0, <1>2, <1>3 DEF TypeOK, Header, At, positions
  <2> QED BY <1>0, <1>1, <2>1 DEF LockInv, MarkReserved, TypeOK, InReserveStates, positions, Header
<1>9. \A v \in Writers : Holding(v)' = Holding(v) /\ (wpc[v]' = "filled" <=> wpc[v] = "filled")
  BY DEF MarkReserved, TypeOK, Holding
<1>10. HoldInv'
  <2> SUFFICES ASSUME NEW v \in Writers, Holding(v)
               PROVE  /\ wpos[v] % RecordWords = 0
                      /\ intermediate_reader_pos <= wpos[v]
                      /\ wpos[v] < writer_pos
                      /\ mem'[At(wpos[v])].tag = "reserved"
                      /\ wpc[v] = "filled" => \A j \in 1 .. SampleWords :
                             mem'[At(wpos[v] + j)] = [tag |-> "body", rec |-> wpos[v]]
    BY <1>0, <1>9 DEF HoldInv, positions, Header, Whole, BodyAddresses, At
  <2>1. wpos[v] \in Nat /\ reader_pos <= wpos[v] /\ wpos[v] < writer_pos /\ wpos[v] % RecordWords = 0
    BY DEF HoldInv, PositionsInv, TypeOK
  <2>2. mem'[At(wpos[v])] = mem[At(wpos[v])]
    BY <1>4, <2>1
  <2>3. \A j \in 1 .. SampleWords : mem'[At(wpos[v] + j)] = mem[At(wpos[v] + j)]
    BY <1>4, <2>1
  <2> QED BY <2>1, <2>2, <2>3, WholeWords DEF HoldInv, Header
<1>11. DistinctInv'
  BY <1>0, <1>9 DEF DistinctInv
<1>12. LiveInv'
  <2> SUFFICES ASSUME NEW p \in reader_pos' .. writer_pos' - 1, p % RecordWords = 0
               PROVE  /\ Header(p)'.rec = p
                      /\ Header(p)'.tag \in {"reserved", "committed", "discarded"}
                      /\ Header(p)'.tag = "committed" => Whole(p)'
    BY DEF LiveInv
  <2>1. p \in Nat /\ reader_pos <= p /\ p < writer_pos /\ p \in reader_pos .. writer_pos - 1
    BY <1>0 DEF TypeOK, positions
  <2>2. Header(p)' = Header(p)
    BY <1>4, <2>1, NextWords DEF Header
  <2>3. Whole(p)' <=> Whole(p)
    <3>1. \A j \in 1 .. SampleWords : mem'[At(p + j)] = mem[At(p + j)]
      BY <1>4, <2>1
    <3> QED BY <3>1, <2>1, NextWords, WholeWords
  <2> QED BY <2>1, <2>2, <2>3 DEF LiveInv
<1> QED BY <1>5, <1>6, <1>7, <1>8, <1>10, <1>11, <1>12

\* Storing writer_pos adds one live record, the one just marked.
LEMMA PublishIInv ==
    ASSUME IInv, NEW w \in Writers, PublishWriterPos(w)
    PROVE  IInv'
<1> USE DEF IInv
<1>0. mem' = mem /\ UNCHANGED <<reader_pos, intermediate_reader_pos, wpos, readerVars>>
  BY DEF PublishWriterPos
<1>1. /\ wpos[w] = writer_pos
      /\ writer_pos \in Nat
      /\ writer_pos' = writer_pos + RecordWords
      /\ writer_pos + RecordWords - reader_pos <= DataWords - 1
      /\ Header(writer_pos) = [tag |-> "reserved", rec |-> writer_pos]
  BY DEF PublishWriterPos, LockInv, TypeOK
<1>2. TypeOK'
  BY <1>0, <1>1, RecordWordsType DEF PublishWriterPos, TypeOK, readerVars, WriterStates
<1>3. PositionsInv'
  <2>1. writer_pos' % RecordWords = 0
    BY <1>1, ModShift, RecordWordsType DEF PositionsInv
  <2> QED BY <1>0, <1>1, <2>1, RecordWordsType DEF PositionsInv, TypeOK
<1>4. ReaderInv'
  <2>1. tail <= writer_pos => tail <= writer_pos'
    BY <1>1, RecordWordsType DEF TypeOK
  <2>2. Header(cur)' = Header(cur)
    BY <1>0 DEF Header, readerVars
  <2> QED BY <1>0, <2>1, <2>2 DEF ReaderInv, readerVars
<1>5. LockInv'
  <2>1. \A v \in Writers : v # w => wpc[v] \notin InReserveStates /\ wpc'[v] = wpc[v]
    BY DEF PublishWriterPos, LockInv, InReserveStates, TypeOK
  <2> QED BY <2>1 DEF PublishWriterPos, LockInv, InReserveStates, TypeOK
<1>6. \A v \in Writers : v # w => Holding(v)' = Holding(v) /\ (wpc[v]' = "filled" <=> wpc[v] = "filled")
  BY DEF PublishWriterPos, TypeOK, Holding
<1>7. wpc'[w] = "reserved"
  BY DEF PublishWriterPos, TypeOK
<1>8. HoldInv'
  <2> SUFFICES ASSUME NEW v \in Writers, Holding(v)'
               PROVE  /\ wpos[v] % RecordWords = 0
                      /\ intermediate_reader_pos <= wpos[v]
                      /\ wpos[v] < writer_pos + RecordWords
                      /\ Header(wpos[v]).tag = "reserved"
                      /\ wpc'[v] = "filled" => Whole(wpos[v])
    BY <1>0, <1>1, SameMemory DEF HoldInv
  <2>1. CASE v = w
    BY <1>1, <1>7, <2>1, RecordWordsType DEF PositionsInv, TypeOK
  <2>2. CASE v # w
    BY <1>1, <1>6, <2>2, RecordWordsType DEF HoldInv, TypeOK
  <2> QED BY <2>1, <2>2
<1>9. DistinctInv'
  <2>1. \A v \in Writers : v # w /\ Holding(v) => wpos[v] < writer_pos /\ wpos[v] \in Nat
    BY DEF HoldInv, TypeOK
  <2> QED BY <1>0, <1>1, <1>6, <2>1 DEF DistinctInv
<1>10. LiveInv'
  <2> SUFFICES ASSUME NEW p \in reader_pos' .. writer_pos' - 1, p % RecordWords = 0
               PROVE  /\ Header(p)'.rec = p
                      /\ Header(p)'.tag \in {"reserved", "committed", "discarded"}
                      /\ Header(p)'.tag = "committed" => Whole(p)'
    BY DEF LiveInv
  <2>0. /\ Header(p)' = Header(p)
        /\ Whole(p)' <=> Whole(p)
        /\ p \in reader_pos .. writer_pos + RecordWords - 1
    <3>1. p \in reader_pos .. writer_pos + RecordWords - 1
      BY <1>0, <1>1, RecordWordsType DEF TypeOK
    <3> QED BY <1>0, <3>1, SameMemory
  <2>1. CASE p < writer_pos
    BY <2>0, <2>1 DEF LiveInv, TypeOK
  <2>2. CASE p = writer_pos
    BY <1>1, <2>0, <2>2
  <2>3. CASE p > writer_pos
    <3>1. p \in Nat
      BY <2>0, RecordWordsType DEF TypeOK
    <3>2. writer_pos + RecordWords <= p
      BY <1>1, <2>3, <3>1, AlignedRoom DEF PositionsInv
    <3> QED BY <2>0, <3>1, <3>2, <1>1, RecordWordsType
  <2> QED BY <2>0, <2>1, <2>2, <2>3, RecordWordsType DEF TypeOK
<1> QED BY <1>2, <1>3, <1>4, <1>5, <1>8, <1>9, <1>10

\* The words of the live records are all different.
LEMMA LiveApart ==
    ASSUME TypeOK, PositionsInv,
           NEW p \in Nat, reader_pos <= p, p < writer_pos, p % RecordWords = 0,
           NEW q \in Nat, reader_pos <= q, q < writer_pos, q % RecordWords = 0,
           NEW i \in 0 .. SampleWords, NEW j \in 0 .. SampleWords,
           p # q \/ i # j
    PROVE  At(p + i) # At(q + j)
<1>1. p + RecordWords <= writer_pos /\ q + RecordWords <= writer_pos
  BY AlignedRoom DEF TypeOK, PositionsInv
<1>2. /\ p + RecordWords - reader_pos <= DataWords
      /\ q + RecordWords - reader_pos <= DataWords
      /\ RecordWords <= DataWords
  BY <1>1, RecordWordsType DEF TypeOK, PositionsInv
<1>3. CASE p # q
  BY <1>2, <1>3, RecordsDisjoint DEF TypeOK
<1>4. CASE p = q
  BY <1>2, <1>4, RecordInjective
<1> QED BY <1>3, <1>4

\* The facts about the record of a writer that holds one.
LEMMA HeldRecord ==
    ASSUME IInv, NEW w \in Writers, Holding(w)
    PROVE  /\ wpos[w] \in Nat
           /\ reader_pos <= wpos[w]
           /\ wpos[w] < writer_pos
           /\ wpos[w] % RecordWords = 0
           /\ intermediate_reader_pos <= wpos[w]
           /\ mem[At(wpos[w])] = [tag |-> "reserved", rec |-> wpos[w]]
           /\ At(wpos[w]) \in Addresses
<1>1. /\ wpos[w] \in Nat
      /\ reader_pos <= wpos[w]
      /\ wpos[w] < writer_pos
      /\ wpos[w] % RecordWords = 0
      /\ intermediate_reader_pos <= wpos[w]
      /\ Header(wpos[w]).tag = "reserved"
  BY DEF IInv, HoldInv, PositionsInv, TypeOK
<1>2. wpos[w] \in reader_pos .. writer_pos - 1
  BY <1>1 DEF IInv, TypeOK
<1>3. Header(wpos[w]).rec = wpos[w]
  BY <1>1, <1>2 DEF IInv, LiveInv
<1>4. At(wpos[w]) \in Addresses
  BY <1>1, AtType
<1>5. mem[At(wpos[w])] \in Words
  BY <1>4 DEF IInv, TypeOK
<1> QED BY <1>1, <1>3, <1>4, <1>5 DEF Header, Words

\* A handler fills its own record: the words of the others are elsewhere.
LEMMA FillSampleIInv ==
    ASSUME IInv, NEW w \in Writers, FillSample(w)
    PROVE  IInv'
<1> USE DEF IInv
<1> DEFINE q == wpos[w]
<1>0. UNCHANGED <<positions, spinlock, wpos, readerVars>>
  BY DEF FillSample
<1>1. Holding(w)
  BY DEF FillSample, Holding
<1>2. /\ q \in Nat /\ reader_pos <= q /\ q < writer_pos /\ q % RecordWords = 0
      /\ intermediate_reader_pos <= q
      /\ mem[At(q)] = [tag |-> "reserved", rec |-> q]
  BY <1>1, HeldRecord
<1>3. mem' = [a \in Addresses |-> IF a \in BodyAddresses(q)
                                  THEN [tag |-> "body", rec |-> q]
                                  ELSE mem[a]]
  BY DEF FillSample
<1> HIDE DEF q
<1>4. ASSUME NEW p \in Nat, At(p) \notin BodyAddresses(q)
      PROVE  mem'[At(p)] = mem[At(p)]
  BY <1>3, <1>4, AtType
<1>5. ASSUME NEW p \in Nat, reader_pos <= p, p < writer_pos, p % RecordWords = 0,
             NEW i \in 0 .. SampleWords, p # q \/ i = 0
      PROVE  mem'[At(p + i)] = mem[At(p + i)]
  <2>1. p + i \in Nat
    OBVIOUS
  <2>2. \A j \in 1 .. SampleWords : j \in 0 .. SampleWords /\ (p # q \/ i # j)
    BY <1>5
  <2>3. \A j \in 1 .. SampleWords : At(p + i) # At(q + j)
    BY <1>2, <1>5, <2>2, LiveApart
  <2>4. At(p + i) \notin BodyAddresses(q)
    BY <2>3 DEF BodyAddresses
  <2> QED BY <1>4, <2>1, <2>4
<1>6. ASSUME NEW p \in Nat, reader_pos <= p, p < writer_pos, p % RecordWords = 0
      PROVE  /\ mem'[At(p)] = mem[At(p)]
             /\ p # q => \A j \in 1 .. SampleWords : mem'[At(p + j)] = mem[At(p + j)]
  <2>1. 0 \in 0 .. SampleWords /\ p + 0 = p /\ \A j \in 1 .. SampleWords : j \in 0 .. SampleWords
    OBVIOUS
  <2>2. mem'[At(p + 0)] = mem[At(p + 0)]
    BY <1>5, <1>6, <2>1
  <2>3. ASSUME p # q, NEW j \in 1 .. SampleWords
        PROVE  mem'[At(p + j)] = mem[At(p + j)]
    BY <1>5, <1>6, <2>1, <2>3
  <2> QED BY <2>1, <2>2, <2>3
<1>7. \A j \in 1 .. SampleWords : mem'[At(q + j)] = [tag |-> "body", rec |-> q]
  <2> TAKE j \in 1 .. SampleWords
  <2>1. At(q + j) \in Addresses
    BY <1>2, AtType
  <2> QED BY <1>3, <2>1 DEF BodyAddresses
<1>8. TypeOK'
  BY <1>0, <1>2, <1>3 DEF FillSample, TypeOK, positions, readerVars, WriterStates, Words, Tags
<1>9. PositionsInv'
  BY <1>0 DEF PositionsInv, positions
<1>10. ReaderInv'
  <2>1. CASE rpc = "got"
    <3>1. cur \in Nat /\ reader_pos <= cur /\ cur < writer_pos /\ cur % RecordWords = 0
      BY <2>1, RecordWordsType DEF ReaderInv, PositionsInv, TypeOK
    <3>2. mem'[At(cur)] = mem[At(cur)]
      BY <1>6, <3>1
    <3> QED BY <1>0, <2>1, <3>2 DEF ReaderInv, positions, readerVars, Header, At
  <2>2. CASE rpc # "got"
    BY <1>0, <2>2 DEF ReaderInv, positions, readerVars
  <2> QED BY <2>1, <2>2
<1>11. LockInv'
  <2>1. ASSUME NEW v \in Writers, wpc[v] = "marked"
        PROVE  mem'[At(writer_pos)] = mem[At(writer_pos)]
    <3>1. writer_pos + RecordWords - reader_pos <= DataWords - 1 /\ writer_pos \in Nat
      BY <2>1 DEF LockInv, TypeOK
    <3>2. \A j \in 1 .. SampleWords : At(q + j) # At(writer_pos)
      BY <1>2, <3>1, BodyIsOfRecord, WriterPosFree
    <3>3. At(writer_pos) \notin BodyAddresses(q)
      BY <3>2 DEF BodyAddresses
    <3> QED BY <1>4, <3>1, <3>3
  <2>2. \A v \in Writers : wpc'[v] \in InReserveStates => wpc'[v] = wpc[v]
    BY DEF FillSample, TypeOK, InReserveStates
  <2>3. \A v \in Writers : wpc'[v] \in InReserveStates <=> spinlock' = v
    BY <1>0 DEF FillSample, LockInv, TypeOK, InReserveStates
  <2>4. writer_pos' = writer_pos /\ reader_pos' = reader_pos /\ wpos' = wpos
    BY <1>0 DEF positions
  <2>5. Header(writer_pos)' = mem'[At(writer_pos)] /\ Header(writer_pos) = mem[At(writer_pos)]
    BY <2>4 DEF Header, At
  <2> QED BY <2>1, <2>2, <2>3, <2>4, <2>5 DEF LockInv, InReserveStates
<1>12. \A v \in Writers : Holding(v)' <=> Holding(v)
  BY DEF FillSample, TypeOK, Holding
<1>13. HoldInv'
  <2> SUFFICES ASSUME NEW v \in Writers, Holding(v)
               PROVE  /\ wpos[v] % RecordWords = 0
                      /\ intermediate_reader_pos <= wpos[v]
                      /\ wpos[v] < writer_pos
                      /\ mem'[At(wpos[v])].tag = "reserved"
                      /\ wpc'[v] = "filled" => \A j \in 1 .. SampleWords :
                             mem'[At(wpos[v] + j)] = [tag |-> "body", rec |-> wpos[v]]
    BY <1>0, <1>12 DEF HoldInv, positions, Header, Whole, BodyAddresses, At
  <2>1. /\ wpos[v] \in Nat /\ reader_pos <= wpos[v] /\ wpos[v] < writer_pos
        /\ wpos[v] % RecordWords = 0 /\ intermediate_reader_pos <= wpos[v]
        /\ mem[At(wpos[v])] = [tag |-> "reserved", rec |-> wpos[v]]
    BY HeldRecord
  <2>2. mem'[At(wpos[v])] = [tag |-> "reserved", rec |-> wpos[v]]
    BY <1>6, <2>1
  <2>3. CASE v = w
    BY <1>7, <2>1, <2>2, <2>3 DEF q
  <2>4. CASE v # w
    <3>1. wpos[v] # q /\ wpc'[v] = wpc[v]
      BY <1>1, <2>4 DEF DistinctInv, q, FillSample, TypeOK
    <3>2. \A j \in 1 .. SampleWords : mem'[At(wpos[v] + j)] = mem[At(wpos[v] + j)]
      BY <1>6, <2>1, <3>1
    <3>3. wpc[v] = "filled" => Whole(wpos[v])
      BY DEF HoldInv
    <3> QED BY <2>1, <2>2, <3>1, <3>2, <3>3, WholeWords
  <2> QED BY <2>3, <2>4
<1>14. DistinctInv'
  BY <1>0, <1>12 DEF DistinctInv
<1>15. LiveInv'
  <2> SUFFICES ASSUME NEW p \in reader_pos' .. writer_pos' - 1, p % RecordWords = 0
               PROVE  /\ Header(p)'.rec = p
                      /\ Header(p)'.tag \in {"reserved", "committed", "discarded"}
                      /\ Header(p)'.tag = "committed" => Whole(p)'
    BY DEF LiveInv
  <2>1. p \in Nat /\ reader_pos <= p /\ p < writer_pos /\ p \in reader_pos .. writer_pos - 1
    BY <1>0 DEF TypeOK, positions
  <2>2. Header(p)' = Header(p)
    BY <1>6, <2>1, NextWords DEF Header
  <2>3. p # q => (Whole(p)' <=> Whole(p))
    <3> SUFFICES ASSUME p # q PROVE Whole(p)' <=> Whole(p)
      OBVIOUS
    <3>1. \A j \in 1 .. SampleWords : mem'[At(p + j)] = mem[At(p + j)]
      BY <1>6, <2>1
    <3> QED BY <3>1, <2>1, NextWords, WholeWords
  <2>4. p = q => Header(p).tag = "reserved"
    BY <1>2 DEF Header
  <2> QED BY <2>1, <2>2, <2>3, <2>4 DEF LiveInv
<1> QED BY <1>8, <1>9, <1>10, <1>11, <1>13, <1>14, <1>15

\* Commit and Discard decide a record by rewriting its header only.
LEMMA ReleaseIInv ==
    ASSUME IInv, NEW w \in Writers, NEW status \in {"committed", "discarded"},
           Release(w, status)
    PROVE  IInv'
<1> USE DEF IInv
<1> DEFINE q == wpos[w]
<1>0. UNCHANGED <<positions, spinlock, wpos, readerVars>>
  BY DEF Release
<1>1. Holding(w) /\ wpc[w] = "filled" /\ Whole(q)
  BY DEF Release, Holding, HoldInv
<1>2. /\ q \in Nat /\ reader_pos <= q /\ q < writer_pos /\ q % RecordWords = 0
      /\ intermediate_reader_pos <= q
      /\ mem[At(q)] = [tag |-> "reserved", rec |-> q]
      /\ At(q) \in Addresses
  BY <1>1, HeldRecord
<1>3. mem' = [mem EXCEPT ![At(q)] = [tag |-> status, rec |-> q]]
  <2>1. mem' = [mem EXCEPT ![At(q)] = [mem[At(q)] EXCEPT !.tag = status]]
    BY DEF Release
  <2>2. [mem[At(q)] EXCEPT !.tag = status] = [tag |-> status, rec |-> q]
    BY <1>2
  <2> QED BY <2>1, <2>2
<1> HIDE DEF q
<1>4. ASSUME NEW p \in Nat, At(p) # At(q)
      PROVE  mem'[At(p)] = mem[At(p)]
  BY <1>2, <1>3, <1>4, AtType DEF TypeOK
<1>5. mem'[At(q)] = [tag |-> status, rec |-> q]
  BY <1>2, <1>3 DEF TypeOK
<1>6. ASSUME NEW p \in Nat, reader_pos <= p, p < writer_pos, p % RecordWords = 0
      PROVE  /\ p # q => mem'[At(p)] = mem[At(p)]
             /\ \A j \in 1 .. SampleWords : mem'[At(p + j)] = mem[At(p + j)]
  <2>1. 0 \in 0 .. SampleWords /\ p + 0 = p /\ q + 0 = q
    BY <1>2
  <2>2. ASSUME p # q PROVE mem'[At(p)] = mem[At(p)]
    <3>1. At(p + 0) # At(q + 0)
      BY <1>2, <1>6, <2>1, <2>2, LiveApart
    <3> QED BY <1>4, <2>1, <3>1
  <2>3. ASSUME NEW j \in 1 .. SampleWords PROVE mem'[At(p + j)] = mem[At(p + j)]
    <3>1. j \in 0 .. SampleWords /\ j # 0 /\ p + j \in Nat
      OBVIOUS
    <3>2. At(p + j) # At(q + 0)
      BY <1>2, <1>6, <2>1, <3>1, LiveApart
    <3> QED BY <1>4, <2>1, <3>1, <3>2
  <2> QED BY <2>2, <2>3
<1>8. TypeOK'
  <2>1. mem' \in [Addresses -> Words]
    BY <1>2, <1>3 DEF TypeOK, Words, Tags
  <2> QED BY <1>0, <2>1 DEF Release, TypeOK, positions, readerVars, WriterStates
<1>9. PositionsInv'
  BY <1>0 DEF PositionsInv, positions
<1>10. ReaderInv'
  <2>1. CASE rpc = "got"
    <3>1. cur \in Nat /\ reader_pos <= cur /\ cur < writer_pos /\ cur % RecordWords = 0 /\ cur # q
      BY <1>2, <2>1, RecordWordsType DEF ReaderInv, PositionsInv, TypeOK
    <3>2. mem'[At(cur)] = mem[At(cur)]
      BY <1>6, <3>1
    <3> QED BY <1>0, <2>1, <3>2 DEF ReaderInv, positions, readerVars, Header, At
  <2>2. CASE rpc # "got"
    BY <1>0, <2>2 DEF ReaderInv, positions, readerVars
  <2> QED BY <2>1, <2>2
<1>11. LockInv'
  <2>1. ASSUME NEW v \in Writers, wpc[v] = "marked"
        PROVE  mem'[At(writer_pos)] = mem[At(writer_pos)]
    <3>1. writer_pos + RecordWords - reader_pos <= DataWords - 1 /\ writer_pos \in Nat
      BY <2>1 DEF LockInv, TypeOK
    <3>2. 0 \in 0 .. SampleWords /\ q + 0 = q
      BY <1>2
    <3>3. At(q + 0) # At(writer_pos)
      BY <1>2, <3>1, <3>2, WriterPosFree
    <3> QED BY <1>4, <3>1, <3>2, <3>3
  <2>2. \A v \in Writers : wpc'[v] \in InReserveStates => wpc'[v] = wpc[v]
    BY DEF Release, TypeOK, InReserveStates
  <2>3. \A v \in Writers : wpc'[v] \in InReserveStates <=> spinlock' = v
    BY <1>0 DEF Release, LockInv, TypeOK, InReserveStates
  <2>4. writer_pos' = writer_pos /\ reader_pos' = reader_pos /\ wpos' = wpos
    BY <1>0 DEF positions
  <2>5. Header(writer_pos)' = mem'[At(writer_pos)] /\ Header(writer_pos) = mem[At(writer_pos)]
    BY <2>4 DEF Header, At
  <2> QED BY <2>1, <2>2, <2>3, <2>4, <2>5 DEF LockInv, InReserveStates
<1>12. \A v \in Writers : Holding(v)' <=> Holding(v) /\ v # w
  BY DEF Release, TypeOK, Holding
<1>13. HoldInv'
  <2> SUFFICES ASSUME NEW v \in Writers, Holding(v), v # w
               PROVE  /\ wpos[v] % RecordWords = 0
                      /\ intermediate_reader_pos <= wpos[v]
                      /\ wpos[v] < writer_pos
                      /\ mem'[At(wpos[v])].tag = "reserved"
                      /\ wpc'[v] = "filled" => \A j \in 1 .. SampleWords :
                             mem'[At(wpos[v] + j)] = [tag |-> "body", rec |-> wpos[v]]
    BY <1>0, <1>12 DEF HoldInv, positions, Header, Whole, BodyAddresses, At
  <2>1. /\ wpos[v] \in Nat /\ reader_pos <= wpos[v] /\ wpos[v] < writer_pos
        /\ wpos[v] % RecordWords = 0 /\ intermediate_reader_pos <= wpos[v]
        /\ mem[At(wpos[v])] = [tag |-> "reserved", rec |-> wpos[v]]
    BY HeldRecord
  <2>2. wpos[v] # q /\ wpc'[v] = wpc[v]
    BY <1>1 DEF DistinctInv, q, Release, TypeOK
  <2>3. mem'[At(wpos[v])] = [tag |-> "reserved", rec |-> wpos[v]]
    BY <1>6, <2>1, <2>2
  <2>4. \A j \in 1 .. SampleWords : mem'[At(wpos[v] + j)] = mem[At(wpos[v] + j)]
    BY <1>6, <2>1
  <2>5. wpc[v] = "filled" => Whole(wpos[v])
    BY DEF HoldInv
  <2> QED BY <2>1, <2>2, <2>3, <2>4, <2>5, WholeWords
<1>14. DistinctInv'
  BY <1>0, <1>12 DEF DistinctInv
<1>15. LiveInv'
  <2> SUFFICES ASSUME NEW p \in reader_pos' .. writer_pos' - 1, p % RecordWords = 0
               PROVE  /\ Header(p)'.rec = p
                      /\ Header(p)'.tag \in {"reserved", "committed", "discarded"}
                      /\ Header(p)'.tag = "committed" => Whole(p)'
    BY DEF LiveInv
  <2>1. p \in Nat /\ reader_pos <= p /\ p < writer_pos /\ p \in reader_pos .. writer_pos - 1
    BY <1>0 DEF TypeOK, positions
  <2>2. Whole(p)' <=> Whole(p)
    <3>1. \A j \in 1 .. SampleWords : mem'[At(p + j)] = mem[At(p + j)]
      BY <1>6, <2>1
    <3> QED BY <3>1, <2>1, NextWords, WholeWords
  <2>3. CASE p # q
    <3>1. Header(p)' = Header(p)
      BY <1>6, <2>1, <2>3, NextWords DEF Header
    <3> QED BY <2>1, <2>2, <3>1 DEF LiveInv
  <2>4. CASE p = q
    <3>1. Header(p)' = [tag |-> status, rec |-> q]
      BY <1>5, <2>1, <2>4, NextWords
    <3> QED BY <1>1, <2>2, <2>4, <3>1
  <2> QED BY <2>3, <2>4
<1> QED BY <1>8, <1>9, <1>10, <1>11, <1>13, <1>14, <1>15
-----------------------------------------------------------------------------
(***************************************************************************)
(* The steps of the reader.                                                *)
(***************************************************************************)

\* Steps that only move the reader between its states.
LEMMA ReaderStateIInv ==
    ASSUME IInv, GetReader \/ GetNextNone \/ Transform \/ TransformThrows
    PROVE  IInv'
<1> USE DEF IInv
<1>0. UNCHANGED <<positions, spinlock, mem, wpc, wpos, cur>>
  BY DEF GetReader, GetNextNone, Transform, TransformThrows
<1>1. TypeOK'
  BY <1>0 DEF GetReader, GetNextNone, Transform, TransformThrows, TypeOK, positions, ReaderStates
<1>2. PositionsInv'
  BY <1>0 DEF PositionsInv, positions
<1>3. ReaderInv'
  <2>1. CASE GetReader
    BY <1>0, <2>1 DEF GetReader, ReaderInv, PositionsInv, TypeOK, positions
  <2>2. CASE GetNextNone \/ Transform \/ TransformThrows
    BY <1>0, <2>2 DEF GetNextNone, Transform, TransformThrows, ReaderInv, positions
  <2> QED BY <2>1, <2>2
<1>4. LockInv'
  BY <1>0, SameMemory DEF LockInv, positions
<1>5. HoldInv' /\ DistinctInv'
  BY <1>0, SameMemory DEF HoldInv, DistinctInv, Holding, positions
<1>6. LiveInv'
  BY <1>0, SameMemory DEF LiveInv, positions
<1> QED BY <1>1, <1>2, <1>3, <1>4, <1>5, <1>6

\* Moving over a decided record: no writer holds it, so every holder is ahead.
LEMMA AdvanceIInv ==
    ASSUME IInv, GetNextDiscarded \/ GetNextSample
    PROVE  IInv'
<1> USE DEF IInv
<1> DEFINE h == intermediate_reader_pos
<1>0. /\ UNCHANGED <<reader_pos, writer_pos, spinlock, mem, wpc, wpos, tail>>
      /\ rpc = "open"
      /\ h # tail
      /\ h' = h + RecordWords
      /\ Header(h).tag # "reserved"
  BY DEF GetNextDiscarded, GetNextSample, readerVars
<1>1. /\ h \in Nat /\ tail \in Nat /\ writer_pos \in Nat /\ reader_pos \in Nat
      /\ h % RecordWords = 0 /\ tail % RecordWords = 0
      /\ reader_pos <= h /\ h <= tail /\ tail <= writer_pos
  BY <1>0 DEF TypeOK, PositionsInv, ReaderInv
<1>2. h + RecordWords <= tail
  BY <1>0, <1>1, AlignedRoom
<1>3. (h + RecordWords) % RecordWords = 0
  BY <1>1, ModShift, RecordWordsType
<1>4. TypeOK'
  BY <1>0, RecordWordsType DEF GetNextDiscarded, GetNextSample, TypeOK, ReaderStates, readerVars
<1>5. PositionsInv'
  <2>1. reader_pos <= h + RecordWords /\ h + RecordWords <= writer_pos
    BY <1>1, <1>2, RecordWordsType
  <2> QED BY <1>0, <1>3, <2>1 DEF PositionsInv
<1>6. ReaderInv'
  <2>1. CASE GetNextDiscarded
    BY <1>0, <1>1, <1>2, <2>1 DEF GetNextDiscarded, ReaderInv, readerVars
  <2>2. CASE GetNextSample
    <3>1. h \in reader_pos .. writer_pos - 1
      BY <1>0, <1>1
    <3>2. Header(h).tag = "committed"
      BY <1>1, <2>2, <3>1 DEF GetNextSample, LiveInv
    <3>3. cur' = h /\ Header(cur)' = Header(h)
      BY <1>0, <2>2 DEF GetNextSample, Header
    <3> QED BY <1>0, <1>1, <1>2, <2>2, <3>2, <3>3 DEF GetNextSample, ReaderInv
  <2> QED BY <2>1, <2>2
<1>7. LockInv'
  BY <1>0, SameMemory DEF LockInv
<1>8. \A v \in Writers : Holding(v) => h + RecordWords <= wpos[v]
  <2> SUFFICES ASSUME NEW v \in Writers, Holding(v)
               PROVE  h + RecordWords <= wpos[v]
    OBVIOUS
  <2>1. wpos[v] \in Nat /\ wpos[v] % RecordWords = 0 /\ h <= wpos[v] /\ mem[At(wpos[v])].tag = "reserved"
    BY DEF HoldInv, TypeOK, Header
  <2>2. wpos[v] # h
    BY <1>0, <2>1 DEF Header, At
  <2> QED BY <1>1, <2>1, <2>2, AlignedRoom
<1>9. HoldInv' /\ DistinctInv'
  <2>1. \A v \in Writers : Holding(v)' <=> Holding(v)
    BY <1>0 DEF Holding
  <2> QED BY <1>0, <1>8, <2>1, SameMemory DEF HoldInv, DistinctInv
<1>10. LiveInv'
  BY <1>0, SameMemory DEF LiveInv
<1> QED BY <1>4, <1>5, <1>6, <1>7, <1>9, <1>10

\* The reader's destructor frees exactly the records it has gone over.
LEMMA CloseReaderIInv ==
    ASSUME IInv, CloseReader
    PROVE  IInv'
<1> USE DEF IInv
<1>0. /\ UNCHANGED <<writer_pos, intermediate_reader_pos, spinlock, mem, wpc, wpos, tail, cur>>
      /\ reader_pos' = intermediate_reader_pos
      /\ rpc' = "none"
  BY DEF CloseReader, PositionsInv, TypeOK
<1>1. TypeOK'
  BY <1>0 DEF TypeOK, ReaderStates
<1>2. PositionsInv'
  BY <1>0 DEF PositionsInv, TypeOK
<1>3. ReaderInv'
  BY <1>0 DEF ReaderInv
<1>4. LockInv'
  <2>1. writer_pos + RecordWords - reader_pos <= DataWords - 1
          => writer_pos + RecordWords - intermediate_reader_pos <= DataWords - 1
    BY RecordWordsType DEF PositionsInv, TypeOK
  <2> QED BY <1>0, <2>1, SameMemory DEF LockInv
<1>5. HoldInv' /\ DistinctInv'
  BY <1>0, SameMemory DEF HoldInv, DistinctInv, Holding
<1>6. LiveInv'
  <2>1. \A p \in intermediate_reader_pos .. writer_pos - 1 : p \in reader_pos .. writer_pos - 1
    BY DEF PositionsInv, TypeOK
  <2> QED BY <1>0, <2>1, SameMemory DEF LiveInv
<1> QED BY <1>1, <1>2, <1>3, <1>4, <1>5, <1>6
-----------------------------------------------------------------------------
(***************************************************************************)
(* The theorems.                                                           *)
(***************************************************************************)

\* IInv holds initially and is preserved by every step of every writer and of
\* the reader.
THEOREM Invariance == Spec => []IInv
<1>1. Init => IInv
  BY InitIInv
<1>2. IInv /\ [Next]_vars => IInv'
  <2> SUFFICES ASSUME IInv, [Next]_vars PROVE IInv'
    OBVIOUS
  <2>1. CASE UNCHANGED vars
    <3>1. UNCHANGED <<positions, spinlock, mem, wpc, wpos, readerVars>>
      BY <2>1 DEF vars, positions, readerVars
    <3>2. TypeOK' /\ PositionsInv' /\ ReaderInv' /\ LockInv'
      BY <3>1, SameMemory DEF IInv, TypeOK, PositionsInv, ReaderInv, LockInv, positions, readerVars
    <3>3. HoldInv' /\ DistinctInv' /\ LiveInv'
      BY <3>1, SameMemory, ZenonT(60) DEF IInv, HoldInv, DistinctInv, LiveInv, Holding, positions
    <3> QED BY <3>2, <3>3 DEF IInv
  <2>2. ASSUME NEW w \in Writers, Writer(w) PROVE IInv'
    <3>1. CASE TryLock(w)
      BY <3>1, TryLockIInv
    <3>2. CASE LockTimeout(w)
      BY <2>1, <3>2 DEF LockTimeout
    <3>3. CASE ReserveFull(w)
      BY <3>3, ReserveFullIInv
    <3>4. CASE ReserveFits(w)
      BY <3>4, ReserveFitsIInv
    <3>5. CASE MarkReserved(w)
      BY <3>5, MarkReservedIInv
    <3>6. CASE PublishWriterPos(w)
      BY <3>6, PublishIInv
    <3>7. CASE FillSample(w)
      BY <3>7, FillSampleIInv
    <3>8. CASE Commit(w)
      BY <3>8, ReleaseIInv DEF Commit
    <3>9. CASE Discard(w)
      BY <3>9, ReleaseIInv DEF Discard
    <3> QED BY <2>2, <3>1, <3>2, <3>3, <3>4, <3>5, <3>6, <3>7, <3>8, <3>9
            DEF Writer, InReserve, FinishSample
  <2>3. CASE Reader
    BY <2>3, ReaderStateIInv, AdvanceIInv, CloseReaderIInv DEF Reader
  <2> QED BY <2>1, <2>2, <2>3 DEF Next
<1> QED BY <1>1, <1>2, PTL DEF Spec

\* Type correctness: the positions stay natural numbers and the words words.
THEOREM TypeCorrect == Spec => []TypeOK
<1>1. IInv => TypeOK
  BY DEF IInv
<1> QED BY <1>1, Invariance, PTL

\* A sample the reader looks at is committed and whole, for any buffer size
\* and any number of writers: the space test of Reserve and the reserved bit
\* are enough to keep writers off it.
THEOREM SampleIntactHolds == Spec => []SampleIntact
<1>1. IInv => SampleIntact
  <2> SUFFICES ASSUME IInv, rpc = "got"
               PROVE  Header(cur) = [tag |-> "committed", rec |-> cur] /\ Whole(cur)
    BY DEF SampleIntact
  <2>1. /\ cur \in Nat /\ cur % RecordWords = 0 /\ Header(cur).tag = "committed"
        /\ cur \in reader_pos .. writer_pos - 1
    BY RecordWordsType DEF IInv, ReaderInv, PositionsInv, TypeOK
  <2>2. Header(cur).rec = cur /\ Whole(cur)
    BY <2>1 DEF IInv, LiveInv
  <2>3. Header(cur) \in Words
    BY <2>1, AtType DEF IInv, TypeOK, Header
  <2> QED BY <2>1, <2>2, <2>3 DEF Words
<1> QED BY <1>1, Invariance, PTL

\* Nobody writes to a record between Reserve and Commit but its own handler.
THEOREM ReservationKeptHolds == Spec => []ReservationKept
<1>1. IInv => ReservationKept
  BY HeldRecord DEF IInv, HoldInv, ReservationKept, Header
<1> QED BY <1>1, Invariance, PTL

\* The reader never passes a record that is still being filled.
THEOREM ReaderBehindWritersHolds == Spec => []ReaderBehindWriters
<1>1. IInv => ReaderBehindWriters
  BY DEF IInv, HoldInv, ReaderBehindWriters
<1> QED BY <1>1, Invariance, PTL

\* The assertions of the Reader constructor hold.
THEOREM ReaderAssertsHold == Spec => []ReaderAsserts
<1>1. IInv => ReaderAsserts
  BY DEF IInv, ReaderInv, PositionsInv, ReaderAsserts
<1> QED BY <1>1, Invariance, PTL
-----------------------------------------------------------------------------
(***************************************************************************)
(* The buffer implements SampleQueue.  Positions that are starts of        *)
(* records are reader_pos plus a number of records, and that number is the *)
(* place of the record in the queue.                                       *)
(***************************************************************************)

\* The queue that Queue reads off the buffer.
Place(i) == reader_pos + (i - 1) * RecordWords
Entries == [i \in 1 .. Records |-> Header(reader_pos + (i - 1) * RecordWords).tag]
Taken == (intermediate_reader_pos - reader_pos) \div RecordWords
Statuses == {"reserved", "committed", "discarded"}

\* A number of whole records divides by the size of a record.
LEMMA WholeRecords ==
    ASSUME NEW k \in Nat
    PROVE  /\ k * RecordWords \in Nat
           /\ (k * RecordWords) \div RecordWords = k
           /\ (k * RecordWords) % RecordWords = 0
<1> DEFINE x == k * RecordWords
<1>1. PICK n \in Nat : n = RecordWords
  BY RecordWordsType
<1>2. x \in Nat /\ n > 0 /\ x = n * k
  BY <1>1, RecordWordsType
<1>3. /\ x \div n \in Int /\ x % n \in Int /\ x = n * (x \div n) + (x % n)
      /\ 0 <= x % n /\ x % n < n
  BY <1>2, DivMod
<1>4. PICK d \in Int, r \in Int : d = x \div n /\ r = x % n
  BY <1>3
<1>5. n * k = n * d + r /\ 0 <= r /\ r < n
  BY <1>2, <1>3, <1>4
<1>6. k - d = 0
  <2>1. n * (k - d) = r
    BY <1>5
  <2>2. CASE k - d >= 1
    BY <1>2, <1>5, <2>1, <2>2
  <2>3. CASE k - d <= -1
    BY <1>2, <1>5, <2>1, <2>3
  <2> QED BY <2>2, <2>3
<1> QED BY <1>1, <1>2, <1>4, <1>5, <1>6

\* Between two starts of records there is a number of whole records.
LEMMA Distance ==
    ASSUME NEW a \in Nat, NEW b \in Nat, a <= b,
           a % RecordWords = 0, b % RecordWords = 0
    PROVE  /\ (b - a) \div RecordWords \in Nat
           /\ b = a + ((b - a) \div RecordWords) * RecordWords
<1>1. PICK n \in Nat : n = RecordWords /\ n > 0
  BY RecordWordsType
<1>2. /\ a \div n \in Int /\ b \div n \in Int
      /\ a = n * (a \div n) /\ b = n * (b \div n)
  BY <1>1, DivMod
<1>3. PICK c \in Int, d \in Int : a = n * c /\ b = n * d
  BY <1>2
<1>4. d - c \in Nat
  <2>1. CASE d - c <= -1
    <3>1. n * (d - c) <= -n
      BY <1>1, <2>1
    <3> QED BY <1>3, <3>1, <1>1
  <2> QED BY <2>1
<1>5. b - a = (d - c) * n
  BY <1>3
<1>6. (b - a) \div n = d - c
  BY <1>1, <1>4, <1>5, WholeRecords
<1> QED BY <1>1, <1>4, <1>5, <1>6

\* The i-th record of n that start at a.
LEMMA Spot ==
    ASSUME NEW a \in Nat, a % RecordWords = 0, NEW n \in Nat, NEW i \in 1 .. n
    PROVE  /\ a + (i - 1) * RecordWords \in Nat
           /\ (a + (i - 1) * RecordWords) % RecordWords = 0
           /\ a <= a + (i - 1) * RecordWords
           /\ a + (i - 1) * RecordWords + RecordWords <= a + n * RecordWords
<1>1. PICK m \in Nat : m = RecordWords /\ m > 0
  BY RecordWordsType
<1>2. a \div m \in Int /\ a = m * (a \div m)
  BY <1>1, DivMod
<1>3. PICK c \in Int : a = m * c
  BY <1>2
<1>4. c \in Nat
  <2>1. CASE c <= -1
    <3>1. m * c <= -m
      BY <1>1, <2>1
    <3> QED BY <1>1, <1>3, <3>1
  <2> QED BY <2>1
<1>5. a + (i - 1) * m = (c + (i - 1)) * m /\ c + (i - 1) \in Nat
  BY <1>3, <1>4
<1>6. (a + (i - 1) * m) % m = 0 /\ a + (i - 1) * m \in Nat
  BY <1>1, <1>5, WholeRecords, ZenonT(60)
<1>7. PICK k \in Nat, l \in Nat : k = i - 1 /\ l = n - i
  OBVIOUS
<1>8. n * m = k * m + m + l * m /\ k * m >= 0 /\ l * m >= 0 /\ k * m \in Nat /\ l * m \in Nat
  BY <1>1, <1>7
<1> QED BY <1>1, <1>6, <1>7, <1>8

\* n records fit into m words only if n is at most m \div RecordWords.
LEMMA Fits ==
    ASSUME NEW n \in Nat, NEW m \in Nat, n * RecordWords <= m
    PROVE  n <= m \div RecordWords
<1>1. PICK k \in Nat : k = RecordWords /\ k > 0
  BY RecordWordsType
<1>2. /\ m \div k \in Int /\ m % k \in Int /\ m = k * (m \div k) + (m % k) /\ m % k < k
  BY <1>1, DivMod
<1>3. PICK d \in Int, r \in Int : d = m \div k /\ r = m % k
  BY <1>2
<1>4. n * k <= k * d + r /\ r < k
  BY <1>1, <1>2, <1>3
<1>5. k * (n - d) < k
  BY <1>4, <1>1
<1>6. n - d < 1
  BY <1>1, <1>5
<1> QED BY <1>1, <1>3, <1>6

\* The positions count the entries and the ones taken.
LEMMA Counts ==
    ASSUME TypeOK, PositionsInv
    PROVE  /\ Records \in Nat
           /\ Taken \in Nat
           /\ writer_pos = reader_pos + Records * RecordWords
           /\ intermediate_reader_pos = reader_pos + Taken * RecordWords
           /\ Taken <= Records
<1>1. /\ Records \in Nat /\ writer_pos = reader_pos + Records * RecordWords
      /\ Taken \in Nat /\ intermediate_reader_pos = reader_pos + Taken * RecordWords
  BY Distance DEF TypeOK, PositionsInv, Records, Taken
<1>2. PICK k \in Nat : k = RecordWords /\ k > 0
  BY RecordWordsType
<1>3. PICK n \in Nat, t \in Nat : n = Records /\ t = Taken
  BY <1>1
<1>4. t * k <= n * k
  BY <1>1, <1>2, <1>3 DEF TypeOK, PositionsInv
<1>5. k * (t - n) <= 0
  BY <1>2, <1>4
<1>6. t - n <= 0
  BY <1>2, <1>5
<1> QED BY <1>1, <1>3, <1>6

\* The entries are a sequence of statuses, each that of a live record.
LEMMA EntriesShape ==
    ASSUME IInv
    PROVE  /\ Entries \in Seq(Statuses)
           /\ Len(Entries) = Records
           /\ \A i \in 1 .. Records :
                 /\ Entries[i] = mem[At(Place(i))].tag
                 /\ Place(i) \in Nat
                 /\ Place(i) % RecordWords = 0
                 /\ reader_pos <= Place(i)
                 /\ Place(i) < writer_pos
<1>1. Records \in Nat /\ writer_pos = reader_pos + Records * RecordWords
  BY Counts DEF IInv
<1>2. ASSUME NEW i \in 1 .. Records
      PROVE  /\ Place(i) \in Nat /\ Place(i) % RecordWords = 0
             /\ reader_pos <= Place(i) /\ Place(i) < writer_pos
             /\ mem[At(Place(i))].tag \in Statuses
             /\ Entries[i] = mem[At(Place(i))].tag
  <2>1. /\ Place(i) \in Nat /\ Place(i) % RecordWords = 0
        /\ reader_pos <= Place(i) /\ Place(i) + RecordWords <= writer_pos
    BY <1>1, Spot DEF Place, IInv, TypeOK, PositionsInv
  <2>2. Place(i) \in reader_pos .. writer_pos - 1
    BY <2>1, RecordWordsType DEF IInv, TypeOK
  <2>3. mem[At(Place(i))].tag \in Statuses
    BY <2>1, <2>2 DEF IInv, LiveInv, Header, Statuses
  <2>4. Entries[i] = mem[At(Place(i))].tag
    BY DEF Entries, Place, Header
  <2> QED BY <2>1, <2>2, <2>3, <2>4 DEF IInv, TypeOK
<1>3. Entries \in [1 .. Records -> Statuses]
  BY <1>2 DEF Entries, Place, Header
<1>4. Entries \in Seq(Statuses) /\ Len(Entries) = Records
  BY <1>1, <1>3
<1> QED BY <1>2, <1>4

\* A step that moves no position and changes no status is not seen.
LEMMA Unseen ==
    ASSUME IInv, UNCHANGED positions,
           \A i \in 1 .. Records : mem'[At(Place(i))].tag = mem[At(Place(i))].tag
    PROVE  Entries' = Entries /\ Taken' = Taken
<1>1. UNCHANGED <<reader_pos, writer_pos, intermediate_reader_pos>>
  BY DEF positions
<1>2. Records' = Records /\ Taken' = Taken
  BY <1>1 DEF Records, Taken
<1>3. Entries' = [i \in 1 .. Records |-> mem'[At(Place(i))].tag]
  BY <1>1, <1>2 DEF Entries, Header, Place, At
<1>4. Entries = [i \in 1 .. Records |-> mem[At(Place(i))].tag]
  BY DEF Entries, Header, Place
<1> QED BY <1>2, <1>3, <1>4

\* MarkReserved writes beyond the live records.
LEMMA MarkUnseen ==
    ASSUME IInv, NEW w \in Writers, MarkReserved(w)
    PROVE  Entries' = Entries /\ Taken' = Taken
<1>1. /\ writer_pos \in Nat /\ writer_pos + RecordWords - reader_pos <= DataWords - 1
      /\ mem' = [mem EXCEPT ![At(writer_pos)] = [tag |-> "reserved", rec |-> writer_pos]]
  BY DEF MarkReserved, IInv, LockInv, TypeOK
<1>2. ASSUME NEW i \in 1 .. Records PROVE mem'[At(Place(i))] = mem[At(Place(i))]
  <2>1. /\ Place(i) \in Nat /\ Place(i) % RecordWords = 0
        /\ reader_pos <= Place(i) /\ Place(i) < writer_pos
    BY EntriesShape
  <2>2. PICK z \in 0 .. SampleWords : z = 0 /\ Place(i) + z = Place(i)
    BY <2>1
  <2>3. At(Place(i)) # At(writer_pos)
    BY <1>1, <2>1, <2>2, WriterPosFree DEF IInv
  <2>4. At(Place(i)) \in Addresses /\ mem \in [Addresses -> Words]
    BY <2>1, AtType DEF IInv, TypeOK
  <2> QED BY <1>1, <2>3, <2>4
<1> QED BY <1>2, Unseen DEF MarkReserved

\* FillSample writes the body of its record, no header.
LEMMA FillUnseen ==
    ASSUME IInv, NEW w \in Writers, FillSample(w)
    PROVE  Entries' = Entries /\ Taken' = Taken
<1>1. /\ wpos[w] \in Nat /\ wpos[w] % RecordWords = 0
      /\ reader_pos <= wpos[w] /\ wpos[w] < writer_pos
  BY HeldRecord DEF FillSample, Holding
<1>2. ASSUME NEW i \in 1 .. Records PROVE mem'[At(Place(i))] = mem[At(Place(i))]
  <2>1. /\ Place(i) \in Nat /\ Place(i) % RecordWords = 0
        /\ reader_pos <= Place(i) /\ Place(i) < writer_pos
    BY EntriesShape
  <2>2. PICK z \in 0 .. SampleWords : z = 0 /\ Place(i) + z = Place(i)
    BY <2>1
  <2>3. ASSUME NEW j \in 1 .. SampleWords PROVE At(Place(i)) # At(wpos[w] + j)
    <3>1. j \in 0 .. SampleWords /\ z # j
      BY <2>2
    <3> QED BY <1>1, <2>1, <2>2, <3>1, LiveApart DEF IInv
  <2>4. At(Place(i)) \notin BodyAddresses(wpos[w])
    BY <2>3 DEF BodyAddresses
  <2>5. At(Place(i)) \in Addresses
    BY <2>1, AtType
  <2> QED BY <2>4, <2>5 DEF FillSample
<1> QED BY <1>2, Unseen DEF FillSample

\* Storing writer_pos appends a reserved record, and there was room for it.
LEMMA PublishAppends ==
    ASSUME IInv, NEW w \in Writers, PublishWriterPos(w)
    PROVE  /\ Len(Entries) < (DataWords - 1) \div RecordWords
           /\ Entries' = Append(Entries, "reserved")
           /\ Taken' = Taken
<1>1. /\ UNCHANGED <<reader_pos, intermediate_reader_pos, mem>>
      /\ writer_pos' = writer_pos + RecordWords
      /\ writer_pos + RecordWords - reader_pos <= DataWords - 1
      /\ mem[At(writer_pos)].tag = "reserved"
  BY DEF PublishWriterPos, IInv, LockInv, Header
<1>2. PICK n \in Nat : n = Records /\ writer_pos = reader_pos + n * RecordWords
  BY Counts DEF IInv
<1>3. /\ n + 1 \in Nat
      /\ writer_pos' - reader_pos = (n + 1) * RecordWords
      /\ (n + 1) * RecordWords <= DataWords - 1
  BY <1>1, <1>2, RecordWordsType DEF IInv, TypeOK
<1>4. Records' = n + 1
  <2>1. Records' = (writer_pos' - reader_pos) \div RecordWords
    BY <1>1 DEF Records, RecordWords
  <2> QED BY <2>1, <1>3, WholeRecords
<1>5. n < (DataWords - 1) \div RecordWords
  <2>1. DataWords - 1 \in Nat /\ RecordWords \in Nat /\ RecordWords > 0
    BY RecordWordsType
  <2>2. n + 1 <= (DataWords - 1) \div RecordWords
    BY <1>3, <2>1, Fits
  <2>3. (DataWords - 1) \div RecordWords \in Int
    BY <2>1, DivMod
  <2> QED BY <2>2, <2>3
<1>6. Entries' = [i \in 1 .. n + 1 |-> mem[At(Place(i))].tag]
  BY <1>1, <1>4 DEF Entries, Header, Place, At, RecordWords
<1>7. mem[At(Place(n + 1))].tag = "reserved"
  <2>1. Place(n + 1) = writer_pos
    BY <1>2 DEF Place
  <2> QED BY <1>1, <2>1
<1>8. /\ Entries \in Seq(Statuses) /\ Len(Entries) = n
      /\ \A i \in 1 .. n : Entries[i] = mem[At(Place(i))].tag
  BY <1>2, EntriesShape
<1>9. Entries' = Append(Entries, "reserved")
  <2>1. PICK e \in Seq(Statuses) : e = Entries
    BY <1>8
  <2>2. "reserved" \in Statuses
    BY DEF Statuses
  <2>3. /\ Append(e, "reserved") \in Seq(Statuses)
        /\ Len(Append(e, "reserved")) = Len(e) + 1
        /\ \A i \in 1 .. Len(e) : Append(e, "reserved")[i] = e[i]
        /\ Append(e, "reserved")[Len(e) + 1] = "reserved"
    BY <2>2, AppendProperties
  <2>4. PICK f \in Seq(Statuses) : f = Append(e, "reserved")
    BY <2>3
  <2>5. /\ Len(f) = n + 1 /\ f[n + 1] = "reserved"
        /\ \A i \in 1 .. n : f[i] = e[i]
    BY <1>8, <2>1, <2>3, <2>4
  <2>6. \A i \in 1 .. n + 1 : mem[At(Place(i))].tag = f[i]
    BY <1>7, <1>8, <2>1, <2>5
  <2>7. f \in [1 .. n + 1 -> Statuses]
    BY <2>5, LenProperties
  <2> QED BY <1>6, <2>1, <2>4, <2>6, <2>7
<1>10. Taken' = Taken
  BY <1>1 DEF Taken, RecordWords
<1> QED BY <1>5, <1>8, <1>9, <1>10

\* Numbers of whole records compare like the words they take.
LEMMA Cancel ==
    ASSUME NEW k \in Nat, NEW n \in Nat
    PROVE  /\ k * RecordWords <= n * RecordWords => k <= n
           /\ k * RecordWords < n * RecordWords => k < n
           /\ k * RecordWords = n * RecordWords => k = n
<1>1. PICK m \in Nat : m = RecordWords /\ m > 0
  BY RecordWordsType
<1>2. CASE k > n
  <2>1. m * (k - n) >= m
    BY <1>1, <1>2
  <2>2. k * m > n * m
    BY <1>1, <2>1
  <2> QED BY <1>1, <1>2, <2>2
<1>3. CASE k < n
  <2>1. m * (n - k) >= m
    BY <1>1, <1>3
  <2>2. k * m < n * m
    BY <1>1, <2>1
  <2> QED BY <1>1, <1>3, <2>2
<1>4. CASE k = n
  <2>1. k * RecordWords = n * RecordWords /\ k * RecordWords \in Nat
    BY <1>4, WholeRecords
  <2> QED BY <1>4, <2>1
<1> QED BY <1>2, <1>3, <1>4

\* Commit and Discard decide one reserved record the reader has not reached.
LEMMA ReleaseDecides ==
    ASSUME IInv, NEW w \in Writers, NEW status \in {"committed", "discarded"},
           Release(w, status)
    PROVE  /\ \E i \in Taken + 1 .. Len(Entries) :
                 /\ Entries[i] = "reserved"
                 /\ Entries' = [Entries EXCEPT ![i] = status]
           /\ Taken' = Taken
<1>1. PICK q \in Nat :
         /\ q = wpos[w] /\ reader_pos <= q /\ q < writer_pos /\ q % RecordWords = 0
         /\ intermediate_reader_pos <= q
         /\ mem[At(q)] = [tag |-> "reserved", rec |-> q] /\ At(q) \in Addresses
  BY HeldRecord DEF Release, Holding
<1>2. PICK k \in Nat : q = reader_pos + k * RecordWords
  BY <1>1, Distance DEF IInv, TypeOK, PositionsInv
<1>3. /\ Records \in Nat /\ Taken \in Nat
      /\ writer_pos = reader_pos + Records * RecordWords
      /\ intermediate_reader_pos = reader_pos + Taken * RecordWords
  BY Counts DEF IInv
<1>4. /\ Taken * RecordWords <= k * RecordWords
      /\ k * RecordWords < Records * RecordWords
  <2>1. /\ k * RecordWords \in Nat /\ Taken * RecordWords \in Nat
        /\ Records * RecordWords \in Nat
    BY <1>3, WholeRecords
  <2> QED BY <1>1, <1>2, <1>3, <2>1 DEF IInv, TypeOK
<1>5. Taken <= k /\ k < Records
  BY <1>3, <1>4, Cancel
<1>6. UNCHANGED <<reader_pos, writer_pos, intermediate_reader_pos>>
      /\ mem' = [mem EXCEPT ![At(q)].tag = status]
  BY <1>1 DEF Release, positions
<1>7. Records' = Records /\ Taken' = Taken
  BY <1>6 DEF Records, Taken, RecordWords
<1>8. /\ Entries \in Seq(Statuses) /\ Len(Entries) = Records
      /\ \A i \in 1 .. Records :
            /\ Entries[i] = mem[At(Place(i))].tag
            /\ Place(i) \in Nat /\ Place(i) % RecordWords = 0
            /\ reader_pos <= Place(i) /\ Place(i) < writer_pos
  BY EntriesShape
<1>9. Place(k + 1) = q /\ k + 1 \in Taken + 1 .. Records /\ k + 1 \in 1 .. Records
  BY <1>2, <1>3, <1>5 DEF Place
<1>10. Entries[k + 1] = "reserved"
  BY <1>1, <1>8, <1>9
<1>11. ASSUME NEW j \in 1 .. Records
       PROVE  mem'[At(Place(j))].tag = IF j = k + 1 THEN status ELSE mem[At(Place(j))].tag
  <2>1. /\ Place(j) \in Nat /\ Place(j) % RecordWords = 0
        /\ reader_pos <= Place(j) /\ Place(j) < writer_pos
    BY <1>8
  <2>2. At(Place(j)) \in Addresses /\ mem \in [Addresses -> Words]
    BY <2>1, AtType DEF IInv, TypeOK
  <2>3. CASE j = k + 1
    BY <1>1, <1>6, <1>9, <2>2, <2>3 DEF Words
  <2>4. CASE j # k + 1
    <3>1. Place(j) # q
      <4> SUFFICES ASSUME Place(j) = q PROVE FALSE
        OBVIOUS
      <4>1. PICK m \in Nat : m = j - 1
        BY <1>3
      <4>2. m * RecordWords \in Nat /\ k * RecordWords \in Nat
        BY WholeRecords
      <4>3. m * RecordWords = k * RecordWords
        BY <1>2, <4>1, <4>2 DEF Place, IInv, TypeOK
      <4> QED BY <2>4, <4>1, <4>3, Cancel
    <3>2. PICK z \in 0 .. SampleWords : z = 0 /\ Place(j) + z = Place(j) /\ q + z = q
      BY <2>1
    <3>3. At(Place(j)) # At(q)
      <4>1. TypeOK /\ PositionsInv
        BY DEF IInv
      <4>2. PICK p \in Nat : p = Place(j)
        BY <2>1
      <4>3. At(p + z) # At(q + z)
        BY <1>1, <2>1, <3>1, <4>1, <4>2, LiveApart
      <4> QED BY <3>2, <4>2, <4>3
    <3> QED BY <1>6, <2>2, <2>4, <3>3
  <2> QED BY <2>3, <2>4
<1>12. Entries' = [i \in 1 .. Records |-> mem'[At(Place(i))].tag]
  BY <1>6, <1>7 DEF Entries, Header, Place, At, RecordWords
<1>13. Entries' = [Entries EXCEPT ![k + 1] = status]
  <2>1. Entries \in [1 .. Records -> Statuses]
    BY <1>8, LenProperties
  <2>2. \A j \in 1 .. Records :
           mem'[At(Place(j))].tag = IF j = k + 1 THEN status ELSE Entries[j]
    BY <1>8, <1>11
  <2> QED BY <1>9, <1>12, <2>1, <2>2
<1> QED BY <1>7, <1>8, <1>9, <1>10, <1>13

\* GetNext takes the oldest record not taken yet, which is decided.
LEMMA AdvanceTakes ==
    ASSUME IInv, GetNextDiscarded \/ GetNextSample
    PROVE  /\ Taken < Len(Entries)
           /\ Entries[Taken + 1] \in {"committed", "discarded"}
           /\ Taken' = Taken + 1
           /\ Entries' = Entries
<1>1. /\ UNCHANGED <<reader_pos, writer_pos, mem>>
      /\ intermediate_reader_pos' = intermediate_reader_pos + RecordWords
      /\ mem[At(intermediate_reader_pos)].tag # "reserved"
      /\ intermediate_reader_pos < writer_pos
  BY DEF GetNextDiscarded, GetNextSample, Header, IInv, ReaderInv, TypeOK
<1>2. PICK t \in Nat, n \in Nat :
         /\ t = Taken /\ n = Records
         /\ intermediate_reader_pos = reader_pos + t * RecordWords
         /\ writer_pos = reader_pos + n * RecordWords
  BY Counts DEF IInv
<1>3. /\ t * RecordWords \in Nat /\ n * RecordWords \in Nat
      /\ (t + 1) * RecordWords = t * RecordWords + RecordWords
  BY WholeRecords, RecordWordsType
<1>4. t < n
  BY <1>1, <1>2, <1>3, Cancel DEF IInv, TypeOK
<1>5. Taken' = t + 1
  <2>1. Taken' = (intermediate_reader_pos' - reader_pos) \div RecordWords
    BY <1>1 DEF Taken, RecordWords
  <2>2. intermediate_reader_pos' - reader_pos = (t + 1) * RecordWords /\ t + 1 \in Nat
    BY <1>1, <1>2, <1>3, RecordWordsType DEF IInv, TypeOK
  <2> QED BY <2>1, <2>2, WholeRecords
<1>6. Entries' = Entries
  BY <1>1 DEF Entries, Records, Header, At, RecordWords
<1>7. t + 1 \in 1 .. n /\ Place(t + 1) = intermediate_reader_pos
  BY <1>2, <1>4 DEF Place
<1>8. /\ Entries \in Seq(Statuses) /\ Len(Entries) = n
      /\ Entries[t + 1] = mem[At(intermediate_reader_pos)].tag
  BY <1>2, <1>7, EntriesShape
<1>9. Entries[t + 1] \in Statuses
  BY <1>7, <1>8, ElementOfSeq
<1> QED BY <1>1, <1>2, <1>4, <1>5, <1>6, <1>8, <1>9 DEF Statuses

\* ~Reader frees the records taken.
LEMMA CloseFrees ==
    ASSUME IInv, CloseReader
    PROVE  /\ Entries' = SubSeq(Entries, Taken + 1, Len(Entries))
           /\ Taken' = 0
<1>1. /\ UNCHANGED <<writer_pos, intermediate_reader_pos, mem>>
      /\ reader_pos' = intermediate_reader_pos
  BY DEF CloseReader, IInv, PositionsInv, TypeOK
<1>2. PICK t \in Nat, n \in Nat :
         /\ t = Taken /\ n = Records /\ t <= n
         /\ intermediate_reader_pos = reader_pos + t * RecordWords
         /\ writer_pos = reader_pos + n * RecordWords
  BY Counts DEF IInv
<1>3. PICK m \in Nat : m = n - t
  BY <1>2
<1>4. writer_pos - intermediate_reader_pos = m * RecordWords
  <2>1. n * RecordWords = t * RecordWords + m * RecordWords
    BY <1>3, RecordWordsType
  <2>2. t * RecordWords \in Nat /\ m * RecordWords \in Nat
    BY WholeRecords
  <2> QED BY <1>2, <2>1, <2>2 DEF IInv, TypeOK
<1>5. Records' = m
  <2>1. Records' = (writer_pos - intermediate_reader_pos) \div RecordWords
    BY <1>1 DEF Records, RecordWords
  <2> QED BY <1>4, <2>1, WholeRecords
<1>6. Taken' = 0
  <2>1. Taken' = (intermediate_reader_pos - intermediate_reader_pos) \div RecordWords
    BY <1>1 DEF Taken, RecordWords
  <2>2. intermediate_reader_pos - intermediate_reader_pos = 0 * RecordWords
    BY RecordWordsType DEF IInv, TypeOK
  <2> QED BY <2>1, <2>2, WholeRecords
<1>7. Entries' = [i \in 1 .. m |->
                     mem[At(intermediate_reader_pos + (i - 1) * RecordWords)].tag]
  BY <1>1, <1>5 DEF Entries, Header, At, RecordWords
<1>8. /\ Entries \in Seq(Statuses) /\ Len(Entries) = n
      /\ \A i \in 1 .. n : Entries[i] = mem[At(Place(i))].tag
  BY <1>2, EntriesShape
<1>9. ASSUME NEW i \in 1 .. m
      PROVE  mem[At(intermediate_reader_pos + (i - 1) * RecordWords)].tag = Entries[t + i]
  <2>1. t + i \in 1 .. n
    BY <1>2, <1>3
  <2>2. Place(t + i) = intermediate_reader_pos + (i - 1) * RecordWords
    <3>1. PICK j \in Nat : j = i - 1 /\ t + i - 1 = t + j
      OBVIOUS
    <3>2. (t + j) * RecordWords = t * RecordWords + j * RecordWords
      BY RecordWordsType
    <3>3. t * RecordWords \in Nat /\ j * RecordWords \in Nat
      BY WholeRecords
    <3> QED BY <1>2, <3>1, <3>2, <3>3 DEF Place, IInv, TypeOK
  <2> QED BY <1>8, <2>1, <2>2
<1>10. PICK e \in Seq(Statuses) : e = Entries
  BY <1>8
<1>11. SubSeq(e, t + 1, n) = [i \in 1 .. m |-> e[t + i]]
  <2>1. \A i \in t + 1 .. n : e[i] \in Statuses
    BY <1>8, <1>10, ElementOfSeq
  <2>2. /\ SubSeq(e, t + 1, n) \in Seq(Statuses)
        /\ Len(SubSeq(e, t + 1, n)) = IF t + 1 <= n THEN n - (t + 1) + 1 ELSE 0
        /\ \A i \in 1 .. n - (t + 1) + 1 : SubSeq(e, t + 1, n)[i] = e[t + 1 + i - 1]
    <3>1. t + 1 \in Int /\ n \in Int
      OBVIOUS
    <3> QED BY <2>1, <3>1, SubSeqProperties
  <2>3. PICK f \in Seq(Statuses) : f = SubSeq(e, t + 1, n)
    BY <2>2
  <2>4. Len(f) = m /\ \A i \in 1 .. m : f[i] = e[t + i]
    BY <1>2, <1>3, <2>2, <2>3
  <2>5. f \in [1 .. m -> Statuses]
    BY <2>4, LenProperties
  <2> QED BY <2>3, <2>4, <2>5
<1>12. Entries' = [i \in 1 .. m |-> e[t + i]]
  BY <1>7, <1>9, <1>10
<1> QED BY <1>2, <1>6, <1>8, <1>10, <1>11, <1>12

\* The records between reader_pos and writer_pos are the bounded queue that
\* Reserve, Commit, Discard, GetNext and ~Reader promise, for any buffer size
\* and any number of writers: a record is appended by the store of writer_pos,
\* decided once, taken in order and freed in batches.
THEOREM Implementation == Spec => ImplementsQueue
<1>1. Init => Queue!QInit
  <2> SUFFICES ASSUME Init PROVE Queue!QInit
    OBVIOUS
  <2>1. reader_pos = 0 /\ writer_pos - reader_pos = 0 /\ intermediate_reader_pos - reader_pos = 0
    BY DEF Init
  <2>2. 0 = 0 * RecordWords
    BY RecordWordsType
  <2>3. Records = 0 /\ Taken = 0
    BY <2>1, <2>2, WholeRecords DEF Records, Taken
  <2>4. Entries = <<>>
    BY <2>3 DEF Entries
  <2> QED BY <2>3, <2>4 DEF Queue!QInit, Entries, Taken
<1>2. IInv /\ [Next]_vars => [Queue!QNext]_(Queue!qvars)
  <2> SUFFICES ASSUME IInv, [Next]_vars, ~(Entries' = Entries /\ Taken' = Taken)
               PROVE  Queue!QNext
    BY DEF Queue!qvars, Entries, Taken
  <2>1. ASSUME mem' = mem, UNCHANGED positions PROVE FALSE
    BY <2>1, Unseen
  <2>2. ASSUME NEW w \in Writers, Writer(w) PROVE Queue!QNext
    <3>1. CASE TryLock(w) \/ LockTimeout(w) \/ ReserveFull(w) \/ ReserveFits(w)
      <4>1. mem' = mem /\ UNCHANGED positions
        BY <3>1 DEF TryLock, LockTimeout, ReserveFull, ReserveFits, vars, positions
      <4> QED BY <2>1, <4>1
    <3>2. CASE MarkReserved(w)
      BY <3>2, MarkUnseen
    <3>3. CASE PublishWriterPos(w)
      <4>1. Queue!Reserve
        BY <3>3, PublishAppends DEF Queue!Reserve, Entries, Taken
      <4> QED BY <4>1 DEF Queue!QNext
    <3>4. CASE FillSample(w)
      BY <3>4, FillUnseen
    <3>5. ASSUME NEW status \in {"committed", "discarded"}, Release(w, status)
          PROVE  Queue!QNext
      <4>1. Queue!Decide
        BY <3>5, ReleaseDecides DEF Queue!Decide, Entries, Taken
      <4> QED BY <4>1 DEF Queue!QNext
    <3>6. CASE Commit(w) \/ Discard(w)
      BY <3>5, <3>6 DEF Commit, Discard
    <3> QED BY <2>2, <3>1, <3>2, <3>3, <3>4, <3>6 DEF Writer, InReserve, FinishSample
  <2>3. CASE Reader
    <3>1. CASE GetReader \/ GetNextNone \/ Transform \/ TransformThrows
      <4>1. mem' = mem /\ UNCHANGED positions
        BY <3>1 DEF GetReader, GetNextNone, Transform, TransformThrows
      <4> QED BY <2>1, <4>1
    <3>2. CASE GetNextDiscarded \/ GetNextSample
      <4>1. Queue!Take
        BY <3>2, AdvanceTakes DEF Queue!Take, Entries, Taken
      <4> QED BY <4>1 DEF Queue!QNext
    <3>3. CASE CloseReader
      <4>1. Queue!Free
        BY <3>3, CloseFrees DEF Queue!Free, Entries, Taken
      <4> QED BY <4>1 DEF Queue!QNext
    <3> QED BY <2>3, <3>1, <3>2, <3>3 DEF Reader
  <2>4. CASE UNCHANGED vars
    <3>1. mem' = mem /\ UNCHANGED positions
      BY <2>4 DEF vars, positions
    <3> QED BY <2>1, <3>1
  <2> QED BY <2>2, <2>3, <2>4 DEF Next
<1> QED BY <1>1, <1>2, Invariance, PTL DEF Spec, ImplementsQueue, Queue!Spec
=============================================================================
