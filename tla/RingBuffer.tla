----------------------------- MODULE RingBuffer -----------------------------
(***************************************************************************)
(* The multi-producer, single-consumer ring buffer that carries raw CPU    *)
(* samples from the SIGPROF handlers to the samples worker                 *)
(* (Datadog.Profiler.Native.Linux/RingBuffer.cpp and the SampleHolder and  *)
(* SamplesEnumeratorImpl of RawSampleCollectorBase.h).                     *)
(*                                                                         *)
(* Positions and sizes count words of RingBufferAlignment (8) bytes: the   *)
(* header is one word and a sample is rounded up to whole words, so n2 of  *)
(* the code is RecordWords here.  The data area is mapped twice in a row,  *)
(* so that a record may run over its end: address p is word p % DataWords. *)
(*                                                                         *)
(* A word is modelled by its tag and by the record it was last written     *)
(* for, named by the record's start position.                              *)
(***************************************************************************)
EXTENDS Integers

CONSTANTS Writers,      \* the threads whose signal handler writes samples
          NoWriter,     \* the spinlock is free
          DataWords,    \* data_size, in words
          SampleWords,  \* sample_size rounded up, in words
          MaxPos        \* bound on writer_pos (2^64 / 8 in the code)

ASSUME RingBufferAssumption ==
    /\ NoWriter \notin Writers
    /\ DataWords \in Nat \ {0}
    /\ SampleWords \in Nat
    /\ MaxPos \in Nat

VARIABLES
    reader_pos,               \* everything before it may be overwritten
    writer_pos,               \* the next reservation starts here
    intermediate_reader_pos,  \* the next record the reader looks at
    spinlock,                 \* the writer inside Reserve, or NoWriter
    mem,                      \* the data area
    wpc,                      \* where each writer is
    wpos,                     \* the record each writer works on
    rpc,                      \* where the reader is
    tail,                     \* Reader::_tail
    cur                       \* the record GetNext returned last

vars == <<reader_pos, writer_pos, intermediate_reader_pos, spinlock, mem,
          wpc, wpos, rpc, tail, cur>>

positions == <<reader_pos, writer_pos, intermediate_reader_pos>>
readerVars == <<rpc, tail, cur>>

Addresses == 0 .. DataWords - 1
RecordWords == SampleWords + 1

Tags == {"zero", "reserved", "committed", "discarded", "body"}
Words == [tag : Tags, rec : Nat]

WriterStates == {"idle", "locked", "checked", "marked", "reserved", "filled"}
ReaderStates == {"none", "open", "got", "closing"}

At(p) == p % DataWords
Header(p) == mem[At(p)]
BodyAddresses(p) == {At(p + j) : j \in 1 .. SampleWords}

-----------------------------------------------------------------------------
Init ==
    /\ reader_pos = 0
    /\ writer_pos = 0
    /\ intermediate_reader_pos = 0
    /\ spinlock = NoWriter
    /\ mem = [a \in Addresses |-> [tag |-> "zero", rec |-> 0]]
    /\ wpc = [w \in Writers |-> "idle"]
    /\ wpos = [w \in Writers |-> 0]
    /\ rpc = "none"
    /\ tail = 0
    /\ cur = 0

(***************************************************************************)
(* The writers.  Reserve takes the spinlock, or gives up after 100 ms.     *)
(***************************************************************************)
TryLock(w) ==
    /\ wpc[w] = "idle"
    /\ spinlock = NoWriter
    /\ writer_pos + RecordWords <= MaxPos
    /\ spinlock' = w
    /\ wpc' = [wpc EXCEPT ![w] = "locked"]
    /\ UNCHANGED <<positions, mem, wpos, readerVars>>

\* try_lock_for fails only after it saw the lock taken; the sample is dropped.
LockTimeout(w) ==
    /\ wpc[w] = "idle"
    /\ spinlock # NoWriter
    /\ UNCHANGED vars

\* The free-space test of Reserve against the reader_pos it has just loaded.
NoRoomForgetsRecord == DataWords - 1 < writer_pos - reader_pos

NoRoom == DataWords - 1 < writer_pos + RecordWords - reader_pos

ReserveFull(w) ==
    /\ wpc[w] = "locked"
    /\ NoRoom
    /\ spinlock' = NoWriter
    /\ wpc' = [wpc EXCEPT ![w] = "idle"]
    /\ UNCHANGED <<positions, mem, wpos, readerVars>>

ReserveFitsUnmarked(w) ==
    /\ wpc[w] = "locked"
    /\ ~NoRoom
    /\ wpos' = [wpos EXCEPT ![w] = writer_pos]
    /\ wpc' = [wpc EXCEPT ![w] = "marked"]
    /\ UNCHANGED <<positions, spinlock, mem, readerVars>>

ReserveFits(w) ==
    /\ wpc[w] = "locked"
    /\ ~NoRoom
    /\ wpos' = [wpos EXCEPT ![w] = writer_pos]
    /\ wpc' = [wpc EXCEPT ![w] = "checked"]
    /\ UNCHANGED <<positions, spinlock, mem, readerVars>>

MarkReserved(w) ==
    /\ wpc[w] = "checked"
    /\ mem' = [mem EXCEPT ![At(wpos[w])] = [tag |-> "reserved", rec |-> wpos[w]]]
    /\ wpc' = [wpc EXCEPT ![w] = "marked"]
    /\ UNCHANGED <<positions, spinlock, wpos, readerVars>>

\* Storing writer_pos shows the record to the reader; then the lock is left.
PublishWriterPos(w) ==
    /\ wpc[w] = "marked"
    /\ writer_pos' = wpos[w] + RecordWords
    /\ spinlock' = NoWriter
    /\ wpc' = [wpc EXCEPT ![w] = "reserved"]
    /\ UNCHANGED <<reader_pos, intermediate_reader_pos, mem, wpos, readerVars>>

\* The holder constructs the raw sample in place and the handler fills it.
FillSample(w) ==
    /\ wpc[w] = "reserved"
    /\ mem' = [a \in Addresses |->
                  IF a \in BodyAddresses(wpos[w])
                  THEN [tag |-> "body", rec |-> wpos[w]]
                  ELSE mem[a]]
    /\ wpc' = [wpc EXCEPT ![w] = "filled"]
    /\ UNCHANGED <<positions, spinlock, wpos, readerVars>>

\* ~SampleHolder: the reserved bit of the header is cleared, once.
Release(w, tag) ==
    /\ wpc[w] = "filled"
    /\ mem' = [mem EXCEPT ![At(wpos[w])].tag = tag]
    /\ wpc' = [wpc EXCEPT ![w] = "idle"]
    /\ UNCHANGED <<positions, spinlock, wpos, readerVars>>

DiscardStaysReserved(w) == Release(w, "reserved")

Commit(w) == Release(w, "committed")
Discard(w) == Release(w, "discarded")

(***************************************************************************)
(* The reader: one Reader object at a time, alive during one pass of       *)
(* CollectSamples over the CPU provider.                                   *)
(***************************************************************************)
GetReader ==
    /\ rpc = "none"
    /\ rpc' = "open"
    /\ tail' = writer_pos
    /\ UNCHANGED <<positions, spinlock, mem, wpc, wpos, cur>>

\* One turn of the loop in GetNext, by what the header at the position says.
GetNextNone ==
    /\ rpc = "open"
    /\ \/ intermediate_reader_pos = tail
       \/ Header(intermediate_reader_pos).tag = "reserved"
    /\ rpc' = "closing"
    /\ UNCHANGED <<positions, spinlock, mem, wpc, wpos, tail, cur>>

GetNextDiscarded ==
    /\ rpc = "open"
    /\ intermediate_reader_pos # tail
    /\ Header(intermediate_reader_pos).tag = "discarded"
    /\ intermediate_reader_pos' = intermediate_reader_pos + RecordWords
    /\ UNCHANGED <<reader_pos, writer_pos, spinlock, mem, wpc, wpos, readerVars>>

GetNextSampleReserved ==
    /\ rpc = "open"
    /\ intermediate_reader_pos # tail
    /\ Header(intermediate_reader_pos).tag # "discarded"
    /\ cur' = intermediate_reader_pos
    /\ intermediate_reader_pos' = intermediate_reader_pos + RecordWords
    /\ rpc' = "got"
    /\ UNCHANGED <<reader_pos, writer_pos, spinlock, mem, wpc, wpos, tail>>

GetNextSample ==
    /\ rpc = "open"
    /\ intermediate_reader_pos # tail
    /\ Header(intermediate_reader_pos).tag \notin {"reserved", "discarded"}
    /\ cur' = intermediate_reader_pos
    /\ intermediate_reader_pos' = intermediate_reader_pos + RecordWords
    /\ rpc' = "got"
    /\ UNCHANGED <<reader_pos, writer_pos, spinlock, mem, wpc, wpos, tail>>

\* MoveNext reads the raw sample to the end, then destroys it in place.
Transform ==
    /\ rpc = "got"
    /\ rpc' = "open"
    /\ UNCHANGED <<positions, spinlock, mem, wpc, wpos, tail, cur>>

\* An exception in Transform unwinds CollectSamples and ends the reader.
TransformThrows ==
    /\ rpc = "got"
    /\ rpc' = "closing"
    /\ UNCHANGED <<positions, spinlock, mem, wpc, wpos, tail, cur>>

\* ~Reader gives the space of everything read back to the writers.
CloseReader ==
    /\ rpc = "closing"
    /\ rpc' = "none"
    /\ reader_pos' = IF reader_pos < intermediate_reader_pos
                     THEN intermediate_reader_pos
                     ELSE reader_pos
    /\ UNCHANGED <<writer_pos, intermediate_reader_pos, spinlock, mem, wpc,
                   wpos, tail, cur>>

-----------------------------------------------------------------------------
InReserve(w) == ReserveFull(w) \/ ReserveFits(w) \/ MarkReserved(w) \/ PublishWriterPos(w)
FinishSample(w) == FillSample(w) \/ Commit(w) \/ Discard(w)
Writer(w) == TryLock(w) \/ LockTimeout(w) \/ InReserve(w) \/ FinishSample(w)
Reader == GetReader \/ GetNextNone \/ GetNextDiscarded \/ GetNextSample
          \/ Transform \/ TransformThrows \/ CloseReader

Next == (\E w \in Writers : Writer(w)) \/ Reader

Spec == Init /\ [][Next]_vars

\* A handler that has entered Reserve runs to its end, and the samples worker
\* comes back every CollectingPeriod.
Fairness ==
    /\ \A w \in Writers : WF_vars(InReserve(w) \/ FinishSample(w))
    /\ WF_vars(Reader)

FairSpec == Spec /\ Fairness

-----------------------------------------------------------------------------
(***************************************************************************)
(* Properties.                                                             *)
(***************************************************************************)
Holding(w) == wpc[w] \in {"reserved", "filled"}
Whole(p) == \A a \in BodyAddresses(p) : mem[a] = [tag |-> "body", rec |-> p]

\* The variables have their types; no position is ever negative.
TypeOK ==
    /\ reader_pos \in Nat
    /\ writer_pos \in Nat
    /\ intermediate_reader_pos \in Nat
    /\ spinlock \in Writers \cup {NoWriter}
    /\ mem \in [Addresses -> Words]
    /\ wpc \in [Writers -> WriterStates]
    /\ wpos \in [Writers -> Nat]
    /\ rpc \in ReaderStates
    /\ tail \in Nat
    /\ cur \in Nat

\* A sample GetNext returned stays whole until MoveNext has destroyed it: its
\* header is the committed one and no later record runs into its words.
SampleIntact ==
    rpc = "got" =>
        /\ Header(cur) = [tag |-> "committed", rec |-> cur]
        /\ Whole(cur)

\* A handler that has reserved a record keeps it to itself until Commit or
\* Discard: its header stays reserved and what it filled stays.
ReservationKept ==
    \A w \in Writers :
        Holding(w) =>
            /\ Header(wpos[w]) = [tag |-> "reserved", rec |-> wpos[w]]
            /\ wpc[w] = "filled" => Whole(wpos[w])

\* GetNext stops at the first record that is not committed yet: the reader
\* never passes a record some handler is still filling.
ReaderBehindWriters ==
    \A w \in Writers : Holding(w) => intermediate_reader_pos <= wpos[w]

\* The two assertions of the Reader constructor (RingBuffer.cpp:350-351) hold
\* whenever a reader may be created.
ReaderAsserts ==
    rpc = "none" =>
        /\ intermediate_reader_pos <= writer_pos
        /\ intermediate_reader_pos = reader_pos

\* A committed sample is read in the end, whatever the handlers behind it do.
CommittedIsRead ==
    \A p \in 0 .. MaxPos :
        (intermediate_reader_pos <= p /\ Header(p) = [tag |-> "committed", rec |-> p])
            ~> (intermediate_reader_pos > p)

(***************************************************************************)
(* What the buffer promises: the records between reader_pos and writer_pos *)
(* are a queue (see SampleQueue).                                          *)
(***************************************************************************)
Records == (writer_pos - reader_pos) \div RecordWords

Queue == INSTANCE SampleQueue WITH
    Capacity <- (DataWords - 1) \div RecordWords,
    entries <- [i \in 1 .. Records |-> Header(reader_pos + (i - 1) * RecordWords).tag],
    taken <- (intermediate_reader_pos - reader_pos) \div RecordWords

\* The ring buffer implements the bounded queue of samples: records appear at
\* the end, are decided once, and are taken in order from the front.
ImplementsQueue == Queue!Spec
-----------------------------------------------------------------------------
(***************************************************************************)
(* The inductive invariant behind the four safety invariants above.        *)
(***************************************************************************)
InReserveStates == {"locked", "checked", "marked"}

\* The three positions are starts of records, in order, less than one lap apart.
PositionsInv ==
    /\ reader_pos % RecordWords = 0
    /\ intermediate_reader_pos % RecordWords = 0
    /\ writer_pos % RecordWords = 0
    /\ reader_pos <= intermediate_reader_pos
    /\ intermediate_reader_pos <= writer_pos
    /\ writer_pos - reader_pos <= DataWords - 1

ReaderInv ==
    /\ rpc = "none" => intermediate_reader_pos = reader_pos
    /\ rpc # "none" => /\ tail % RecordWords = 0
                       /\ intermediate_reader_pos <= tail
                       /\ tail <= writer_pos
    /\ rpc = "got" => /\ reader_pos <= cur
                      /\ cur % RecordWords = 0
                      /\ cur + RecordWords = intermediate_reader_pos
                      /\ Header(cur).tag = "committed"

\* The spinlock is held exactly between TryLock and the end of Reserve, and
\* the space test stays true: only the reader moves, and it only frees space.
LockInv ==
    \A w \in Writers :
        /\ wpc[w] \in InReserveStates <=> spinlock = w
        /\ wpc[w] \in {"checked", "marked"} =>
              /\ wpos[w] = writer_pos
              /\ writer_pos + RecordWords - reader_pos <= DataWords - 1
        /\ wpc[w] = "marked" =>
              Header(writer_pos) = [tag |-> "reserved", rec |-> writer_pos]

HoldInv ==
    \A w \in Writers :
        Holding(w) =>
            /\ wpos[w] % RecordWords = 0
            /\ intermediate_reader_pos <= wpos[w]
            /\ wpos[w] < writer_pos
            /\ Header(wpos[w]).tag = "reserved"
            /\ wpc[w] = "filled" => Whole(wpos[w])

DistinctInv ==
    \A v, w \in Writers : Holding(v) /\ Holding(w) /\ v # w => wpos[v] # wpos[w]

\* Every record between reader_pos and writer_pos still has its own header,
\* and its own body once it is committed.
LiveInv ==
    \A p \in reader_pos .. writer_pos - 1 :
        p % RecordWords = 0 =>
            /\ Header(p).rec = p
            /\ Header(p).tag \in {"reserved", "committed", "discarded"}
            /\ Header(p).tag = "committed" => Whole(p)

\* The inductive invariant: positions, lock, holders and live records agree.
IInv ==
    TypeOK /\ PositionsInv /\ ReaderInv /\ LockInv /\ HoldInv /\ DistinctInv /\ LiveInv
=============================================================================
