---------------------------- MODULE SampleQueue -----------------------------
(***************************************************************************)
(* What RingBuffer promises its users, free of words and addresses: a      *)
(* bounded queue of records.  A writer appends a reserved record and later *)
(* decides it once, as committed or discarded, in any order with the other *)
(* writers.  The reader takes decided records from the front, in the order *)
(* of their reservation, and gives their places back in batches.           *)
(***************************************************************************)
EXTENDS Naturals, Sequences

CONSTANT Capacity    \* the records the buffer can hold

VARIABLES entries,   \* the status of every record in the buffer, oldest first
          taken      \* how many of them the reader has taken already

qvars == <<entries, taken>>

QInit == entries = <<>> /\ taken = 0

\* Reserve with enough room.
Reserve ==
    /\ Len(entries) < Capacity
    /\ entries' = Append(entries, "reserved")
    /\ UNCHANGED taken

\* Commit or Discard of a record whose writer still holds it.
Decide ==
    /\ \E i \in taken + 1 .. Len(entries), status \in {"committed", "discarded"} :
          /\ entries[i] = "reserved"
          /\ entries' = [entries EXCEPT ![i] = status]
    /\ UNCHANGED taken

\* GetNext moves over the oldest record not taken yet, once it is decided.
Take ==
    /\ taken < Len(entries)
    /\ entries[taken + 1] \in {"committed", "discarded"}
    /\ taken' = taken + 1
    /\ UNCHANGED entries

\* ~Reader frees the places of the records taken so far.
Free ==
    /\ entries' = SubSeq(entries, taken + 1, Len(entries))
    /\ taken' = 0

QNext == Reserve \/ Decide \/ Take \/ Free

Spec == QInit /\ [][QNext]_qvars
=============================================================================
