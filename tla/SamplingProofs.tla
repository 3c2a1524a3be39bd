--------------------------- MODULE SamplingProofs ---------------------------
(***************************************************************************)
(* Where CPU samples are taken, and where samples go.                      *)
(*                                                                         *)
(* CpuTimer, for any finite set of threads, and however often the profiler *)
(* is started and timers fire: _nbThreadsInSignalHandler counts the        *)
(* handlers inside Collect, no timer is left when the profiler is stopped  *)
(* or its thread ends, and a live thread has one while it is started.      *)
(*                                                                         *)
(* SamplePipeline, for any number of samples and any length of the sink's  *)
(* queue: one collector at a time uses the exporter, StopImpl leaves       *)
(* nothing behind of what was taken before it, and every sample is in one  *)
(* place.                                                                  *)
(***************************************************************************)
EXTENDS CpuTimer, SamplePipeline, TLAPS

USE ZenonT(5), SMTT(30)   \* the provers, in this order

-----------------------------------------------------------------------------
(***************************************************************************)
(* From the providers to the server.                                       *)
(***************************************************************************)
InExporter == {"adding", "addingBatched", "offer", "push"}

Whereabouts ==
    /\ DOMAIN pc = Collectors
    /\ pc["worker"] \in {"sleep", "collect", "adding", "ended"}
    /\ pc["exporter"] \in {"sleep", "export", "addingBatched", "offer", "push", "ended"}

\* Who is between the taking and the release of _exportLock owns it.
LockInv == \A c \in Collectors : pc[c] \in InExporter => lock = c

\* An enumerator has something left only while its collector goes through it.
BatchInv ==
    /\ DOMAIN batch = Collectors
    /\ \A c \in Collectors : batch[c] # {} => Adding(c)

\* The threads that StopImpl has joined do not come back.
JoinInv ==
    /\ pc["stopper"] \notin {"idle", "joinWorker"} => At("worker", "ended")
    /\ pc["stopper"] \notin {"idle", "joinWorker", "joinExporter"} => At("exporter", "ended")

After == {"stopped", "wake", "joinUploader", "ended"}

\* What the stopper has already moved on of the samples taken before it came.
StopInv ==
    /\ DOMAIN provider = Providers
    /\ taken \in Nat
    /\ beforeStop \subseteq 1..taken
    /\ pc["stopper"] \in {"adding", "export", "addingBatched", "offer", "push"} \cup After =>
          beforeStop \cap provider["regular"] = {}
    /\ pc["stopper"] \in {"addingBatched", "offer", "push"} \cup After =>
          beforeStop \cap provider["batched"] = {}
    /\ pc["stopper"] \in After => profile = {}

PipelineInv == Whereabouts /\ LockInv /\ BatchInv /\ JoinInv /\ StopInv

\* Nothing is under way at first.
LEMMA PipelineInitially == Init => PipelineInv
BY DEF Init, PipelineInv, Whereabouts, LockInv, BatchInv, JoinInv, StopInv, After, InExporter, At,
       Adding, Collectors, Providers

\* Samples come from the providers at any time.
LEMMA AddStep ==
    ASSUME PipelineInv, NEW p \in Providers, Add(p)
    PROVE  PipelineInv'
BY DEF Add, PipelineInv, Whereabouts, LockInv, BatchInv, JoinInv, StopInv, After, InExporter, At,
       Adding, Providers

\* The two threads wake up and leave.
LEMMA ThreadsStep ==
    ASSUME PipelineInv, NEW c \in {"worker", "exporter"}, ThreadStep(c)
    PROVE  PipelineInv'
<1>. USE DEF PipelineInv, Whereabouts, LockInv, BatchInv, JoinInv, StopInv, After, InExporter, At,
             Adding, Goes, Collectors
<1>1. CASE TimesOut(c)
  BY <1>1 DEF TimesOut, Promised, WorkerPromise, ExporterPromise
<1>2. CASE Leaves(c)
  BY <1>2 DEF Leaves
<1>. QED  BY <1>1, <1>2 DEF ThreadStep

\* CollectSamples and Export.
LEMMA CollectStep ==
    ASSUME PipelineInv, NEW c \in Collectors, CollectorStep(c)
    PROVE  PipelineInv'
<1>. USE DEF PipelineInv, Whereabouts, LockInv, BatchInv, JoinInv, StopInv, After, InExporter, At,
             Adding, Goes, Collectors, Providers, NoOwner
<1>1. CASE CollectBegins(c)
  BY <1>1 DEF CollectBegins, TakeLock, GetSamples
<1>2. CASE AddToProfile(c)
  BY <1>2 DEF AddToProfile
<1>3. CASE CollectThrows(c)
  BY <1>3 DEF CollectThrows
<1>4. CASE CollectEnds(c)
  BY <1>4 DEF CollectEnds
<1>5. CASE ExportBegins(c)
  BY <1>5 DEF ExportBegins, TakeLock, GetSamples
<1>6. CASE ProcessSamples(c)
  BY <1>6 DEF ProcessSamples
<1>7. CASE Refused(c)
  BY <1>7 DEF Refused, AfterExport
<1>8. CASE Accepted(c)
  BY <1>8 DEF Accepted
<1>9. CASE Export(c)
  BY <1>9 DEF Export, AfterExport
<1>. QED  BY <1>1, <1>2, <1>3, <1>4, <1>5, <1>6, <1>7, <1>8, <1>9 DEF CollectorStep

\* StopImpl and the sink's destructor.
LEMMA StoppingStep ==
    ASSUME PipelineInv, StopBegins \/ DestructorBegins \/ StopperStep
    PROVE  PipelineInv'
<1>. USE DEF PipelineInv, Whereabouts, LockInv, BatchInv, JoinInv, StopInv, After, InExporter, At,
             Adding, Goes, Collectors
<1>1. CASE StopBegins
  BY <1>1 DEF StopBegins
<1>2. CASE DestructorBegins
  BY <1>2 DEF DestructorBegins
<1>3. CASE WorkerJoined
  BY <1>3 DEF WorkerJoined
<1>4. CASE ExporterJoined
  BY <1>4 DEF ExporterJoined
<1>5. CASE DestructorWakes
  BY <1>5 DEF DestructorWakes
<1>6. CASE UploaderJoined
  BY <1>6 DEF UploaderJoined
<1>. QED  BY <1>1, <1>2, <1>3, <1>4, <1>5, <1>6 DEF StopperStep

\* The uploader's steps, and no step, leave all this alone.
LEMMA SinkStep ==
    ASSUME PipelineInv, UploaderStep \/ SpuriousWakeup \/ UNCHANGED vars
    PROVE  PipelineInv'
<1>1. UNCHANGED <<taken, provider, lock, batch, pc, profile, beforeStop>>
  BY DEF UploaderStep, WorkTests, Wait, Pop, Upload, SpuriousWakeup, vars, collectVars
<1>. QED
  BY <1>1 DEF PipelineInv, Whereabouts, LockInv, BatchInv, JoinInv, StopInv, At, Adding

\* The inductive invariant.
THEOREM PipelineInvariance == Spec => []PipelineInv
<1>1. PipelineInv /\ [Next]_vars => PipelineInv'
  BY AddStep, ThreadsStep, CollectStep, StoppingStep, SinkStep DEF Next, Over
<1>. QED  BY <1>1, PipelineInitially, PTL DEF Spec

\* When StopImpl has returned, a sample taken before it was called is in no
\* provider, enumerator or profile builder.
THEOREM StopLeavesNothingBehind == Spec => []NothingLeftBehind
<1>1. PipelineInv => NothingLeftBehind
  <2>. SUFFICES ASSUME PipelineInv, pc["stopper"] \in After
                PROVE  NothingLeftBehind
    BY DEF After, NothingLeftBehind
  <2>1. \A c \in Collectors : batch[c] = {}
    BY DEF PipelineInv, BatchInv, JoinInv, Adding, At, Collectors, After
  <2>2. \A p \in Providers : beforeStop \cap provider[p] = {}
    BY DEF PipelineInv, StopInv, Providers
  <2>3. profile = {}
    BY DEF PipelineInv, StopInv
  <2>. QED  BY <2>1, <2>2, <2>3 DEF NothingLeftBehind
<1>. QED  BY <1>1, PipelineInvariance, PTL

-----------------------------------------------------------------------------
(***************************************************************************)
(* Every sample is in one place: there is a function w from the samples    *)
(* taken to places such that each container holds just the samples that w  *)
(* puts there.  A step that moves samples is a change of w.                *)
(***************************************************************************)
Spots ==
    {<<"provider", p>> : p \in Providers} \cup {<<"batch", c>> : c \in Collectors}
    \cup {<<"queue", i>> : i \in Nat}
    \cup {<<x, 0>> : x \in {"profile", "request", "sent", "skipped", "dropped", "lost"}}

Of(w, spot) == {n \in DOMAIN w : w[n] = spot}

Shape ==
    /\ taken \in Nat
    /\ DOMAIN provider = Providers
    /\ DOMAIN batch = Collectors
    /\ DOMAIN pc = Collectors
    /\ queue \in Seq(SUBSET Nat)

Collecting(w) ==
    /\ \A p \in Providers : provider[p] = Of(w, <<"provider", p>>)
    /\ \A c \in Collectors : batch[c] = Of(w, <<"batch", c>>)
    /\ profile = Of(w, <<"profile", 0>>)

Sending(w) ==
    /\ \A i \in Nat : Of(w, <<"queue", i>>) = IF i \in 1..Len(queue) THEN queue[i] ELSE {}
    /\ request = Of(w, <<"request", 0>>)

Ended(w) ==
    /\ sent = Of(w, <<"sent", 0>>)
    /\ skipped = Of(w, <<"skipped", 0>>)
    /\ dropped = Of(w, <<"dropped", 0>>)
    /\ lost = Of(w, <<"lost", 0>>)

Located(w) == w \in [1..taken -> Spots] /\ Collecting(w) /\ Sending(w) /\ Ended(w)

\* What the sink and the enumerators overwrite is empty.
EmptyInv ==
    /\ uploader # "upload" => request = {}
    /\ \A c \in Collectors : batch[c] # {} => Adding(c)

OnceInv == Shape /\ EmptyInv /\ \E w : Located(w)

\* The k+1st sample arrives at a spot; all samples of a spot, or one, move.
Arrives(w, v, k, spot) ==
    /\ v \in [1..(k + 1) -> Spots]
    /\ Of(v, spot) = Of(w, spot) \cup {k + 1}
    /\ \A other : other # spot => Of(v, other) = Of(w, other)

Move(w, v, k, from, to) ==
    /\ v \in [1..k -> Spots]
    /\ Of(v, from) = {}
    /\ Of(v, to) = Of(w, from) \cup Of(w, to)
    /\ \A other : other \notin {from, to} => Of(v, other) = Of(w, other)

OneMoves(w, v, k, m, from, to) ==
    /\ v \in [1..k -> Spots]
    /\ Of(v, from) = Of(w, from) \ {m}
    /\ Of(v, to) = Of(w, to) \cup {m}
    /\ \A other : other \notin {from, to} => Of(v, other) = Of(w, other)

\* Each of these can be done.
LEMMA Arriving ==
    ASSUME NEW k \in Nat, NEW w \in [1..k -> Spots], NEW spot \in Spots
    PROVE  \E v : Arrives(w, v, k, spot)
<1>. DEFINE v == [n \in 1..(k + 1) |-> IF n = k + 1 THEN spot ELSE w[n]]
<1>1. Arrives(w, v, k, spot)
  BY DEF Arrives, Of
<1>. QED  BY <1>1

\* All the samples of one place move to another.
LEMMA Moving ==
    ASSUME NEW k \in Nat, NEW w \in [1..k -> Spots], NEW from, NEW to \in Spots, from # to
    PROVE  \E v : Move(w, v, k, from, to)
<1>. DEFINE v == [n \in 1..k |-> IF w[n] = from THEN to ELSE w[n]]
<1>1. Move(w, v, k, from, to)
  BY DEF Move, Of
<1>. QED  BY <1>1

\* One of them does.
LEMMA MovingOne ==
    ASSUME NEW k \in Nat, NEW w \in [1..k -> Spots], NEW from, NEW to \in Spots, from # to,
           NEW m \in Of(w, from)
    PROVE  \E v : OneMoves(w, v, k, m, from, to)
<1>. DEFINE v == [n \in 1..k |-> IF n = m THEN to ELSE w[n]]
<1>1. OneMoves(w, v, k, m, from, to)
  BY DEF OneMoves, Of
<1>. QED  BY <1>1

\* Where there are no samples, they are nowhere.
LEMMA OnceInitially == Init => OnceInv
<1>. SUFFICES ASSUME Init PROVE OnceInv
  OBVIOUS
<1>1. Shape /\ EmptyInv /\ 1..taken = {}
  BY DEF Init, Shape, EmptyInv
<1>. DEFINE w == [n \in 1..taken |-> <<"lost", 0>>]
<1>2. \A spot : Of(w, spot) = {}
  BY <1>1 DEF Of
<1>3. w \in [1..taken -> Spots]
  BY DEF Spots
<1>. HIDE DEF w
<1>4. Located(w)
  BY <1>2, <1>3 DEF Init, Located, Collecting, Sending, Ended
<1>. QED  BY <1>1, <1>4 DEF OnceInv

\* A sample is taken.
LEMMA OnceAdd ==
    ASSUME OnceInv, NEW p \in Providers, Add(p)
    PROVE  OnceInv'
<1>. PICK w : Located(w)
  BY DEF OnceInv
<1>1. Shape' /\ EmptyInv'
  BY DEF OnceInv, Add, Shape, EmptyInv, Adding, sinkVars
<1>2. <<"provider", p>> \in Spots /\ taken \in Nat /\ w \in [1..taken -> Spots]
  BY DEF Spots, OnceInv, Shape, Located
<1>3. PICK v : Arrives(w, v, taken, <<"provider", p>>)
  BY <1>2, Arriving
<1>4. Collecting(v)'
  BY <1>3 DEF Arrives, OnceInv, Shape, Located, Add, Collecting
<1>5. Sending(v)'
  BY <1>3 DEF Arrives, Located, Add, Sending, sinkVars
<1>6. Ended(v)'
  BY <1>3 DEF Arrives, Located, Add, Ended, fates
<1>. QED  BY <1>1, <1>3, <1>4, <1>5, <1>6 DEF Arrives, OnceInv, Located, Add

\* A provider's samples become an enumerator.
LEMMA OnceGetSamples ==
    ASSUME OnceInv, NEW c \in Collectors, CollectBegins(c) \/ ExportBegins(c)
    PROVE  OnceInv'
<1>. PICK w : Located(w)
  BY DEF OnceInv
<1>0. PICK p \in Providers : GetSamples(c, p)
  BY DEF CollectBegins, ExportBegins, Providers
<1>1. UNCHANGED <<taken, profile, sinkVars, fates>> /\ batch[c] = {} /\ Adding(c)'
      /\ \A d \in Collectors \ {c} : pc'[d] = pc[d]
  BY DEF OnceInv, Shape, EmptyInv, CollectBegins, ExportBegins, Goes, Adding, At
<1>2. Shape' /\ EmptyInv'
  BY <1>0, <1>1 DEF OnceInv, Shape, EmptyInv, GetSamples, Adding, sinkVars, CollectBegins,
                    ExportBegins, Goes
<1>3. <<"batch", c>> \in Spots /\ taken \in Nat /\ w \in [1..taken -> Spots]
  BY DEF Spots, OnceInv, Shape, Located
<1>4. PICK v : Move(w, v, taken, <<"provider", p>>, <<"batch", c>>)
  BY <1>3, Moving
<1>5. Collecting(v)'
  <2>1. \A q \in Providers : provider'[q] = Of(v, <<"provider", q>>)
    BY <1>0, <1>4 DEF Move, OnceInv, Shape, Located, GetSamples, Collecting
  <2>2. \A d \in Collectors : batch'[d] = Of(v, <<"batch", d>>)
    <3>. TAKE d \in Collectors
    <3>1. /\ provider[p] = Of(w, <<"provider", p>>)
          /\ batch[c] = Of(w, <<"batch", c>>) /\ batch[d] = Of(w, <<"batch", d>>)
      BY DEF Located, Collecting
    <3>2. batch'[d] = IF d = c THEN provider[p] ELSE batch[d]
      BY <1>0 DEF OnceInv, Shape, GetSamples
    <3>3. CASE d = c
      <4>1. Of(v, <<"batch", c>>) = Of(w, <<"provider", p>>) \cup Of(w, <<"batch", c>>)
        BY <1>4 DEF Move
      <4>. QED  BY <1>1, <3>1, <3>2, <3>3, <4>1
    <3>4. CASE d # c
      <4>1. <<"batch", d>> \notin {<<"provider", p>>, <<"batch", c>>}
        BY <3>4
      <4>2. Of(v, <<"batch", d>>) = Of(w, <<"batch", d>>)
        BY <1>4, <4>1 DEF Move
      <4>. QED  BY <3>1, <3>2, <3>4, <4>2
    <3>. QED  BY <3>3, <3>4
  <2>. QED  BY <1>1, <1>4, <2>1, <2>2 DEF Move, Located, Collecting
<1>6. Sending(v)'
  BY <1>1, <1>4 DEF Move, Located, Sending, sinkVars
<1>7. Ended(v)'
  BY <1>1, <1>4 DEF Move, Located, Ended, fates
<1>. QED  BY <1>1, <1>2, <1>4, <1>5, <1>6, <1>7 DEF Move, OnceInv, Located

\* MoveNext's sample goes into the profile, or is skipped.
LEMMA OnceAddToProfile ==
    ASSUME OnceInv, NEW c \in Collectors, AddToProfile(c)
    PROVE  OnceInv'
<1>. PICK w : Located(w)
  BY DEF OnceInv
<1>1. PICK n \in batch[c], to \in {"profile", "skipped"} :
          /\ batch' = [batch EXCEPT ![c] = @ \ {n}]
          /\ profile' = IF to = "profile" THEN profile \cup {n} ELSE profile
          /\ skipped' = IF to = "skipped" THEN skipped \cup {n} ELSE skipped
  BY DEF AddToProfile
<1>2. UNCHANGED <<taken, provider, pc, sinkVars, sent, dropped, lost>> /\ Adding(c)
  BY DEF AddToProfile
<1>3. Shape' /\ EmptyInv'
  BY <1>1, <1>2 DEF OnceInv, Shape, EmptyInv, Adding, sinkVars
<1>4. <<to, 0>> \in Spots /\ taken \in Nat /\ w \in [1..taken -> Spots] /\ n \in Of(w, <<"batch", c>>)
  BY DEF Spots, OnceInv, Shape, Located, Collecting
<1>5. PICK v : OneMoves(w, v, taken, n, <<"batch", c>>, <<to, 0>>)
  BY <1>4, MovingOne
<1>6. Collecting(v)'
  <2>1. \A q \in Providers : provider'[q] = Of(v, <<"provider", q>>)
    BY <1>2, <1>5 DEF OneMoves, Located, Collecting
  <2>2. \A d \in Collectors : batch'[d] = Of(v, <<"batch", d>>)
    BY <1>1, <1>5 DEF OneMoves, OnceInv, Shape, Located, Collecting
  <2>3. profile' = Of(v, <<"profile", 0>>)
    BY <1>1, <1>5 DEF OneMoves, Located, Collecting
  <2>. QED  BY <2>1, <2>2, <2>3 DEF Collecting
<1>7. Sending(v)'
  BY <1>2, <1>5 DEF OneMoves, Located, Sending, sinkVars
<1>8. Ended(v)'
  BY <1>1, <1>2, <1>5 DEF OneMoves, Located, Ended
<1>. QED  BY <1>2, <1>3, <1>5, <1>6, <1>7, <1>8 DEF OneMoves, OnceInv, Located

\* An exception loses the rest of an enumerator.
LEMMA OnceThrows ==
    ASSUME OnceInv, NEW c \in Collectors, CollectThrows(c)
    PROVE  OnceInv'
<1>. PICK w : Located(w)
  BY DEF OnceInv
<1>1. Shape' /\ EmptyInv'
  BY DEF OnceInv, Shape, EmptyInv, Adding, sinkVars, CollectThrows
<1>2. <<"lost", 0>> \in Spots /\ taken \in Nat /\ w \in [1..taken -> Spots]
  BY DEF Spots, OnceInv, Shape, Located
<1>3. PICK v : Move(w, v, taken, <<"batch", c>>, <<"lost", 0>>)
  BY <1>2, Moving
<1>4. Collecting(v)'
  BY <1>3 DEF Move, OnceInv, Shape, Located, Collecting, CollectThrows
<1>5. Sending(v)'
  BY <1>3 DEF Move, Located, Sending, sinkVars, CollectThrows
<1>6. Ended(v)'
  BY <1>3 DEF Move, OnceInv, Shape, Located, Collecting, Ended, CollectThrows
<1>. QED  BY <1>1, <1>3, <1>4, <1>5, <1>6 DEF Move, OnceInv, Located, CollectThrows

\* A process provider may give one more sample.
LEMMA OnceProcessSamples ==
    ASSUME OnceInv, NEW c \in Collectors, ProcessSamples(c)
    PROVE  OnceInv'
<1>. PICK w : Located(w)
  BY DEF OnceInv
<1>1. Shape' /\ EmptyInv'
  <2>1. /\ UNCHANGED <<provider, batch, queue, request, uploader>>
        /\ taken' = taken \/ taken' = taken + 1
        /\ batch[c] = {}
    BY DEF ProcessSamples, sinkVars
  <2>2. DOMAIN pc = Collectors /\ pc' = [pc EXCEPT ![c] = "offer"]
    BY DEF ProcessSamples, Goes, OnceInv, Shape
  <2>3. Shape'
    BY <2>1, <2>2 DEF OnceInv, Shape
  <2>4. ASSUME NEW d \in Collectors, batch'[d] # {} PROVE Adding(d)'
    <3>1. d # c /\ pc'[d] = pc[d] /\ batch[d] # {}
      BY <2>1, <2>2, <2>4
    <3>. QED  BY <3>1 DEF OnceInv, EmptyInv, Adding
  <2>. QED  BY <2>1, <2>3, <2>4 DEF OnceInv, EmptyInv
<1>2. UNCHANGED <<provider, batch, sinkVars, fates>>
  BY DEF ProcessSamples
<1>3. CASE UNCHANGED <<taken, profile>>
  <2>1. Located(w)'
    BY <1>2, <1>3 DEF Located, Collecting, Sending, Ended, sinkVars, fates
  <2>. QED  BY <1>1, <2>1 DEF OnceInv
<1>4. CASE taken' = taken + 1 /\ profile' = profile \cup {taken + 1}
  <2>1. <<"profile", 0>> \in Spots /\ taken \in Nat /\ w \in [1..taken -> Spots]
    BY DEF Spots, OnceInv, Shape, Located
  <2>2. PICK v : Arrives(w, v, taken, <<"profile", 0>>)
    BY <2>1, Arriving
  <2>3. Collecting(v)'
    BY <1>2, <1>4, <2>2 DEF Arrives, Located, Collecting
  <2>4. Sending(v)'
    BY <1>2, <2>2 DEF Arrives, Located, Sending, sinkVars
  <2>5. Ended(v)'
    BY <1>2, <2>2 DEF Arrives, Located, Ended, fates
  <2>. QED  BY <1>1, <1>4, <2>2, <2>3, <2>4, <2>5 DEF Arrives, OnceInv, Located
<1>. QED  BY <1>3, <1>4 DEF ProcessSamples

\* The sink refuses a profile.
LEMMA OnceRefused ==
    ASSUME OnceInv, NEW c \in Collectors, Refused(c)
    PROVE  OnceInv'
<1>. PICK w : Located(w)
  BY DEF OnceInv
<1>1. Shape' /\ EmptyInv'
  BY DEF OnceInv, Shape, EmptyInv, Adding, sinkVars, Refused, Goes, At
<1>2. <<"dropped", 0>> \in Spots /\ taken \in Nat /\ w \in [1..taken -> Spots]
  BY DEF Spots, OnceInv, Shape, Located
<1>3. PICK v : Move(w, v, taken, <<"profile", 0>>, <<"dropped", 0>>)
  BY <1>2, Moving
<1>4. Collecting(v)'
  BY <1>3 DEF Move, Located, Collecting, Refused
<1>5. Sending(v)'
  BY <1>3 DEF Move, Located, Sending, sinkVars, Refused
<1>6. Ended(v)'
  BY <1>3 DEF Move, Located, Collecting, Ended, Refused
<1>. QED  BY <1>1, <1>3, <1>4, <1>5, <1>6 DEF Move, OnceInv, Located, Refused

\* A profile is pushed.
LEMMA OnceExport ==
    ASSUME OnceInv, NEW c \in Collectors, Export(c)
    PROVE  OnceInv'
<1>. PICK w : Located(w)
  BY DEF OnceInv
<1>. PICK k \in Nat : k = Len(queue)
  BY DEF OnceInv, Shape
<1>0. <<"queue", k + 1>> \in Spots
  BY DEF Spots
<1>1. taken \in Nat /\ w \in [1..taken -> Spots] /\ <<"queue", k + 1>> \in Spots
  BY <1>0 DEF OnceInv, Shape, Located
<1>a. profile = Of(w, <<"profile", 0>>)
  BY DEF Located, Collecting
<1>2. profile \in SUBSET Nat
  BY <1>1, <1>a DEF Of
<1>b. queue \in Seq(SUBSET Nat) /\ queue' = Append(queue, profile)
  BY DEF OnceInv, Shape, Export, Push
<1>3. /\ queue' = Append(queue, profile) /\ queue' \in Seq(SUBSET Nat) /\ Len(queue') = k + 1
      /\ queue'[k + 1] = profile /\ \A i \in 1..k : queue'[i] = queue[i]
  BY <1>2, <1>b
<1>4. UNCHANGED <<taken, provider, batch, request, fates>> /\ profile' = {}
  BY DEF Export
<1>5. Shape' /\ EmptyInv'
  BY <1>3, <1>4 DEF OnceInv, Shape, EmptyInv, Adding, Export, Push, Goes, At
<1>6. PICK v : Move(w, v, taken, <<"profile", 0>>, <<"queue", k + 1>>)
  BY <1>1, Moving
<1>7. Collecting(v)'
  BY <1>4, <1>6 DEF Move, Located, Collecting
<1>8. Sending(v)'
  <2>1. Of(w, <<"queue", k + 1>>) = {} /\ Of(w, <<"profile", 0>>) = profile
    BY DEF Located, Sending, Collecting
  <2>2. Of(v, <<"queue", k + 1>>) = profile
    BY <1>6, <2>1 DEF Move
  <2>3. \A i \in Nat \ {k + 1} : Of(v, <<"queue", i>>) = Of(w, <<"queue", i>>)
    BY <1>6 DEF Move
  <2>4. Of(v, <<"request", 0>>) = Of(w, <<"request", 0>>)
    BY <1>6 DEF Move
  <2>5. \A i \in Nat : Of(v, <<"queue", i>>) = IF i \in 1..(k + 1) THEN queue'[i] ELSE {}
    <3>. TAKE i \in Nat
    <3>1. CASE i = k + 1
      BY <1>3, <2>2, <3>1
    <3>2. CASE i # k + 1
      <4>1. Of(v, <<"queue", i>>) = IF i \in 1..k THEN queue[i] ELSE {}
        BY <2>3, <3>2 DEF Located, Sending
      <4>. QED  BY <1>3, <3>2, <4>1
    <3>. QED  BY <3>1, <3>2
  <2>6. request' = Of(v, <<"request", 0>>)
    BY <1>4, <2>4 DEF Located, Sending
  <2>. QED  BY <1>3, <2>5, <2>6 DEF Sending
<1>9. Ended(v)'
  BY <1>4, <1>6 DEF Move, Located, Ended, fates
<1>. QED  BY <1>4, <1>5, <1>6, <1>7, <1>8, <1>9 DEF Move, OnceInv, Located

\* The destructor's empty request holds no sample.
LEMMA OnceWakes ==
    ASSUME OnceInv, DestructorWakes
    PROVE  OnceInv'
<1>. PICK w : Located(w)
  BY DEF OnceInv
<1>. PICK k \in Nat : k = Len(queue)
  BY DEF OnceInv, Shape
<1>1. /\ queue' = Append(queue, {}) /\ queue' \in Seq(SUBSET Nat) /\ Len(queue') = k + 1
      /\ queue'[k + 1] = {} /\ \A i \in 1..k : queue'[i] = queue[i]
  BY DEF OnceInv, Shape, DestructorWakes, Push
<1>2. UNCHANGED <<taken, provider, batch, profile, request, fates>>
  BY DEF DestructorWakes
<1>3. Shape' /\ EmptyInv'
  BY <1>1, <1>2 DEF OnceInv, Shape, EmptyInv, Adding, DestructorWakes, Push, Goes, At
<1>4. Sending(w)'
  BY <1>1, <1>2 DEF Located, Sending
<1>5. Located(w)'
  BY <1>2, <1>4 DEF Located, Collecting, Ended, fates
<1>. QED  BY <1>3, <1>5 DEF OnceInv

\* The first profile of the queue becomes the request, the others move up.
Shift(w, v, k) ==
    /\ v \in [1..k -> Spots]
    /\ Of(v, <<"request", 0>>) = Of(w, <<"request", 0>>) \cup Of(w, <<"queue", 1>>)
    /\ Of(v, <<"queue", 0>>) = {}
    /\ \A i \in Nat \ {0} : Of(v, <<"queue", i>>) = Of(w, <<"queue", i + 1>>)
    /\ \A x, y : x \notin {"queue", "request"} => Of(v, <<x, y>>) = Of(w, <<x, y>>)

\* This can be done too.
LEMMA Shifting ==
    ASSUME NEW k \in Nat, NEW w \in [1..k -> Spots], Of(w, <<"queue", 0>>) = {}
    PROVE  \E v : Shift(w, v, k)
<1>. DEFINE up(spot) == IF spot = <<"queue", 1>> THEN <<"request", 0>>
                        ELSE IF spot[1] = "queue" THEN <<"queue", spot[2] - 1>> ELSE spot
            v == [n \in 1..k |-> up(w[n])]
<1>1. \A n \in 1..k : w[n] \in Spots /\ w[n] # <<"queue", 0>>
  BY DEF Of
<1>2. \A n \in 1..k : w[n][1] = "queue" =>
          \E i \in Nat \ {0} : w[n] = <<"queue", i>>
  BY <1>1 DEF Spots
<1>3. \A n \in 1..k : up(w[n]) \in Spots
  BY <1>1, <1>2 DEF Spots
<1>4. \A n \in 1..k : up(w[n]) = <<"request", 0>> <=> w[n] \in {<<"request", 0>>, <<"queue", 1>>}
  BY <1>2
<1>5. \A n \in 1..k : up(w[n]) # <<"queue", 0>>
  BY <1>1, <1>2
<1>6. \A n \in 1..k : \A i \in Nat \ {0} : up(w[n]) = <<"queue", i>> <=> w[n] = <<"queue", i + 1>>
  <2>. TAKE n \in 1..k, i \in Nat \ {0}
  <2>1. CASE w[n][1] = "queue"
    <3>1. PICK j \in Nat \ {0} : w[n] = <<"queue", j>>
      BY <1>2, <2>1
    <3>2. CASE j = 1
      BY <3>1, <3>2
    <3>3. CASE j # 1
      <4>1. up(w[n]) = <<"queue", j - 1>>
        BY <3>1, <3>3
      <4>2. j - 1 = i <=> j = i + 1
        OBVIOUS
      <4>3. up(w[n]) = <<"queue", i>> <=> j - 1 = i
        BY <4>1
      <4>4. w[n] = <<"queue", i + 1>> <=> j = i + 1
        BY <3>1
      <4>. QED  BY <4>2, <4>3, <4>4
    <3>. QED  BY <3>2, <3>3
  <2>2. CASE w[n][1] # "queue"
    BY <2>2
  <2>. QED  BY <2>1, <2>2
<1>7. \A n \in 1..k : \A x, y : x \notin {"queue", "request"} =>
          (up(w[n]) = <<x, y>> <=> w[n] = <<x, y>>)
  BY <1>2
<1>. HIDE DEF up
<1>8. v \in [1..k -> Spots] /\ \A n \in 1..k : v[n] = up(w[n])
  BY <1>3
<1>. HIDE DEF v
<1>9. Of(v, <<"request", 0>>) = Of(w, <<"request", 0>>) \cup Of(w, <<"queue", 1>>)
  BY <1>4, <1>8 DEF Of
<1>10. Of(v, <<"queue", 0>>) = {}
  BY <1>5, <1>8 DEF Of
<1>11. \A i \in Nat \ {0} : Of(v, <<"queue", i>>) = Of(w, <<"queue", i + 1>>)
  BY <1>6, <1>8, ZenonT(60) DEF Of
<1>12. \A x, y : x \notin {"queue", "request"} => Of(v, <<x, y>>) = Of(w, <<x, y>>)
  <2>. SUFFICES ASSUME NEW x, NEW y, x \notin {"queue", "request"}
                PROVE  Of(v, <<x, y>>) = Of(w, <<x, y>>)
    OBVIOUS
  <2>1. \A n \in 1..k : v[n] = <<x, y>> <=> w[n] = <<x, y>>
    <3>1. \A n \in 1..k : up(w[n]) = <<x, y>> <=> w[n] = <<x, y>>
      BY <1>7
    <3>. QED  BY <1>8, <3>1
  <2>2. DOMAIN v = 1..k /\ DOMAIN w = 1..k
    BY <1>8
  <2>. QED  BY <2>1, <2>2 DEF Of
<1>13. Shift(w, v, k)
  BY <1>8, <1>9, <1>10, <1>11, <1>12 DEF Shift
<1>. QED  BY <1>13

\* The uploader pops a request.
LEMMA OncePop ==
    ASSUME OnceInv, Pop
    PROVE  OnceInv'
<1>. PICK w : Located(w)
  BY DEF OnceInv
<1>. PICK k \in Nat : k = Len(queue)
  BY DEF OnceInv, Shape
<1>1. /\ request = {} /\ request' = queue[1] /\ 1 <= k
      /\ queue' \in Seq(SUBSET Nat) /\ Len(queue') = k - 1
      /\ \A i \in 1..(k - 1) : queue'[i] = queue[i + 1]
  BY DEF OnceInv, Shape, EmptyInv, Pop
<1>2. UNCHANGED <<taken, collectVars, fates>> /\ uploader' = "upload"
  BY DEF Pop
<1>3. Shape' /\ EmptyInv'
  BY <1>1, <1>2 DEF OnceInv, Shape, EmptyInv, Adding, collectVars
<1>4. taken \in Nat /\ w \in [1..taken -> Spots] /\ Of(w, <<"queue", 0>>) = {}
  BY DEF OnceInv, Shape, Located, Sending
<1>5. PICK v : Shift(w, v, taken)
  BY <1>4, Shifting
<1>6. Collecting(v)'
  BY <1>2, <1>5 DEF Shift, Located, Collecting, collectVars
<1>7. Sending(v)'
  <2>1. request' = Of(v, <<"request", 0>>)
    <3>1. Of(w, <<"request", 0>>) = {} /\ Of(w, <<"queue", 1>>) = queue[1]
      BY <1>1 DEF Located, Sending
    <3>. QED  BY <1>1, <1>5, <3>1 DEF Shift
  <2>2. \A i \in Nat : Of(v, <<"queue", i>>) = IF i \in 1..(k - 1) THEN queue'[i] ELSE {}
    <3>. TAKE i \in Nat
    <3>1. CASE i = 0
      BY <1>5, <3>1 DEF Shift
    <3>2. CASE i # 0
      <4>1. Of(v, <<"queue", i>>) = Of(w, <<"queue", i + 1>>)
        BY <1>5, <3>2 DEF Shift
      <4>2. Of(w, <<"queue", i + 1>>) = IF i + 1 \in 1..k THEN queue[i + 1] ELSE {}
        BY DEF Located, Sending
      <4>. QED  BY <1>1, <3>2, <4>1, <4>2
    <3>. QED  BY <3>1, <3>2
  <2>. QED  BY <1>1, <2>1, <2>2 DEF Sending
<1>8. Ended(v)'
  BY <1>2, <1>5 DEF Shift, Located, Ended, fates
<1>. QED  BY <1>2, <1>3, <1>5, <1>6, <1>7, <1>8 DEF Shift, OnceInv, Located

\* An upload succeeds or fails.
LEMMA OnceUpload ==
    ASSUME OnceInv, Upload
    PROVE  OnceInv'
<1>. PICK w : Located(w)
  BY DEF OnceInv
<1>1. PICK to \in {"sent", "lost"} :
          /\ sent' = IF to = "sent" THEN sent \cup request ELSE sent
          /\ lost' = IF to = "lost" THEN lost \cup request ELSE lost
  BY DEF Upload
<1>2. UNCHANGED <<taken, collectVars, queue, skipped, dropped>> /\ request' = {}
  BY DEF Upload
<1>3. Shape' /\ EmptyInv'
  BY <1>2 DEF OnceInv, Shape, EmptyInv, Adding, collectVars
<1>4. <<to, 0>> \in Spots /\ taken \in Nat /\ w \in [1..taken -> Spots]
  BY DEF Spots, OnceInv, Shape, Located
<1>5. PICK v : Move(w, v, taken, <<"request", 0>>, <<to, 0>>)
  BY <1>4, Moving
<1>6. Collecting(v)'
  BY <1>2, <1>5 DEF Move, Located, Collecting, collectVars
<1>7. Sending(v)'
  BY <1>2, <1>5 DEF Move, Located, Sending
<1>8. Ended(v)'
  BY <1>1, <1>2, <1>5 DEF Move, Located, Sending, Ended
<1>. QED  BY <1>2, <1>3, <1>5, <1>6, <1>7, <1>8 DEF Move, OnceInv, Located

\* The other steps move no sample.
LEMMA OnceOther ==
    ASSUME OnceInv,
           \/ \E c \in Collectors : CollectEnds(c) \/ Accepted(c)
           \/ \E c \in {"worker", "exporter"} : ThreadStep(c)
           \/ StopBegins \/ DestructorBegins \/ WorkerJoined \/ ExporterJoined \/ UploaderJoined
           \/ WorkTests \/ Wait \/ SpuriousWakeup
           \/ UNCHANGED vars
    PROVE  OnceInv'
<1>. PICK w : Located(w)
  BY DEF OnceInv
<1>. USE DEF CollectEnds, Accepted, ThreadStep, TimesOut, Leaves, StopBegins, DestructorBegins,
             WorkerJoined, ExporterJoined, UploaderJoined, WorkTests, Wait, SpuriousWakeup,
             vars, collectVars, sinkVars, Goes, At
<1>1. UNCHANGED <<taken, provider, batch, profile, queue, request, fates>>
  OBVIOUS
<1>2. Shape'
  BY <1>1 DEF OnceInv, Shape
<1>3. EmptyInv'
  BY <1>1 DEF OnceInv, Shape, EmptyInv, Adding
<1>4. Located(w)'
  BY <1>1 DEF Located, Collecting, Sending, Ended, fates
<1>. QED  BY <1>2, <1>3, <1>4 DEF OnceInv

\* Each sample is in one place, whatever step is taken.
THEOREM OnceInvariance == Spec => []OnceInv
<1>1. OnceInv /\ [Next]_vars => OnceInv'
  BY OnceAdd, OnceGetSamples, OnceAddToProfile, OnceThrows, OnceProcessSamples, OnceRefused,
     OnceExport, OnceWakes, OncePop, OnceUpload, OnceOther
     DEF Next, CollectorStep, StopperStep, UploaderStep, Over
<1>. QED  BY <1>1, OnceInitially, PTL DEF Spec

-----------------------------------------------------------------------------
(***************************************************************************)
(* The timers.  A thread that registers holds _registerLock shared until   *)
(* its timer is made, and Start and Stop go through the list under the     *)
(* exclusive lock; this is why nobody registers while the profiler is      *)
(* quiet, from the end of StopTimers to the next StartTimers.              *)
(***************************************************************************)
Lives == {"new", "listed", "registering", "live", "removed", "marking", "unlisted",
          "destroyed", "finished"}

Ending == {"removed", "marking", "unlisted"}

Quiet == state \in {"Init", "Stopped"} \/ control \in {"handler", "timers", "check", "sleep"}

Types ==
    /\ life \in [Threads -> Lives]
    /\ kernel \subseteq Threads
    /\ timerId = kernel

\* Which state goes with which step of Start and Stop.
ControlInv ==
    /\ control = "idle" => state \in {"Init", "Started", "Stopped"}
    /\ control \in {"handler", "timers", "ready"} => state = "Starting"
    /\ control \in {"ignore", "delete", "check", "sleep"} => state = "Stopping"
    /\ control \in {"idle", "handler", "timers", "ready", "ignore", "delete", "check", "sleep"}

\* What a thread's place in its life says about its timer and the shared lock.
LifeInv ==
    \A t \in Threads :
        /\ life[t] = "registering" => t \in readers
        /\ life[t] \in {"listed", "registering", "live"} => t \in current
        /\ t \in kernel => life[t] \in {"listed", "registering", "live"} \cup Ending

QuietInv ==
    Quiet => \A t \in Threads : /\ life[t] # "registering"
                                /\ t \in kernel => life[t] \in Ending

\* LiveThreadHasTimer, from the moment StartTimers releases the lock.
RunningInv ==
    (state = "Started" /\ control = "idle") \/ control = "ready" =>
        \A t \in Threads \ excused : life[t] = "live" => t \in kernel

TimerInv == Types /\ ControlInv /\ LifeInv /\ QuietInv /\ RunningInv

\* No thread has a timer at first.
LEMMA TimersInitially == TimerInit => TimerInv
BY DEF TimerInit, TimerInv, Types, ControlInv, LifeInv, QuietInv, RunningInv, Quiet, Lives, Ending

\* The steps of Start.
LEMMA StartStep ==
    ASSUME TimerInv, Start \/ RegisterHandler \/ StartTimers \/ Started
    PROVE  TimerInv'
<1>. USE DEF TimerInv, Types, ControlInv, LifeInv, QuietInv, RunningInv, Quiet, Lives, Ending
<1>1. CASE Start
  BY <1>1 DEF Start, timerVars
<1>2. CASE RegisterHandler
  BY <1>2 DEF RegisterHandler, timerVars
<1>3. CASE StartTimers
  BY <1>3 DEF StartTimers, CreateTimers, Listed
<1>4. CASE Started
  BY <1>4 DEF Started, timerVars
<1>. QED  BY <1>1, <1>2, <1>3, <1>4

\* The steps of Stop.
LEMMA StopStep ==
    ASSUME TimerInv, Stop \/ IgnoreSignal \/ StopTimers \/ WaitForHandlers \/ Dispose
    PROVE  TimerInv'
<1>. USE DEF TimerInv, Types, ControlInv, LifeInv, QuietInv, RunningInv, Quiet, Lives, Ending
<1>1. CASE Stop
  BY <1>1 DEF Stop, timerVars
<1>2. CASE IgnoreSignal
  BY <1>2 DEF IgnoreSignal, timerVars
<1>3. CASE StopTimers
  BY <1>3 DEF StopTimers, DeleteTimers, Listed
<1>4. CASE WaitForHandlers
  BY <1>4 DEF WaitForHandlers, Stopped, StopFails, Listed
<1>5. CASE Dispose
  BY <1>5 DEF Dispose, timerVars
<1>. QED  BY <1>1, <1>2, <1>3, <1>4, <1>5

\* A thread comes.
LEMMA ComingStep ==
    ASSUME TimerInv, NEW t \in Threads,
           ThreadAssigned(t) \/ RegisterThread(t) \/ RegisterThreadImpl(t)
    PROVE  TimerInv'
<1>. USE DEF TimerInv, Types, ControlInv, LifeInv, QuietInv, RunningInv, Quiet, Lives, Ending,
             Runs, controlVars
<1>1. CASE ThreadAssigned(t)
  BY <1>1 DEF ThreadAssigned, timerVars
<1>2. CASE RegisterThread(t)
  BY <1>2 DEF RegisterThread
<1>3. CASE RegisterThreadImpl(t)
  BY <1>3, ZenonT(60) DEF RegisterThreadImpl, CreateTimers
<1>. QED  BY <1>1, <1>2, <1>3

\* A thread goes.
LEMMA GoingStep ==
    ASSUME TimerInv, NEW t \in Threads,
           \/ ThreadDestroyed(t) \/ SetThreadDestroyed(t) \/ ThreadIsMarked(t)
           \/ UnregisterThread(t) \/ OnThreadRoutineFinished(t) \/ ThreadFinishes(t)
    PROVE  TimerInv'
<1>. USE DEF TimerInv, Types, ControlInv, LifeInv, QuietInv, RunningInv, Quiet, Lives, Ending,
             Runs, controlVars
<1>1. CASE ThreadDestroyed(t)
  BY <1>1 DEF ThreadDestroyed, timerVars
<1>2. CASE SetThreadDestroyed(t)
  BY <1>2 DEF SetThreadDestroyed, timerVars
<1>3. CASE ThreadIsMarked(t)
  BY <1>3 DEF ThreadIsMarked, timerVars
<1>4. CASE UnregisterThread(t)
  BY <1>4 DEF UnregisterThread, DeleteTimers
<1>5. CASE OnThreadRoutineFinished(t)
  BY <1>5, ZenonT(60) DEF OnThreadRoutineFinished, DeleteTimers
<1>6. CASE ThreadFinishes(t)
  BY <1>6 DEF ThreadFinishes, timerVars
<1>. QED  BY <1>1, <1>2, <1>3, <1>4, <1>5, <1>6

\* Signals, handlers and the wall time sampler have no part in this.
LEMMA SignalStep ==
    ASSUME TimerInv,
           \/ UNCHANGED cpuTimerVars
           \/ \E t \in Threads : \/ TimerFires(t) \/ SamplerLocks(t) \/ SamplerUnlocks(t)
                                 \/ HandlerBegins(t) \/ Handler(t)
    PROVE  TimerInv'
<1>1. UNCHANGED <<state, control, readers, life, current, timerId, kernel, excused>>
  BY DEF cpuTimerVars, TimerFires, SamplerLocks, SamplerUnlocks,
         HandlerBegins, Handler, CollectEnters, CollectGivesUp,
         CollectLocks, Collect, CollectLeaves, HandlerUnchanged,
         controlVars, timerVars
<1>. QED  BY <1>1 DEF TimerInv, Types, ControlInv, LifeInv, QuietInv, RunningInv, Quiet

\* The inductive invariant of the timers, from any state and by any step.
THEOREM TimersInvariance == TimerSpec => []TimerInv
<1>1. TimerInv /\ [TimerNext]_cpuTimerVars => TimerInv'
  BY StartStep, StopStep, ComingStep, GoingStep, SignalStep
     DEF TimerNext, Control,
       Code
<1>. QED  BY <1>1, TimersInitially, PTL DEF TimerSpec

\* A stopped profiler leaves no timer behind, whoever registers while StopImpl
\* deletes them, nor does a thread that ends.
THEOREM NoTimerStrays == TimerSpec => []NoStrayTimer
<1>1. TimerInv => NoStrayTimer
  BY DEF TimerInv, Types, LifeInv, QuietInv, Quiet, Ending, NoStrayTimer
<1>. QED  BY <1>1, TimersInvariance, PTL

\* While the profiler is started, a live thread that is not excused has a timer.
THEOREM LiveThreadsHaveTimers == TimerSpec => []LiveThreadHasTimer
<1>1. TimerInv => LiveThreadHasTimer
  BY DEF TimerInv, RunningInv, LiveThreadHasTimer
<1>. QED  BY <1>1, TimersInvariance, PTL

-----------------------------------------------------------------------------
(***************************************************************************)
(* What counts members of a set.                                           *)
(***************************************************************************)
INSTANCE FiniteSetTheorems

\* The worker, the exporter thread and Stop never use _cachedSample and the
\* profile builders at the same time.
THEOREM CollectorsTakeTurns == Spec => []OneCollectorAtATime
<1>1. PipelineInv => OneCollectorAtATime
  <2>. SUFFICES ASSUME PipelineInv PROVE OneCollectorAtATime
    OBVIOUS
  <2>. DEFINE users == {c \in Collectors : Adding(c) \/ pc[c] \in {"offer", "push"}}
  <2>1. users \subseteq {lock}
    BY DEF PipelineInv, LockInv, InExporter, Adding
  <2>2. IsFiniteSet({lock}) /\ Cardinality({lock}) = 1
    BY FS_Singleton
  <2>3. IsFiniteSet(users) /\ Cardinality(users) <= Cardinality({lock})
    BY <2>1, <2>2, FS_Subset
  <2>. QED  BY <2>2, <2>3 DEF OneCollectorAtATime
<1>. QED  BY <1>1, PipelineInvariance, PTL

\* Every sample taken is in just one of the providers, enumerators, the profile,
\* the queue, the uploader's hands, or has met its end; no other sample is.
THEOREM SamplesAreCountedOnce == Spec => []EachSampleOnce
<1>1. OnceInv => EachSampleOnce
  <2>. SUFFICES ASSUME OnceInv PROVE EachSampleOnce
    OBVIOUS
  <2>. PICK w : Located(w)
    BY DEF OnceInv
  <2>1. w \in [1..taken -> Spots] /\ DOMAIN queue = 1..Len(queue) /\ Len(queue) \in Nat
    BY DEF OnceInv, Shape, Located
  <2>2. ASSUME NEW n, NEW spot, spot \in Places(n)
        PROVE  n \in 1..taken /\ spot = w[n]
    BY <2>1, <2>2 DEF Places, Located, Collecting, Sending, Ended, Of
  <2>3. ASSUME NEW n \in 1..taken PROVE w[n] \in Places(n)
    BY <2>1 DEF Places, Located, Collecting, Sending, Ended, Of, Spots
  <2>4. \A n \in 1..taken : Places(n) = {w[n]}
    BY <2>2, <2>3
  <2>5. \A n \in Samples \ (1..taken) : Places(n) = {}
    BY <2>2
  <2>. QED  BY <2>4, <2>5, FS_Singleton, ZenonT(60) DEF EachSampleOnce
<1>. QED  BY <1>1, OnceInvariance, PTL

-----------------------------------------------------------------------------
(***************************************************************************)
(* The counter of handlers.                                                *)
(***************************************************************************)
Inside(h) == {t \in Threads : h[t] \in {"counted", "locked"}}

HandlerPlaces == {"out", "loaded", "counted", "locked", "leaving"}

CounterInv ==
    /\ handler \in [Threads -> HandlerPlaces]
    /\ nbThreadsInSignalHandler = Cardinality(Inside(handler))

\* The threads inside Collect are finitely many.
LEMMA InsideIsFinite ==
    ASSUME NEW h PROVE IsFiniteSet(Inside(h)) /\ Cardinality(Inside(h)) \in Nat
<1>1. Inside(h) \subseteq Threads /\ IsFiniteSet(Threads)
  BY CpuTimerAssumption DEF Inside
<1>2. IsFiniteSet(Inside(h))
  BY <1>1, FS_Subset
<1>. QED  BY <1>2, FS_CardinalityType

\* A thread that enters Collect is one more inside it.
LEMMA Entering ==
    ASSUME NEW t \in Threads, NEW h \in [Threads -> HandlerPlaces], NEW to \in {"counted", "locked"},
           h[t] \notin {"counted", "locked"}
    PROVE  Cardinality(Inside([h EXCEPT ![t] = to])) = Cardinality(Inside(h)) + 1
<1>1. Inside([h EXCEPT ![t] = to]) = Inside(h) \cup {t}
  BY DEF Inside
<1>2. t \notin Inside(h)
  BY DEF Inside
<1>. QED  BY <1>1, <1>2, InsideIsFinite, FS_AddElement, ZenonT(60)

\* A thread that leaves it is one less.
LEMMA Leaving ==
    ASSUME NEW t \in Threads, NEW h \in [Threads -> HandlerPlaces], NEW to \in {"out", "leaving"},
           h[t] \in {"counted", "locked"}
    PROVE  Cardinality(Inside([h EXCEPT ![t] = to])) = Cardinality(Inside(h)) - 1
<1>1. Inside([h EXCEPT ![t] = to]) = Inside(h) \ {t}
  BY DEF Inside
<1>2. t \in Inside(h)
  BY DEF Inside
<1>. QED  BY <1>1, <1>2, InsideIsFinite, FS_RemoveElement, ZenonT(60)

\* The number inside depends only on which threads are.
LEMMA MovingInside ==
    ASSUME NEW t \in Threads, NEW h \in [Threads -> HandlerPlaces], NEW to \in HandlerPlaces,
           h[t] \in {"counted", "locked"} <=> to \in {"counted", "locked"}
    PROVE  Inside([h EXCEPT ![t] = to]) = Inside(h)
BY DEF Inside

\* Each step of a handler keeps the counter exact.
LEMMA HandlerKeepsCounter ==
    ASSUME CounterInv, NEW t \in Threads, HandlerBegins(t) \/ Handler(t)
    PROVE  CounterInv'
<1>. USE DEF CounterInv, HandlerPlaces
<1>1. CASE HandlerBegins(t)
  BY <1>1, MovingInside DEF HandlerBegins
<1>2. CASE CollectEnters(t)
  BY <1>2, Entering, ZenonT(60) DEF CollectEnters
<1>3. CASE CollectGivesUp(t)
  BY <1>3, Leaving, ZenonT(60) DEF CollectGivesUp
<1>4. CASE CollectLocks(t)
  BY <1>4, MovingInside, ZenonT(60) DEF CollectLocks
<1>5. CASE Collect(t)
  BY <1>5, Leaving DEF Collect
<1>6. CASE CollectLeaves(t)
  BY <1>6, MovingInside DEF CollectLeaves
<1>. QED  BY <1>1, <1>2, <1>3, <1>4, <1>5, <1>6 DEF Handler

\* No other step touches what the counter counts.
LEMMA OthersKeepCounter ==
    ASSUME [TimerNext]_cpuTimerVars, \A t \in Threads : ~(HandlerBegins(t) \/ Handler(t))
    PROVE  UNCHANGED <<handler, nbThreadsInSignalHandler>>
<1>1. CASE UNCHANGED cpuTimerVars
  BY <1>1 DEF cpuTimerVars, handlerVars
<1>2. CASE Start \/ Stop \/ Dispose \/ Control
  BY <1>2
     DEF Start, Stop, Dispose, Control, RegisterHandler,
                     StartTimers, Started, IgnoreSignal, StopTimers,
                     WaitForHandlers, handlerVars
<1>3. ASSUME NEW t \in Threads,
             \/ ThreadAssigned(t) \/ ThreadDestroyed(t) \/ OnThreadRoutineFinished(t)
             \/ ThreadFinishes(t) \/ TimerFires(t) \/ SamplerLocks(t) \/ SamplerUnlocks(t)
             \/ Code(t)
      PROVE  UNCHANGED <<handler, nbThreadsInSignalHandler>>
  BY <1>3
     DEF ThreadAssigned, ThreadDestroyed, OnThreadRoutineFinished,
              ThreadFinishes, TimerFires, SamplerLocks, SamplerUnlocks,
              Code, RegisterThread, RegisterThreadImpl, SetThreadDestroyed,
              ThreadIsMarked, UnregisterThread, handlerVars
<1>. QED  BY <1>1, <1>2, <1>3 DEF TimerNext

\* StopImpl's _nbThreadsInSignalHandler is, in every state, the number of
\* threads between the increment and the decrement in Collect.
THEOREM CounterIsAlwaysExact == TimerSpec => []CounterIsExact
<1>1. TimerInit => CounterInv
  <2>. SUFFICES ASSUME TimerInit PROVE CounterInv
    OBVIOUS
  <2>1. handler = [t \in Threads |-> "out"] /\ nbThreadsInSignalHandler = 0
    BY DEF TimerInit
  <2>2. Inside(handler) = {}
    BY <2>1 DEF Inside
  <2>. QED  BY <2>1, <2>2, FS_EmptySet DEF CounterInv, HandlerPlaces
<1>2. CounterInv /\ [TimerNext]_cpuTimerVars => CounterInv'
  <2>. SUFFICES ASSUME CounterInv, [TimerNext]_cpuTimerVars PROVE CounterInv'
    OBVIOUS
  <2>1. CASE \E t \in Threads : HandlerBegins(t) \/ Handler(t)
    BY <2>1, HandlerKeepsCounter
  <2>2. CASE \A t \in Threads : ~(HandlerBegins(t) \/ Handler(t))
    BY <2>2, OthersKeepCounter DEF CounterInv, Inside
  <2>. QED  BY <2>1, <2>2
<1>3. CounterInv => CounterIsExact
  BY DEF CounterInv, CounterIsExact, Inside
<1>. QED  BY <1>1, <1>2, <1>3, PTL DEF TimerSpec
=============================================================================
