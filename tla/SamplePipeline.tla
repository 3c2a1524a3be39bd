---------------------------- MODULE SamplePipeline ----------------------------
(***************************************************************************)
(* The way of a sample from the provider that took it to the server.       *)
(* SamplesCollector's worker thread moves the samples of the providers     *)
(* into the exporter; its exporter thread adds those of the batched        *)
(* providers, builds a profile and hands it to PyroscopePprofSink, whose   *)
(* own thread uploads it.  Stop, and then the sink's destructor, end all   *)
(* this from the thread that shuts the profiler down ("stopper").          *)
(*                                                                         *)
(* A sample is a number.  What is done to it (upscaling, the encoding of   *)
(* the profile, the HTTP request) is left out; whether it gets through is  *)
(* not.                                                                    *)
(***************************************************************************)
EXTENDS Naturals, Sequences, FiniteSets

CONSTANTS
    MaxSamples,   \* bound: samples taken
    MaxQueue      \* the sink drops a profile when this many are queued (3)

ASSUME SamplePipelineAssumption == MaxSamples \in Nat /\ MaxQueue \in Nat \ {0}

Samples == 1..MaxSamples
Providers == {"regular", "batched"}   \* _samplesProviders, _batchedSamplesProviders
Collectors == {"worker", "exporter", "stopper"}
NoOwner == "nobody"

VARIABLES
    taken,            \* samples taken so far, numbered in order
    provider,         \* what each provider holds (_collectedSamples)
    lock,             \* owner of _exportLock
    batch,            \* the enumerator a collector is going through
    pc,               \* where each collector is
    profile,          \* samples in the exporter's profile builders
    beforeStop,       \* samples taken before Stop was called
    uploadDisabled,   \* _uploadDisabled: the proxy setting is invalid
    queue,            \* the sink's LockingQueue of requests
    request,          \* the request the uploader has popped
    uploader,         \* where the uploader is
    running,          \* _running
    sent,             \* samples uploaded
    skipped,          \* samples not worth a profile entry
    dropped,          \* samples of a profile the sink refused
    lost              \* samples gone with an exception or a failed upload

collectVars == <<provider, lock, batch, pc, profile>>
sinkVars == <<queue, request, uploader, running>>
fates == <<sent, skipped, dropped, lost>>
vars == <<taken, collectVars, beforeStop, uploadDisabled, sinkVars, fates>>

Init ==
    /\ taken = 0
    /\ provider = [p \in Providers |-> {}]
    /\ lock = NoOwner
    /\ batch = [c \in Collectors |-> {}]
    /\ pc = [c \in Collectors |-> IF c = "stopper" THEN "idle" ELSE "sleep"]
    /\ profile = {}
    /\ beforeStop = {}
    /\ uploadDisabled \in BOOLEAN
    /\ queue = <<>>
    /\ request = {}
    /\ uploader = "loop"
    /\ running = TRUE
    /\ sent = {}
    /\ skipped = {}
    /\ dropped = {}
    /\ lost = {}

At(c, place) == pc[c] = place
Goes(c, place) == pc' = [pc EXCEPT ![c] = place]

\* CollectorBase::Add, called by a sampler or a callback.  The providers are
\* still called after Stop, until DisposeServices clears the services.
Add(p) ==
    /\ taken < MaxSamples
    /\ running
    /\ taken' = taken + 1
    /\ provider' = [provider EXCEPT ![p] = @ \cup {taken + 1}]
    /\ UNCHANGED <<lock, batch, pc, profile, beforeStop, uploadDisabled, sinkVars, fates>>

-----------------------------------------------------------------------------
(***************************************************************************)
(* The worker and the exporter thread sleep on the future of a promise     *)
(* that StopImpl fulfils just before it joins them.                        *)
(***************************************************************************)
WorkerPromise == ~At("stopper", "idle")

ExporterPromise == pc["stopper"] \notin {"idle", "joinWorker"}

Promised(c) == IF c = "worker" THEN WorkerPromise ELSE ExporterPromise

TimesOut(c) ==
    /\ At(c, "sleep")
    /\ ~Promised(c)
    /\ Goes(c, IF c = "worker" THEN "collect" ELSE "export")
    /\ UNCHANGED <<taken, provider, lock, batch, profile, beforeStop, uploadDisabled, sinkVars, fates>>

Leaves(c) ==
    /\ At(c, "sleep")
    /\ Promised(c)
    /\ Goes(c, "ended")
    /\ UNCHANGED <<taken, provider, lock, batch, profile, beforeStop, uploadDisabled, sinkVars, fates>>

-----------------------------------------------------------------------------
(***************************************************************************)
(* CollectSamples and Export, by the collector c.  _exportLock is          *)
(* recursive: Export holds it while it calls CollectSamples.               *)
(* An exception of a sample's transformation is modelled; one out of the   *)
(* building of a profile is not.                                           *)
(***************************************************************************)
TakeNoLock(c) == lock' = c

TakeLock(c) == lock = NoOwner /\ lock' = c

GetSamplesCopies(c, p) ==
    /\ batch' = [batch EXCEPT ![c] = provider[p]]
    /\ UNCHANGED provider

GetSamples(c, p) ==
    /\ batch' = [batch EXCEPT ![c] = provider[p]]
    /\ provider' = [provider EXCEPT ![p] = {}]

CollectBegins(c) ==
    /\ At(c, "collect")
    /\ TakeLock(c)
    /\ GetSamples(c, "regular")
    /\ Goes(c, "adding")
    /\ UNCHANGED <<taken, profile, beforeStop, uploadDisabled, sinkVars, fates>>

ExportBegins(c) ==
    /\ At(c, "export")
    /\ TakeLock(c)
    /\ GetSamples(c, "batched")
    /\ Goes(c, "addingBatched")
    /\ UNCHANGED <<taken, profile, beforeStop, uploadDisabled, sinkVars, fates>>

Adding(c) == pc[c] \in {"adding", "addingBatched"}

\* MoveNext and the exporter's Add.  A sample with an empty callstack is not
\* added, nor is one all of whose values are zero.
AddToProfile(c) ==
    /\ Adding(c)
    /\ \E n \in batch[c] :
          /\ batch' = [batch EXCEPT ![c] = @ \ {n}]
          /\ \/ profile' = profile \cup {n} /\ UNCHANGED skipped
             \/ skipped' = skipped \cup {n} /\ UNCHANGED profile
    /\ UNCHANGED <<taken, provider, lock, pc, beforeStop, uploadDisabled, sinkVars, sent, dropped, lost>>

\* An exception ends the enumeration, and what it had still to give is lost.
CollectThrows(c) ==
    /\ Adding(c)
    /\ batch[c] # {}
    /\ lost' = lost \cup batch[c]
    /\ batch' = [batch EXCEPT ![c] = {}]
    /\ UNCHANGED <<taken, provider, lock, pc, profile, beforeStop, uploadDisabled, sinkVars,
                   sent, skipped, dropped>>

\* The worker sleeps again; StopImpl goes on with its last Export.
CollectEnds(c) ==
    /\ At(c, "adding")
    /\ batch[c] = {}
    /\ lock' = NoOwner
    /\ Goes(c, IF c = "worker" THEN "sleep" ELSE "export")
    /\ UNCHANGED <<taken, provider, batch, profile, beforeStop, uploadDisabled, sinkVars, fates>>

AfterExport(c) == IF c = "exporter" THEN "sleep" ELSE "stopped"

\* PprofExporter::Export adds the samples of the process providers (here: at
\* most one new sample) ...
ProcessSamples(c) ==
    /\ At(c, "addingBatched")
    /\ batch[c] = {}
    /\ \/ UNCHANGED <<taken, profile>>
       \/ /\ taken < MaxSamples
          /\ taken' = taken + 1
          /\ profile' = profile \cup {taken + 1}
    /\ Goes(c, "offer")
    /\ UNCHANGED <<provider, lock, batch, beforeStop, uploadDisabled, sinkVars, fates>>

\* ... builds the profiles, which empties the builders, and offers them to the
\* sink.  That can refuse them, or there may be nothing to offer.
QueueIsFull == Len(queue) >= MaxQueue

Refused(c) ==
    /\ At(c, "offer")
    /\ profile = {} \/ uploadDisabled \/ QueueIsFull
    /\ dropped' = dropped \cup profile
    /\ profile' = {}
    /\ lock' = NoOwner
    /\ Goes(c, AfterExport(c))
    /\ UNCHANGED <<taken, provider, batch, beforeStop, uploadDisabled, sinkVars, sent, skipped, lost>>

Accepted(c) ==
    /\ At(c, "offer")
    /\ profile # {} /\ ~uploadDisabled /\ ~QueueIsFull
    /\ Goes(c, "push")
    /\ UNCHANGED <<taken, provider, lock, batch, profile, beforeStop, uploadDisabled, sinkVars, fates>>

(***************************************************************************)
(* LockingQueue::push.  The waiter tests the queue and begins to wait in   *)
(* one critical section, so that push and its notify_one can be one step:  *)
(* a notification that comes late is a spurious one.                       *)
(***************************************************************************)
PushSilently(r) ==
    /\ queue' = Append(queue, r)
    /\ UNCHANGED uploader

Push(r) ==
    /\ queue' = Append(queue, r)
    /\ uploader' = IF uploader = "waiting" THEN "pop" ELSE uploader

Export(c) ==
    /\ At(c, "push")
    /\ Push(profile)
    /\ profile' = {}
    /\ lock' = NoOwner
    /\ Goes(c, AfterExport(c))
    /\ UNCHANGED <<taken, provider, batch, beforeStop, uploadDisabled, request, running, fates>>

-----------------------------------------------------------------------------
(***************************************************************************)
(* StopImpl, and the sink's destructor.                                    *)
(***************************************************************************)
StopBegins ==
    /\ At("stopper", "idle")
    /\ beforeStop' = 1..taken
    /\ Goes("stopper", "joinWorker")
    /\ UNCHANGED <<taken, provider, lock, batch, profile, uploadDisabled, sinkVars, fates>>

WorkerJoined ==
    /\ At("stopper", "joinWorker")
    /\ At("worker", "ended")
    /\ Goes("stopper", "joinExporter")
    /\ UNCHANGED <<taken, provider, lock, batch, profile, beforeStop, uploadDisabled, sinkVars, fates>>

ExporterJoinedExports ==
    /\ At("stopper", "joinExporter")
    /\ At("exporter", "ended")
    /\ Goes("stopper", "export")
    /\ UNCHANGED <<taken, provider, lock, batch, profile, beforeStop, uploadDisabled, sinkVars, fates>>

\* From here StopImpl collects and exports the leftover samples itself.
ExporterJoined ==
    /\ At("stopper", "joinExporter")
    /\ At("exporter", "ended")
    /\ Goes("stopper", "collect")
    /\ UNCHANGED <<taken, provider, lock, batch, profile, beforeStop, uploadDisabled, sinkVars, fates>>

DestructorBegins ==
    /\ At("stopper", "stopped")
    /\ running' = FALSE
    /\ Goes("stopper", "wake")
    /\ UNCHANGED <<taken, provider, lock, batch, profile, beforeStop, uploadDisabled,
                   queue, request, uploader, fates>>

DestructorOnlyJoins ==
    /\ At("stopper", "wake")
    /\ Goes("stopper", "joinUploader")
    /\ UNCHANGED <<taken, provider, lock, batch, profile, beforeStop, uploadDisabled, sinkVars, fates>>

\* An empty request, for an uploader that waits.
DestructorWakes ==
    /\ At("stopper", "wake")
    /\ Push({})
    /\ Goes("stopper", "joinUploader")
    /\ UNCHANGED <<taken, provider, lock, batch, profile, beforeStop, uploadDisabled, request, running, fates>>

UploaderJoined ==
    /\ At("stopper", "joinUploader")
    /\ uploader = "ended"
    /\ Goes("stopper", "ended")
    /\ UNCHANGED <<taken, provider, lock, batch, profile, beforeStop, uploadDisabled, sinkVars, fates>>

-----------------------------------------------------------------------------
(***************************************************************************)
(* PyroscopePprofSink::work.                                               *)
(***************************************************************************)
WorkTests ==
    /\ uploader = "loop"
    /\ uploader' = IF running THEN "pop" ELSE "ended"
    /\ UNCHANGED <<taken, collectVars, beforeStop, uploadDisabled, queue, request, running, fates>>

Wait ==
    /\ uploader = "pop"
    /\ queue = <<>>
    /\ uploader' = "waiting"
    /\ UNCHANGED <<taken, collectVars, beforeStop, uploadDisabled, queue, request, running, fates>>

SpuriousWakeup ==
    /\ uploader = "waiting"
    /\ uploader' = "pop"
    /\ UNCHANGED <<taken, collectVars, beforeStop, uploadDisabled, queue, request, running, fates>>

Pop ==
    /\ uploader = "pop"
    /\ queue # <<>>
    /\ request' = Head(queue)
    /\ queue' = Tail(queue)
    /\ uploader' = "upload"
    /\ UNCHANGED <<taken, collectVars, beforeStop, uploadDisabled, running, fates>>

\* The server's answer, or an error: either way there is no second attempt.
Upload ==
    /\ uploader = "upload"
    /\ \/ sent' = sent \cup request /\ UNCHANGED lost
       \/ lost' = lost \cup request /\ UNCHANGED sent
    /\ request' = {}
    /\ uploader' = "loop"
    /\ UNCHANGED <<taken, collectVars, beforeStop, uploadDisabled, queue, running, skipped, dropped>>

-----------------------------------------------------------------------------
CollectorStep(c) ==
    \/ CollectBegins(c) \/ AddToProfile(c) \/ CollectThrows(c) \/ CollectEnds(c)
    \/ ExportBegins(c) \/ ProcessSamples(c) \/ Refused(c) \/ Accepted(c) \/ Export(c)

ThreadStep(c) == TimesOut(c) \/ Leaves(c)

StopperStep ==
    WorkerJoined \/ ExporterJoined \/ DestructorWakes \/ UploaderJoined

UploaderStep == WorkTests \/ Wait \/ Pop \/ Upload

\* The profiler is gone: not a deadlock.
Over == At("stopper", "ended") /\ UNCHANGED vars

Next ==
    \/ \E p \in Providers : Add(p)
    \/ \E c \in Collectors : CollectorStep(c)
    \/ \E c \in {"worker", "exporter"} : ThreadStep(c)
    \/ StopBegins \/ DestructorBegins \/ StopperStep
    \/ UploaderStep \/ SpuriousWakeup
    \/ Over

Spec == Init /\ [][Next]_vars

(***************************************************************************)
(* Every thread runs, a wait for the lock ends because its owners sleep    *)
(* between two uses of it, and an upload ends by its 10 s timeouts.        *)
(* Nothing makes a sample be taken, the profiler stop or a wait end early. *)
(***************************************************************************)
FairSpec ==
    /\ Spec
    /\ \A c \in {"worker", "exporter"} : WF_vars(CollectorStep(c) \/ ThreadStep(c))
    /\ SF_vars(CollectBegins("worker"))
    /\ SF_vars(ExportBegins("exporter"))
    /\ WF_vars(CollectorStep("stopper") \/ StopperStep)
    /\ WF_vars(UploaderStep)

-----------------------------------------------------------------------------
Working == {"collect", "adding", "export", "addingBatched", "offer", "push"}

\* The type of each variable; a thread of the collector is only where the code
\* it runs can be: the worker never exports, the exporter leaves the regular
\* providers to it.
TypeOK ==
    /\ taken \in 0..MaxSamples
    /\ provider \in [Providers -> SUBSET Samples]
    /\ lock \in Collectors \cup {NoOwner}
    /\ batch \in [Collectors -> SUBSET Samples]
    /\ DOMAIN pc = Collectors
    /\ pc["worker"] \in {"sleep", "collect", "adding", "ended"}
    /\ pc["exporter"] \in {"sleep", "export", "addingBatched", "offer", "push", "ended"}
    /\ pc["stopper"] \in Working \cup {"idle", "joinWorker", "joinExporter", "stopped",
                                       "wake", "joinUploader", "ended"}
    /\ profile \subseteq Samples
    /\ beforeStop \subseteq Samples
    /\ uploadDisabled \in BOOLEAN
    /\ queue \in Seq(SUBSET Samples)
    /\ request \subseteq Samples
    /\ uploader \in {"loop", "pop", "waiting", "upload", "ended"}
    /\ running \in BOOLEAN
    /\ sent \subseteq Samples /\ skipped \subseteq Samples
    /\ dropped \subseteq Samples /\ lost \subseteq Samples

\* Where sample n is.
Places(n) ==
    {<<"provider", p>> : p \in {q \in Providers : n \in provider[q]}}
    \cup {<<"batch", c>> : c \in {d \in Collectors : n \in batch[d]}}
    \cup {<<"queue", i>> : i \in {j \in DOMAIN queue : n \in queue[j]}}
    \cup {<<name, 0>> : name \in
            {x \in {"profile", "request", "sent", "skipped", "dropped", "lost"} :
                n \in CASE x = "profile" -> profile [] x = "request" -> request
                        [] x = "sent" -> sent       [] x = "skipped" -> skipped
                        [] x = "dropped" -> dropped [] x = "lost" -> lost}}

\* Between the samplers, the two threads of the collector, Stop and the
\* uploader, no sample is counted twice and none disappears unaccounted for:
\* each one taken is in exactly one place.
EachSampleOnce ==
    /\ \A n \in 1..taken : Cardinality(Places(n)) = 1
    /\ \A n \in Samples \ (1..taken) : Places(n) = {}

\* _cachedSample is refilled by every MoveNext of every collector: it and the
\* profile builders are in use by one thread at a time (SamplesCollector.h
\* gives the worker and Stop as its users; the exporter thread is a third).
OneCollectorAtATime ==
    Cardinality({c \in Collectors : Adding(c) \/ pc[c] \in {"offer", "push"}}) <= 1

\* "Export the leftover samples": once StopImpl returned, no sample taken before
\* it was called is left in a provider, an enumerator or the builders.
NothingLeftBehind ==
    pc["stopper"] \in {"stopped", "wake", "joinUploader", "ended"} =>
        beforeStop \cap (UNION {provider[p] : p \in Providers}
                         \cup UNION {batch[c] : c \in Collectors} \cup profile) = {}

\* StopImpl and then the sink's destructor return: both threads of the collector
\* see their promise, neither is joined while it waits for something only the
\* stopping thread can give, and the uploader leaves whatever it was doing.
ShutdownReturns ==
    /\ At("stopper", "joinWorker") ~> At("stopper", "stopped")
    /\ ~running ~> At("stopper", "ended")

\* As long as the sink lives, a sample taken before Stop does not stay on its
\* way: it is uploaded, or it is skipped, dropped or lost.
SampleGetsThrough ==
    \A n \in Samples :
        (n <= taken) ~> \/ n \in sent \cup skipped \cup dropped \cup lost
                        \/ ~running
                        \/ ~At("stopper", "idle") /\ n \notin beforeStop
=============================================================================
