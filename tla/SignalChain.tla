----------------------------- MODULE SignalChain -----------------------------
(***************************************************************************)
(* One thread receiving the profiler's signal while handlers are installed *)
(* and restored around it: the profiler's handler forwards what it does    *)
(* not take to the action it replaced, and the application's handler may   *)
(* in turn call the one it replaced, so that the two can call each other.  *)
(*                                                                         *)
(* calls is the thread's stack of running handlers.  A profiler frame that *)
(* is inside CallOrignalHandler is "forwarding".                           *)
(***************************************************************************)
EXTENDS SignalManager, Sequences, Naturals

CONSTANT MaxCollectors   \* bound on the collectors that are constructed

ASSUME SignalChainAssumption == MaxCollectors \in Nat

VARIABLES
    collectors,    \* how many have been constructed
    appInstalled,  \* the application has installed a handler
    appPrevious,   \* the action the application's handler replaced
    calls,         \* the handlers running on the thread, innermost last
    isExecuting,   \* the thread-local flag of CallOrignalHandler
    taken,         \* the profiler took the signal for a sample
    appRan,        \* the application's handler ran for the signal
    owed           \* the application had a handler when the signal came

deliveryVars == <<calls, isExecuting, taken, appRan, owed>>
installVars == <<sigVars, collectors, appInstalled, appPrevious>>

chainVars == <<installVars, deliveryVars>>

ChainInit ==
    /\ SigInit
    /\ collectors = 0
    /\ appInstalled = (disposition = "app")
    /\ appPrevious = "default"
    /\ calls = <<>>
    /\ isExecuting = FALSE
    /\ taken = FALSE
    /\ appRan = FALSE
    /\ owed = FALSE

(***************************************************************************)
(* The process: collectors, sampling timeouts and the application.         *)
(***************************************************************************)
CollectorIsCreated ==
    /\ collectors < MaxCollectors
    /\ collectors' = collectors + 1
    /\ RegisterHandler
    /\ UNCHANGED <<appInstalled, appPrevious, deliveryVars>>

\* A collection is only started, and so only times out, when in place.
SamplingTimeout ==
    /\ isHandlerInPlace
    /\ CheckStillInstalled \/ CheckRestores \/ CheckFails
    /\ UNCHANGED <<collectors, appInstalled, appPrevious, deliveryVars>>

AppRegistersHandler ==
    /\ AppInstalls
    /\ appInstalled' = TRUE
    /\ appPrevious' = disposition
    /\ UNCHANGED <<collectors, deliveryVars>>

(***************************************************************************)
(* The thread.                                                             *)
(***************************************************************************)
Last(s) == s[Len(s)]
Front(s) == SubSeq(s, 1, Len(s) - 1)

Top == Last(calls)

SignalArrives ==
    /\ calls = <<>>
    /\ disposition \in {"profiler", "app"}
    /\ calls' = <<disposition>>
    /\ taken' = FALSE
    /\ appRan' = FALSE
    /\ owed' = appInstalled
    /\ UNCHANGED <<installVars, isExecuting>>

\* CallCustomHandler returned true.
CustomHandlerTakes ==
    /\ calls # <<>>
    /\ Top = "profiler"
    /\ taken' = TRUE
    /\ calls' = Front(calls)
    /\ UNCHANGED <<installVars, isExecuting, appRan, owed>>

CallOrignalHandlerUnguarded ==
    /\ calls # <<>>
    /\ Top = "profiler"
    /\ IF previousAction \in {"profiler", "app"}
       THEN calls' = Front(calls) \o <<previousAction>>
       ELSE calls' = Front(calls)
    /\ UNCHANGED <<installVars, isExecuting, taken, appRan, owed>>

\* CallCustomHandler returned false.  Forwards to the replaced action, unless
\* this thread is already forwarding or there is no handler to call.
CallOrignalHandler ==
    /\ calls # <<>>
    /\ Top = "profiler"
    /\ IF ~isExecuting /\ previousAction \in {"profiler", "app"}
       THEN /\ calls' = Front(calls) \o <<"forwarding", previousAction>>
            /\ isExecuting' = TRUE
       ELSE /\ calls' = Front(calls)
            /\ UNCHANGED isExecuting
    /\ UNCHANGED <<installVars, taken, appRan, owed>>

OrignalHandlerReturns ==
    /\ calls # <<>>
    /\ Top = "forwarding"
    /\ isExecuting' = FALSE
    /\ calls' = Front(calls)
    /\ UNCHANGED <<installVars, taken, appRan, owed>>

\* The application's handler does its work and may call the one it replaced.
AppHandler ==
    /\ calls # <<>>
    /\ Top = "app"
    /\ appRan' = TRUE
    /\ \/ calls' = Front(calls)
       \/ /\ appPrevious = "profiler"
          /\ calls' = Front(calls) \o <<"profiler">>
    /\ UNCHANGED <<installVars, isExecuting, taken, owed>>

Thread == CustomHandlerTakes \/ CallOrignalHandler \/ OrignalHandlerReturns \/ AppHandler

ChainNext == CollectorIsCreated \/ SamplingTimeout \/ AppRegistersHandler \/ SignalArrives \/ Thread

ChainSpec == ChainInit /\ [][ChainNext]_chainVars

\* A handler runs to its end.
FairChainSpec == ChainSpec /\ WF_chainVars(Thread)

-----------------------------------------------------------------------------
(***************************************************************************)
(* Properties.                                                             *)
(***************************************************************************)
\* The variables have their types.
ChainTypeOK ==
    /\ SigTypeOK
    /\ collectors \in 0 .. MaxCollectors
    /\ appInstalled \in BOOLEAN
    /\ appPrevious \in Actions
    /\ calls \in Seq({"profiler", "forwarding", "app"})
    /\ isExecuting \in BOOLEAN
    /\ taken \in BOOLEAN
    /\ appRan \in BOOLEAN
    /\ owed \in BOOLEAN

\* However the two handlers refer to each other, a signal ends: the thread
\* gets out of its handlers.
DeliveryEnds == calls # <<>> ~> calls = <<>>

\* With a single collector, a signal the profiler did not take reaches the
\* application's handler (ProfilerSignalManager.cpp:219-251).
AppGetsItsSignals == calls = <<>> /\ owed /\ collectors <= 1 => taken \/ appRan

-----------------------------------------------------------------------------
\* The stacks of handlers there can be: a thread forwards at most once.
Stacks == {<<>>, <<"profiler">>, <<"app">>, <<"forwarding">>,
           <<"forwarding", "profiler">>, <<"forwarding", "app">>}

\* With one collector, the profiler that replaced the application's handler
\* knows it.
KnowsApp ==
    /\ collectors = 0 => disposition # "profiler" /\ ~isHandlerInPlace
    /\ appInstalled => disposition \in {"app", "profiler"}
    /\ collectors <= 1 /\ appInstalled /\ disposition = "profiler" => previousAction = "app"

\* A signal that is still owed to the application is on its way there.
OnItsWay ==
    collectors <= 1 /\ owed /\ ~taken /\ ~appRan =>
        /\ appInstalled
        /\ \/ calls \in {<<"app">>, <<"forwarding", "app">>}
           \/ calls = <<"profiler">> /\ previousAction = "app"

\* The inductive invariant.
ChainInv ==
    /\ ChainTypeOK
    /\ calls \in Stacks
    /\ isExecuting <=> calls # <<>> /\ calls[1] = "forwarding"
    /\ KnowsApp
    /\ OnItsWay
=============================================================================
