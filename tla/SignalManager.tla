---------------------------- MODULE SignalManager ----------------------------
(***************************************************************************)
(* ProfilerSignalManager: who handles the signal the profiler samples with *)
(* (SIGUSR1).  The profiler installs its handler when a stack frames       *)
(* collector is constructed; the application may install its own over it;  *)
(* after a sampling timeout the profiler puts its handler back, once.      *)
(*                                                                         *)
(* An action of sigaction is "default", "ignore", "profiler"               *)
(* (ProfilerSignalManager::SignalHandler) or "app" (any other handler).    *)
(***************************************************************************)
CONSTANT SigactionMayFail   \* whether sigaction may return an error

ASSUME SignalManagerAssumption == SigactionMayFail \in BOOLEAN

VARIABLES
    disposition,              \* the process's current action for the signal
    previousAction,           \* _previousAction: whom the profiler forwards to
    isHandlerInPlace,         \* _isHandlerInPlace
    canReplaceSignalHandler   \* _canReplaceSignalHandler

sigVars == <<disposition, previousAction, isHandlerInPlace, canReplaceSignalHandler>>

Actions == {"default", "ignore", "profiler", "app"}

SigTypeOK ==
    /\ disposition \in Actions
    /\ previousAction \in Actions
    /\ isHandlerInPlace \in BOOLEAN
    /\ canReplaceSignalHandler \in BOOLEAN

\* The application may have installed a handler before the profiler started.
SigInit ==
    /\ disposition \in {"default", "ignore", "app"}
    /\ previousAction = "default"
    /\ isHandlerInPlace = FALSE
    /\ canReplaceSignalHandler = TRUE

IsProfilerSignalHandlerInstalled == disposition = "profiler"

SetupSignalHandlerKeepsOld ==
    /\ disposition' = "profiler"
    /\ UNCHANGED previousAction

\* The replaced action becomes the one to forward to, unless it is SIG_IGN.
SetupSignalHandler ==
    /\ disposition' = "profiler"
    /\ previousAction' = IF disposition = "ignore" THEN previousAction ELSE disposition

\* sigaction returned an error: nothing is installed.
SetupFails == SigactionMayFail /\ UNCHANGED <<disposition, previousAction>>

\* Called by the constructor of every collector; nothing to do when in place.
RegisterHandler ==
    /\ ~isHandlerInPlace
    /\ \/ SetupSignalHandler /\ isHandlerInPlace' = TRUE
       \/ SetupFails /\ isHandlerInPlace' = FALSE
    /\ UNCHANGED canReplaceSignalHandler

(***************************************************************************)
(* CheckSignalHandler, called after a sampling timeout, by its result.     *)
(***************************************************************************)
CheckStillInstalled ==
    /\ canReplaceSignalHandler
    /\ IsProfilerSignalHandlerInstalled
    /\ UNCHANGED sigVars

CheckRestores ==
    /\ canReplaceSignalHandler
    /\ ~IsProfilerSignalHandlerInstalled
    /\ SetupSignalHandler
    /\ isHandlerInPlace' = TRUE
    /\ canReplaceSignalHandler' = FALSE

CheckFails ==
    /\ \/ /\ ~canReplaceSignalHandler
          /\ UNCHANGED <<disposition, previousAction, canReplaceSignalHandler>>
       \/ /\ canReplaceSignalHandler
          /\ ~IsProfilerSignalHandlerInstalled
          /\ SetupFails
          /\ canReplaceSignalHandler' = FALSE
    /\ isHandlerInPlace' = FALSE

\* The application installs a handler of its own.
AppInstalls ==
    /\ disposition # "app"
    /\ disposition' = "app"
    /\ UNCHANGED <<previousAction, isHandlerInPlace, canReplaceSignalHandler>>
=============================================================================
