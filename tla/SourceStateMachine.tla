------------------------- MODULE SourceStateMachine -------------------------
(***************************************************************************)
(* Capturing with the DirectShow backend: SourceStateMachine.cpp and the   *)
(* start, stop and destruction of its DirectShowSource, composed with the  *)
(* shared source context (SourceContext).  Four threads meet here:         *)
(*   the application's, which sends the source thread commands by events   *)
(*     and polls flags for their effect;                                   *)
(*   the source thread (waitForCmd), which runs and stops the filter graph *)
(*     and reports errors;                                                 *)
(*   the sample grabber's, which delivers frames (bufferCB);               *)
(*   the graph monitor's, which asks for a cancel when the device is lost. *)
(*                                                                         *)
(* The filter graph is external.  It may refuse to run and may refuse to   *)
(* stop, and then delivers on; a stop that succeeds waits for the delivery *)
(* in progress.  SetEvent and ResetEvent do not fail.                      *)
(***************************************************************************)
EXTENDS SourceContext

CONSTANTS
  MaxWindows,  \* bound: sliding windows ever allocated at one time
  MaxLosses    \* bound: times the device is lost while its source is acquired

ASSUME SourceStateMachineAssumption == MaxWindows \in Nat /\ MaxLosses \in Nat

VARIABLES
  dpc,                  \* application thread inside start, stop and the destructor
  spc,                  \* source thread: control point of waitForCmd
  bpc,                  \* sample grabber's thread: control point of bufferCB
  events,               \* the manual-reset events that are signaled
  okToSendStart_, okToSendStop_,
  allowCallbacks_, callbackInProgress_,
  captureStopped_,
  graph,                \* the filter graph: "stopped", "running", "stopping",
                        \* or "stranded", running on after a stop it refused
  losses,               \* times the device has been lost
  told                  \* history: this capture has reported an error to its client

machineVars == <<dpc, spc, bpc, events, okToSendStart_, okToSendStop_, allowCallbacks_,
                 callbackInProgress_, captureStopped_, graph, losses, told>>
vars == <<srcVars, machineVars>>

\* In the order of the handles passed to WaitForMultipleObjects.
Commands == <<"cancel", "start", "stop", "terminate">>

SourcePC == {"none", "wait", "start", "allow", "start_failed", "notify", "notifying",
             "stop", "stop_graph", "stop_wait", "stop_done",
             "cancel", "cancel_disallow", "cancel_wait", "cancel_graph", "terminate", "teardown", "exited"}

Init ==
  /\ SrcInit
  /\ dpc = "enter" /\ spc = "none" /\ bpc = "idle"
  /\ events = {}
  /\ okToSendStart_ = TRUE /\ okToSendStop_ = TRUE
  /\ allowCallbacks_ = FALSE /\ callbackInProgress_ = FALSE
  /\ captureStopped_ = TRUE
  /\ graph = "stopped" /\ losses = 0 /\ told = FALSE

SetEvent(e) == events' = events \cup {e}

-----------------------------------------------------------------------------
(* The application's thread.                                                *)

\* The constructor, within vidcap_src_acquire: it returns once the source
\* thread is ready for commands.
Construct ==
  /\ SrcAcquire
  /\ spc' = "wait" /\ events' = {}
  /\ okToSendStart_' = TRUE /\ okToSendStop_' = TRUE
  /\ allowCallbacks_' = FALSE /\ callbackInProgress_' = FALSE
  /\ captureStopped_' = TRUE
  /\ losses' = 0
  /\ UNCHANGED <<dpc, bpc, graph, told>>

\* start.  Its answer does not wait for the source thread.
Start ==
  /\ apc = "start_capture" /\ dpc = "enter"
  /\ IF okToSendStart_
       THEN okToSendStart_' = FALSE /\ dpc' = "signal" /\ UNCHANGED apc
       ELSE apc' = "start_failed" /\ UNCHANGED <<okToSendStart_, dpc>>
  /\ UNCHANGED <<ctxVars, client, notifyVars, spc, bpc, events, okToSendStop_, allowCallbacks_,
                 callbackInProgress_, captureStopped_, graph, losses, told>>

StartSignal ==
  /\ apc = "start_capture" /\ dpc = "signal"
  /\ SetEvent("start")
  /\ dpc' = "enter" /\ apc' = "started"
  /\ UNCHANGED <<ctxVars, client, notifyVars, spc, bpc, okToSendStart_, okToSendStop_,
                 allowCallbacks_, callbackInProgress_, captureStopped_, graph, losses, told>>

\* stop, lines 391-396.
Stop ==
  /\ apc = "stop_capture" /\ dpc = "enter"
  /\ okToSendStop_
  /\ okToSendStop_' = FALSE /\ captureStopped_' = FALSE
  /\ dpc' = "signal"
  /\ UNCHANGED <<srcVars, spc, bpc, events, okToSendStart_, allowCallbacks_,
                 callbackInProgress_, graph, losses, told>>

StopSignal ==
  /\ apc = "stop_capture" /\ dpc = "signal"
  /\ SetEvent("stop")
  /\ dpc' = "await"
  /\ UNCHANGED <<srcVars, spc, bpc, okToSendStart_, okToSendStop_, allowCallbacks_,
                 callbackInProgress_, captureStopped_, graph, losses, told>>

StopAwait ==
  /\ apc = "stop_capture" /\ dpc = "await"
  /\ captureStopped_
  /\ dpc' = "enter" /\ apc' = "stopped"
  /\ UNCHANGED <<ctxVars, client, notifyVars, spc, bpc, events, okToSendStart_, okToSendStop_,
                 allowCallbacks_, callbackInProgress_, captureStopped_, graph, losses, told>>

\* The destructor, within vidcap_src_release.
DestroySignal ==
  /\ apc = "release" /\ dpc = "enter"
  /\ SetEvent("terminate")
  /\ dpc' = "await"
  /\ UNCHANGED <<srcVars, spc, bpc, okToSendStart_, okToSendStop_, allowCallbacks_,
                 callbackInProgress_, captureStopped_, graph, losses, told>>

DestroyAwait ==
  /\ apc = "release" /\ dpc = "await"
  /\ spc = "exited"
  /\ spc' = "none" /\ dpc' = "enter" /\ apc' = "released"
  /\ UNCHANGED <<ctxVars, client, notifyVars, bpc, events, okToSendStart_, okToSendStop_,
                 allowCallbacks_, callbackInProgress_, captureStopped_, graph, losses, told>>

-----------------------------------------------------------------------------
(* The source thread.                                                       *)

\* WaitForMultipleObjects returns the lowest index of those signaled.
Taken(e) ==
  /\ e \in events
  /\ \A i, j \in DOMAIN Commands : Commands[j] = e /\ i < j => Commands[i] \notin events

TakeTerminate ==
  /\ spc = "wait" /\ Taken("terminate")
  /\ spc' = "terminate"
  /\ UNCHANGED <<srcVars, dpc, bpc, events, okToSendStart_, okToSendStop_, allowCallbacks_,
                 callbackInProgress_, captureStopped_, graph, losses, told>>

TakeCancel ==
  /\ spc = "wait" /\ Taken("cancel")
  /\ events' = events \ {"cancel"}
  /\ okToSendStart_' = TRUE
  /\ spc' = "cancel"
  /\ UNCHANGED <<srcVars, dpc, bpc, okToSendStop_, allowCallbacks_, callbackInProgress_,
                 captureStopped_, graph, losses, told>>

TakeStart ==
  /\ spc = "wait" /\ Taken("start")
  /\ events' = events \ {"start"}
  /\ okToSendStop_' = TRUE
  /\ spc' = "start"
  /\ UNCHANGED <<srcVars, dpc, bpc, okToSendStart_, allowCallbacks_, callbackInProgress_,
                 captureStopped_, graph, losses, told>>

TakeStop ==
  /\ spc = "wait" /\ Taken("stop")
  /\ events' = events \ {"stop"}
  /\ okToSendStart_' = TRUE
  /\ spc' = "stop"
  /\ UNCHANGED <<srcVars, dpc, bpc, okToSendStop_, allowCallbacks_, callbackInProgress_,
                 captureStopped_, graph, losses, told>>

\* doStart: the graph is set up and run, or fails to.
DoStart ==
  /\ spc = "start"
  /\ \/ graph' = "running" /\ spc' = "allow"
     \/ spc' = "start_failed" /\ UNCHANGED graph
  /\ UNCHANGED <<srcVars, dpc, bpc, events, okToSendStart_, okToSendStop_, allowCallbacks_,
                 callbackInProgress_, captureStopped_, losses, told>>

DoStartAllow ==
  /\ spc = "allow"
  /\ allowCallbacks_' = TRUE
  /\ spc' = "wait"
  /\ UNCHANGED <<srcVars, dpc, bpc, events, okToSendStart_, okToSendStop_,
                 callbackInProgress_, captureStopped_, graph, losses, told>>

DoStartFailed ==
  /\ spc = "start_failed"
  /\ allowCallbacks_' = FALSE /\ okToSendStart_' = TRUE
  /\ spc' = "notify"
  /\ UNCHANGED <<srcVars, dpc, bpc, events, okToSendStop_, callbackInProgress_,
                 captureStopped_, graph, losses, told>>

Delivering == graph \in {"running", "stranded"}

\* DirectShowSource::stop: nothing to do for a graph that is not set up, and no
\* report when the graph refuses.
GraphStop(from, to) ==
  /\ spc = from
  /\ \/ graph = "stopped" /\ spc' = to /\ UNCHANGED graph
     \/ Delivering /\ graph' = "stopping" /\ UNCHANGED spc
     \/ Delivering /\ graph' = "stranded" /\ spc' = to
     \/ graph = "stopping" /\ bpc = "idle" /\ graph' = "stopped" /\ spc' = to
  /\ UNCHANGED <<srcVars, dpc, bpc, events, okToSendStart_, okToSendStop_, allowCallbacks_,
                 callbackInProgress_, captureStopped_, losses, told>>

DoStop ==
  /\ spc = "stop"
  /\ allowCallbacks_' = FALSE
  /\ spc' = "stop_graph"
  /\ UNCHANGED <<srcVars, dpc, bpc, events, okToSendStart_, okToSendStop_,
                 callbackInProgress_, captureStopped_, graph, losses, told>>

\* Altered form, for ContractSpec and FrameNotifyKeepsContext: no wait for a
\* callback in progress.
DoStopWait_skipped ==
  /\ spc = "stop_wait"
  /\ spc' = "stop_done"
  /\ UNCHANGED <<srcVars, dpc, bpc, events, okToSendStart_, okToSendStop_, allowCallbacks_,
                 callbackInProgress_, captureStopped_, graph, losses, told>>

DoStopWait ==
  /\ spc = "stop_wait" /\ ~callbackInProgress_
  /\ spc' = "stop_done"
  /\ UNCHANGED <<srcVars, dpc, bpc, events, okToSendStart_, okToSendStop_, allowCallbacks_,
                 callbackInProgress_, captureStopped_, graph, losses, told>>

\* Altered form, for CallsReturn: the application is not told.
DoStopDone_silent ==
  /\ spc = "stop_done"
  /\ spc' = "wait"
  /\ UNCHANGED <<srcVars, dpc, bpc, events, okToSendStart_, okToSendStop_, allowCallbacks_,
                 callbackInProgress_, captureStopped_, graph, losses, told>>

DoStopDone ==
  /\ spc = "stop_done"
  /\ captureStopped_' = TRUE
  /\ spc' = "wait"
  /\ UNCHANGED <<srcVars, dpc, bpc, events, okToSendStart_, okToSendStop_, allowCallbacks_,
                 callbackInProgress_, graph, losses, told>>

\* doCancelCapture.  Its own flag, callbackCancellationInProgress_, is read only
\* where SetEvent has failed.
DoCancel ==
  /\ spc = "cancel"
  /\ spc' = IF allowCallbacks_ THEN "cancel_disallow" ELSE "wait"
  /\ UNCHANGED <<srcVars, dpc, bpc, events, okToSendStart_, okToSendStop_, allowCallbacks_,
                 callbackInProgress_, captureStopped_, graph, losses, told>>

DoCancelDisallow ==
  /\ spc = "cancel_disallow"
  /\ allowCallbacks_' = FALSE
  /\ spc' = "cancel_wait"
  /\ UNCHANGED <<srcVars, dpc, bpc, events, okToSendStart_, okToSendStop_,
                 callbackInProgress_, captureStopped_, graph, losses, told>>

DoCancelWait ==
  /\ spc = "cancel_wait" /\ ~callbackInProgress_
  /\ spc' = "cancel_graph"
  /\ UNCHANGED <<srcVars, dpc, bpc, events, okToSendStart_, okToSendStop_, allowCallbacks_,
                 callbackInProgress_, captureStopped_, graph, losses, told>>

\* Altered form, for LossReported: the client is not notified.
NotifyError_silent ==
  /\ spc = "notify"
  /\ spc' = "wait"
  /\ UNCHANGED <<srcVars, dpc, bpc, events, okToSendStart_, okToSendStop_, allowCallbacks_,
                 callbackInProgress_, captureStopped_, graph, losses, told>>

\* The final capture callback, with an error status.
NotifyError ==
  /\ spc = "notify"
  /\ Notify(TRUE)
  /\ spc' = "notifying"
  /\ UNCHANGED <<dpc, bpc, events, okToSendStart_, okToSendStop_, allowCallbacks_,
                 callbackInProgress_, captureStopped_, graph, losses, told>>

NotifyErrorReturns ==
  /\ spc = "notifying"
  /\ NotifyReturns
  /\ spc' = "wait"
  /\ UNCHANGED <<dpc, bpc, events, okToSendStart_, okToSendStop_, allowCallbacks_,
                 callbackInProgress_, captureStopped_, graph, losses, told>>

\* terminate deletes the DirectShowSource: the monitor's thread is joined and
\* the graph stopped and torn down, which ends streaming even where a stop was
\* refused and waits for the delivery in progress; the thread then returns.
TerminateGraph ==
  /\ spc = "terminate"
  /\ graph' = "stopping"
  /\ spc' = "teardown"
  /\ UNCHANGED <<srcVars, dpc, bpc, events, okToSendStart_, okToSendStop_, allowCallbacks_,
                 callbackInProgress_, captureStopped_, losses, told>>

Terminate ==
  /\ spc = "teardown" /\ bpc = "idle"
  /\ graph' = "stopped"
  /\ spc' = "exited"
  /\ UNCHANGED <<srcVars, dpc, bpc, events, okToSendStart_, okToSendStop_, allowCallbacks_,
                 callbackInProgress_, captureStopped_, losses, told>>

-----------------------------------------------------------------------------
(* The sample grabber's thread and the graph monitor's.                     *)

\* DirectShowSource::BufferCB, lines 1026-1040: a sample of another size than
\* the one bound is scaled into buffer_, which the bind replaces with the rest
\* of fmt.  Nothing announces it.
Sample ==
  /\ bpc = "idle" /\ Delivering
  /\ bpc' = "scale"
  /\ UNCHANGED <<srcVars, dpc, spc, events, okToSendStart_, okToSendStop_, allowCallbacks_,
                 callbackInProgress_, captureStopped_, graph, losses, told>>

\* Altered form, for OneNotifier: the flag is not raised before allowCallbacks_
\* is read.
BufferCB_unannounced ==
  /\ bpc = "scale"
  /\ bpc' = "check"
  /\ UNCHANGED <<srcVars, dpc, spc, events, okToSendStart_, okToSendStop_, allowCallbacks_,
                 callbackInProgress_, captureStopped_, graph, losses, told>>

BufferCB ==
  /\ bpc = "scale"
  /\ callbackInProgress_' = TRUE
  /\ bpc' = "check"
  /\ UNCHANGED <<srcVars, dpc, spc, events, okToSendStart_, okToSendStop_, allowCallbacks_,
                 captureStopped_, graph, losses, told>>

BufferRefused ==
  /\ bpc = "check" /\ ~allowCallbacks_
  /\ callbackInProgress_' = FALSE
  /\ bpc' = "idle"
  /\ UNCHANGED <<srcVars, dpc, spc, events, okToSendStart_, okToSendStop_, allowCallbacks_,
                 captureStopped_, graph, losses, told>>

BufferAllowed ==
  /\ bpc = "check" /\ allowCallbacks_
  /\ bpc' = "notify"
  /\ UNCHANGED <<srcVars, dpc, spc, events, okToSendStart_, okToSendStop_, allowCallbacks_,
                 callbackInProgress_, captureStopped_, graph, losses, told>>

BufferNotify ==
  /\ bpc = "notify"
  /\ Notify(FALSE)
  /\ bpc' = "notifying"
  /\ UNCHANGED <<dpc, spc, events, okToSendStart_, okToSendStop_, allowCallbacks_,
                 callbackInProgress_, captureStopped_, graph, losses, told>>

BufferDone ==
  /\ bpc = "notifying"
  /\ NotifyReturns
  /\ callbackInProgress_' = FALSE
  /\ bpc' = "idle"
  /\ UNCHANGED <<dpc, spc, events, okToSendStart_, okToSendStop_, allowCallbacks_,
                 captureStopped_, graph, losses, told>>

\* processGraphEvent on EC_DEVICE_LOST, through cancelCapture.
DeviceLost ==
  /\ spc \notin {"none", "terminate", "teardown", "exited"}
  /\ losses < MaxLosses /\ losses' = losses + 1
  /\ SetEvent("cancel")
  /\ UNCHANGED <<srcVars, dpc, spc, bpc, okToSendStart_, okToSendStop_, allowCallbacks_,
                 callbackInProgress_, captureStopped_, graph, told>>

-----------------------------------------------------------------------------
\* A new capture starts with a client that has been told nothing.
Capture(c) == CaptureStart(c) /\ windows < MaxWindows /\ told' = FALSE

ApiBegins ==
  \/ Construct
  \/ (FormatBind \/ CaptureStop \/ SrcRelease) /\ UNCHANGED machineVars
  \/ \E c \in Clients : /\ Capture(c)
                        /\ UNCHANGED <<dpc, spc, bpc, events, okToSendStart_, okToSendStop_,
                             allowCallbacks_, callbackInProgress_, captureStopped_, graph, losses>>

AppStep ==
  \/ ApiStep /\ UNCHANGED machineVars
  \/ Start \/ StartSignal \/ Stop \/ StopSignal \/ StopAwait \/ DestroySignal \/ DestroyAwait

Poll == DoStopWait \/ DoCancelWait

SourceThread ==
  \/ TakeTerminate \/ TakeCancel \/ TakeStart \/ TakeStop
  \/ DoStart \/ DoStartAllow \/ DoStartFailed
  \/ DoStop \/ GraphStop("stop_graph", "stop_wait") \/ DoStopDone
  \/ DoCancel \/ DoCancelDisallow \/ GraphStop("cancel_graph", "notify")
  \/ NotifyError \/ NotifyErrorReturns \/ TerminateGraph \/ Terminate

\* Within sapi_src_capture_notify, in whichever thread has called it.
NotifyStep ==
  \/ FrameStep /\ told' = (told \/ (npc = "callback" /\ error_status))
       /\ UNCHANGED <<dpc, spc, bpc, events, okToSendStart_, okToSendStop_, allowCallbacks_,
                      callbackInProgress_, captureStopped_, graph, losses>>
  \/ ErrorStep /\ UNCHANGED machineVars

GrabberStep == BufferCB \/ BufferRefused \/ BufferAllowed \/ BufferNotify \/ BufferDone

Next ==
  \/ ApiBegins \/ AppStep
  \/ SourceThread \/ Poll
  \/ NotifyStep
  \/ Sample \/ GrabberStep
  \/ DeviceLost

Spec == Init /\ [][Next]_vars

(* Calls that have begun run on and every thread is scheduled.  The loops   *)
(* that poll callbackInProgress_ every 10 ms find it clear at last even     *)
(* when a graph that did not stop goes on delivering frames: a delivery     *)
(* that is refused takes no time beside the pause between two frames.       *)
Fairness ==
  /\ WF_vars(AppStep) /\ WF_vars(SourceThread) /\ SF_vars(DoStopWait) /\ SF_vars(DoCancelWait)
  /\ WF_vars(NotifyStep) /\ WF_vars(GrabberStep)

FairSpec == Spec /\ Fairness

-----------------------------------------------------------------------------
TypeOK ==
  /\ SrcTypeOK
  /\ dpc \in {"enter", "signal", "await"} /\ spc \in SourcePC
  /\ bpc \in {"idle", "scale", "check", "notify", "notifying"}
  /\ events \subseteq {"cancel", "start", "stop", "terminate"}
  /\ {okToSendStart_, okToSendStop_, allowCallbacks_, callbackInProgress_, captureStopped_, told}
       \subseteq BOOLEAN
  /\ graph \in {"stopped", "running", "stopping", "stranded"} /\ losses \in Nat
  /\ windows <= MaxWindows /\ losses <= MaxLosses

\* The sample grabber's thread and the source thread are never both about to
\* notify or notifying, though only two plain flags keep them apart: one raises
\* its flag before it looks at the other's, the other the reverse.
OneNotifier ==
  ~(bpc \in {"notify", "notifying"} /\ spc \in {"notify", "notifying"})

\* Only a graph that refused to stop delivers into buffers that a bind replaces:
\* in every other state the application's thread leaves alone what a frame is
\* scaled into and what its delivery works with.
DeliveryKeepsContext ==
  /\ FrameNotifyKeepsContext
  /\ [][bpc = "scale" /\ graph # "stranded" => UNCHANGED fmt]_vars

\* A capture whose registration stands and whose device is lost while frames are
\* called back is reported: the client itself is called, with an error status
\* (SourceStateMachine.cpp:503), unless the application stops the capture first.
\* No other end excuses the report; a capture that an earlier error has left
\* without a registration (sapi.c:390) has nobody to report to.
LossReported ==
  (/\ allowCallbacks_ /\ "cancel" \in events
   /\ capture_callback # None /\ capture_data # None)
    ~> (told \/ apc = "stop_capture")

\* Every call the application makes returns: a start, a stop that waits for the
\* source thread and for callbacks, a release that waits for the thread's end.
CallsReturn == (apc # "idle") ~> (apc = "idle")

\* DirectShow keeps the contract with the application: after a stop has returned
\* no callback happens (SourceStateMachine.cpp:384-387, 413-414).
ContractSpec == Contract!Spec
=============================================================================
