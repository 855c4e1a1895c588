----------------------- MODULE SourceStateMachineProofs ----------------------
(***************************************************************************)
(* Proofs about SourceStateMachine for every set of clients and formats    *)
(* and any number of losses of the device.                                 *)
(*                                                                         *)
(* Start answers before the graph runs and an error ends a capture from    *)
(* within, so the application's control point alone does not tell whether  *)
(* a capture goes on.  Going does, from the flags, the pending commands    *)
(* and the threads that may notify; while it holds the application's       *)
(* thread is outside the context (GoingInv).  It begins only with a start  *)
(* that is sent, and ends where allowCallbacks_ is FALSE and no callback   *)
(* is in progress, which FlagInv derives from the order in which the two   *)
(* threads write one flag and read the other.  EndInv and OrderInv say how *)
(* a capture ends and that its commands neither overtake one another nor   *)
(* get lost.                                                               *)
(***************************************************************************)
EXTENDS SourceStateMachine, SourceContextProofs, TLAPS

\* A capture has been asked for and has not ended: the context is the backend's.
Going ==
  \/ allowCallbacks_ \/ "start" \in events
  \/ spc \in {"start", "allow", "start_failed", "cancel_disallow", "cancel_wait", "cancel_graph",
              "notify"}
  \/ spc = "notifying" /\ npc \in {"take_callback", "take_data", "deliver", "callback", "set_bound"}
  \/ bpc \in {"notify", "notifying"}

\* Past the registration in vidcap_src_capture_start.
Registered == apc \in {"start_capture", "started", "start_failed"}

ApiInv ==
  /\ src_state = "src_capturing" => apc \in {"idle", "stop_capture", "stopped"}
  /\ apc \in {"stop_capture", "stopped"} => src_state \in {"src_capturing", "src_bound"}
  /\ Registered \/ apc \in {"register_callback", "register_data", "free_window",
                            "clear_window", "clear_callback", "clear_data"}
       => src_state = "src_bound"
  /\ apc \in {"release", "released"} => src_state \in {"src_acquired", "src_bound"}
  /\ frame_times = "dangling" => apc = "clear_window"
  /\ frame_times = "live" => windows # 0

\* The registration is the client's or lost to the error before it, and what a
\* notification has read of it stays true.
RegistrationInv ==
  /\ Going \/ Registered =>
       /\ client \in Clients
       /\ capture_callback \in {client, None} /\ capture_data \in {client, None}
  /\ apc \in {"register_callback", "register_data"} => client \in Clients
  /\ apc = "register_data" => capture_callback \in {client, None}
  /\ Going /\ npc \in {"take_data", "deliver", "callback"} => cap_callback = capture_callback
  /\ Going /\ npc \in {"deliver", "callback"} => cap_data = capture_data
  /\ npc = "callback" => cap_callback # None /\ cap_data # None

SrcInv == SrcTypeOK /\ ApiInv /\ RegistrationInv

MachineTypeOK ==
  /\ dpc \in {"enter", "signal", "await"} /\ spc \in SourcePC
  /\ bpc \in {"idle", "scale", "check", "notify", "notifying"}
  /\ events \subseteq {"cancel", "start", "stop", "terminate"}
  /\ okToSendStart_ \in BOOLEAN /\ okToSendStop_ \in BOOLEAN /\ allowCallbacks_ \in BOOLEAN
  /\ callbackInProgress_ \in BOOLEAN /\ captureStopped_ \in BOOLEAN /\ told \in BOOLEAN
  /\ graph \in {"stopped", "running", "stopping", "stranded"} /\ losses \in Nat
  /\ windows <= MaxWindows /\ losses <= MaxLosses

\* The exchange of the two flags.
FlagInv ==
  /\ callbackInProgress_ <=> bpc \notin {"idle", "scale"}
  /\ allowCallbacks_ => spc \in {"wait", "cancel", "cancel_disallow", "stop"}
  /\ bpc \in {"notify", "notifying"} =>
       spc \in {"wait", "cancel", "cancel_disallow", "cancel_wait", "stop", "stop_graph",
                "stop_wait"}
  /\ "start" \in events =>
       /\ ~allowCallbacks_ /\ bpc \in {"idle", "scale", "check"}
       /\ \/ spc \in {"wait", "cancel"}
          \/ spc = "notifying" /\ npc \in {"drop_callback", "drop_data", "done"}

NotifierInv ==
  /\ Notifying <=> spc = "notifying" \/ bpc = "notifying"
  /\ Notifying => (error_status <=> spc = "notifying")
  /\ npc \in {"set_bound", "drop_callback", "drop_data"} => error_status

\* Where the application's thread is while a capture goes on.
GoingInv ==
  Going => \/ apc = "started"
           \/ src_state = "src_capturing" /\ apc \in {"idle", "stop_capture"}

InStop == spc \in {"stop", "stop_graph", "stop_wait", "stop_done"}
Ending == spc \in {"terminate", "teardown", "exited"}

CommandInv ==
  /\ dpc = "signal" => apc \in {"start_capture", "stop_capture"}
  /\ dpc = "await" => apc \in {"stop_capture", "release"}
  /\ "stop" \in events \/ InStop => apc = "stop_capture" /\ dpc = "await" /\ ~captureStopped_
  /\ ~("stop" \in events /\ InStop)
  /\ apc = "stop_capture" /\ dpc = "signal" => ~captureStopped_
  /\ apc = "stop_capture" /\ dpc = "await" /\ captureStopped_ => ~Going

LifeInv ==
  /\ spc = "none" <=> src_state = "none" \/ apc = "released"
  /\ "terminate" \in events \/ Ending => (apc = "release" /\ dpc = "await") \/ spc = "none"
  /\ spc \in {"none", "exited"} => graph = "stopped" /\ bpc = "idle"

MachineInv ==
  SrcInv /\ MachineTypeOK /\ FlagInv /\ NotifierInv /\ GoingInv /\ CommandInv /\ LifeInv

-----------------------------------------------------------------------------
LEMMA InitMachine == Init => MachineInv
<1> SUFFICES ASSUME Init PROVE MachineInv
  OBVIOUS
<1>1. SrcInv
  BY DEF SrcInv, SrcTypeOK, ApiInv, RegistrationInv, Registered, Going, Init, SrcInit,
         SrcStates,
         ApiPC, NotifyPC
<1>2. MachineTypeOK
  <2>1. 0 <= MaxWindows /\ 0 <= MaxLosses
    BY SourceStateMachineAssumption
  <2> QED BY <2>1 DEF MachineTypeOK, Init, SrcInit, SourcePC
<1>3. FlagInv /\ NotifierInv /\ GoingInv /\ CommandInv /\ LifeInv
  BY DEF FlagInv, NotifierInv, Notifying, GoingInv, Going, CommandInv, InStop, LifeInv, Ending,
         Init, SrcInit
<1> QED BY <1>1, <1>2, <1>3 DEF MachineInv

\* A call that begins keeps the invariant.
LEMMA ApiBeginsKeepsInv ==
  ASSUME MachineInv, ApiBegins
  PROVE  MachineInv'
<1> USE DEF MachineInv, SrcInv, SrcTypeOK, ApiInv, RegistrationInv, Registered, Going,
            MachineTypeOK,
            FlagInv, NotifierInv, Notifying, GoingInv, CommandInv, InStop, LifeInv, Ending
<1>1. CASE Construct
  <2> USE <1>1 DEF Construct, SrcAcquire, ctxVars, apiVars, notifyVars, SrcStates, SourcePC
  <2>1. SrcInv'
    OBVIOUS
  <2>2. MachineTypeOK'
    <3>1. losses' \in Nat /\ losses' <= MaxLosses /\ windows' <= MaxWindows
      BY SourceStateMachineAssumption
    <3> QED BY <3>1
  <2>3. FlagInv' /\ NotifierInv'
    OBVIOUS
  <2>4. GoingInv' /\ CommandInv' /\ LifeInv'
    OBVIOUS
  <2> QED BY <2>1, <2>2, <2>3, <2>4
<1>2. CASE FormatBind /\ UNCHANGED machineVars
  BY <1>2 DEF FormatBind, machineVars, apiVars, notifyVars, SrcStates
<1>3. CASE CaptureStop /\ UNCHANGED machineVars
  BY <1>3 DEF CaptureStop, machineVars, ctxVars, notifyVars, ApiPC
<1>4. CASE SrcRelease /\ UNCHANGED machineVars
  BY <1>4 DEF SrcRelease, machineVars, ctxVars, notifyVars, ApiPC
<1>5. ASSUME NEW c \in Clients, Capture(c),
            UNCHANGED <<dpc, spc, bpc, events, okToSendStart_, okToSendStop_, allowCallbacks_,
                        callbackInProgress_, captureStopped_, graph, losses>>
     PROVE  MachineInv'
  <2> USE <1>5 DEF Capture, CaptureStart, notifyVars, ApiPC
  <2>1. SrcInv'
    OBVIOUS
  <2>2. MachineTypeOK'
    <3>1. windows' <= MaxWindows
      BY SourceStateMachineAssumption
    <3> QED BY <3>1
  <2>3. FlagInv' /\ NotifierInv'
    OBVIOUS
  <2>4. GoingInv' /\ CommandInv' /\ LifeInv'
    OBVIOUS
  <2> QED BY <2>1, <2>2, <2>3, <2>4
<1> QED BY <1>1, <1>2, <1>3, <1>4, <1>5 DEF ApiBegins

\* So does a step of a call under way ...
LEMMA ApiStepKeepsInv ==
  ASSUME MachineInv, ApiStep, UNCHANGED machineVars
  PROVE  MachineInv'
<1> USE SourceStateMachineAssumption, SourceContextAssumption
        DEF MachineInv, SrcInv, SrcTypeOK, ApiInv, RegistrationInv, Registered, Going,
            MachineTypeOK,
            FlagInv, NotifierInv, Notifying, GoingInv, CommandInv, InStop, LifeInv, Ending
<1>1. CASE RegisterCallback
  BY <1>1 DEF RegisterCallback, machineVars, notifyVars, SrcStates, ApiPC
<1>2. CASE RegisterData
  BY <1>2 DEF RegisterData, machineVars, notifyVars, SrcStates, ApiPC
<1>3. CASE CaptureStarted
  BY <1>3 DEF CaptureStarted, machineVars, notifyVars, SrcStates, ApiPC
<1>4. CASE CaptureStartBail
  BY <1>4 DEF CaptureStartBail, machineVars, notifyVars, SrcStates, ApiPC
<1>5. CASE CaptureStopped
  BY <1>5 DEF CaptureStopped, machineVars, notifyVars, SrcStates, ApiPC
<1>6. CASE FreeWindow
  BY <1>6 DEF FreeWindow, machineVars, notifyVars, SrcStates, ApiPC
<1>7. CASE ClearWindow
  BY <1>7 DEF ClearWindow, machineVars, notifyVars, SrcStates, ApiPC
<1>8. CASE ClearCallback
  BY <1>8 DEF ClearCallback, machineVars, notifyVars, SrcStates, ApiPC
<1>9. CASE ClearData
  BY <1>9 DEF ClearData, machineVars, notifyVars, SrcStates, ApiPC
<1>10. CASE SrcFree
  BY <1>10 DEF SrcFree, machineVars, notifyVars, SrcStates, ApiPC
<1> QED BY <1>1, <1>2, <1>3, <1>4, <1>5, <1>6, <1>7, <1>8, <1>9, <1>10 DEF ApiStep

DriverStep ==
  Start \/ StartSignal \/ Stop \/ StopSignal \/ StopAwait \/ DestroySignal \/ DestroyAwait

\* ... within the backend ...
LEMMA DriverKeepsInv ==
  ASSUME MachineInv, DriverStep
  PROVE  MachineInv'
<1> USE DEF MachineInv, SrcInv, SrcTypeOK, ApiInv, RegistrationInv, Registered, Going,
            MachineTypeOK,
            FlagInv, NotifierInv, Notifying, GoingInv, CommandInv, InStop, LifeInv, Ending
<1>1. CASE Start
  <2> USE <1>1 DEF Start, NotifyPC, srcVars, ctxVars, apiVars, notifyVars, ApiPC, SourcePC, SetEvent
  <2>1. SrcInv'
    OBVIOUS
  <2>2. MachineTypeOK'
    OBVIOUS
  <2>3. FlagInv' /\ NotifierInv'
    OBVIOUS
  <2>4. GoingInv' /\ CommandInv' /\ LifeInv'
    OBVIOUS
  <2> QED BY <2>1, <2>2, <2>3, <2>4
<1>2. CASE StartSignal
  BY <1>2 DEF StartSignal, NotifyPC, srcVars, ctxVars, apiVars, notifyVars, ApiPC, SourcePC,
              SetEvent
<1>3. CASE Stop
  <2> USE <1>3 DEF Stop, NotifyPC, srcVars, ctxVars, apiVars, notifyVars, ApiPC, SourcePC, SetEvent
  <2>1. SrcInv'
    OBVIOUS
  <2>2. MachineTypeOK'
    OBVIOUS
  <2>3. FlagInv' /\ NotifierInv'
    OBVIOUS
  <2>4. GoingInv' /\ CommandInv' /\ LifeInv'
    OBVIOUS
  <2> QED BY <2>1, <2>2, <2>3, <2>4
<1>4. CASE StopSignal
  BY <1>4 DEF StopSignal, NotifyPC, srcVars, ctxVars, apiVars, notifyVars, ApiPC, SourcePC,
              SetEvent
<1>5. CASE StopAwait
  BY <1>5 DEF StopAwait, NotifyPC, srcVars, ctxVars, apiVars, notifyVars, ApiPC, SourcePC,
              SetEvent
<1>6. CASE DestroySignal
  BY <1>6 DEF DestroySignal, NotifyPC, srcVars, ctxVars, apiVars, notifyVars, ApiPC,
              SourcePC, SetEvent
<1>7. CASE DestroyAwait
  BY <1>7 DEF DestroyAwait, NotifyPC, srcVars, ctxVars, apiVars, notifyVars, ApiPC, SourcePC,
              SetEvent
<1> QED BY <1>1, <1>2, <1>3, <1>4, <1>5, <1>6, <1>7 DEF DriverStep

\* WaitForMultipleObjects: the command taken is pending, and a stop is taken
\* only when no start is.
LEMMA TakenIs ==
  ASSUME NEW e, Taken(e)
  PROVE  e \in events /\ (e = "stop" => "start" \notin events)
<1>1. DOMAIN Commands = 1..4 /\ Commands[2] = "start" /\ Commands[3] = "stop"
  BY DEF Commands
<1>2. e = "stop" => "start" \notin events
  BY <1>1 DEF Taken
<1> QED BY <1>2 DEF Taken

CommandStep ==
  \/ TakeTerminate \/ TakeCancel \/ TakeStart \/ TakeStop
  \/ DoStart \/ DoStartAllow \/ DoStartFailed \/ DoStop

\* ... the source thread, as it takes a command ...
LEMMA CommandKeepsInv ==
  ASSUME MachineInv, CommandStep
  PROVE  MachineInv'
<1> USE TakenIs DEF MachineInv, SrcInv, SrcTypeOK, ApiInv, RegistrationInv, Registered,
                    Going, MachineTypeOK,
            FlagInv, NotifierInv, Notifying, GoingInv, CommandInv, InStop, LifeInv, Ending
<1>1. CASE TakeTerminate
  BY <1>1 DEF TakeTerminate, srcVars, ctxVars, apiVars, notifyVars, SourcePC
<1>2. CASE TakeCancel
  BY <1>2 DEF TakeCancel, srcVars, ctxVars, apiVars, notifyVars, SourcePC
<1>3. CASE TakeStart
  BY <1>3 DEF TakeStart, srcVars, ctxVars, apiVars, notifyVars, SourcePC
<1>4. CASE TakeStop
  BY <1>4 DEF TakeStop, srcVars, ctxVars, apiVars, notifyVars, SourcePC
<1>5. CASE DoStart
  BY <1>5 DEF DoStart, srcVars, ctxVars, apiVars, notifyVars, SourcePC
<1>6. CASE DoStartAllow
  BY <1>6 DEF DoStartAllow, srcVars, ctxVars, apiVars, notifyVars, SourcePC
<1>7. CASE DoStartFailed
  <2> USE <1>7 DEF DoStartFailed, srcVars, ctxVars, apiVars, notifyVars, SourcePC
  <2>1. SrcInv'
    OBVIOUS
  <2>2. MachineTypeOK'
    OBVIOUS
  <2>3. FlagInv' /\ NotifierInv'
    OBVIOUS
  <2>4. GoingInv' /\ CommandInv' /\ LifeInv'
    OBVIOUS
  <2> QED BY <2>1, <2>2, <2>3, <2>4
<1>8. CASE DoStop
  <2> USE <1>8 DEF DoStop, srcVars, ctxVars, apiVars, notifyVars, SourcePC
  <2>1. SrcInv'
    OBVIOUS
  <2>2. MachineTypeOK'
    OBVIOUS
  <2>3. FlagInv' /\ NotifierInv'
    OBVIOUS
  <2>4. GoingInv' /\ CommandInv' /\ LifeInv'
    OBVIOUS
  <2> QED BY <2>1, <2>2, <2>3, <2>4
<1> QED BY <1>1, <1>2, <1>3, <1>4, <1>5, <1>6, <1>7, <1>8 DEF CommandStep

EndingStep ==
  \/ DoStopDone \/ DoCancel \/ DoCancelDisallow \/ DoStopWait \/ DoCancelWait
  \/ GraphStop("stop_graph", "stop_wait") \/ GraphStop("cancel_graph", "notify")
  \/ NotifyError \/ NotifyErrorReturns \/ TerminateGraph \/ Terminate

\* ... ends a capture, reports the error or tears the graph down ...
LEMMA EndingKeepsInv ==
  ASSUME MachineInv, EndingStep
  PROVE  MachineInv'
<1> USE DEF MachineInv, SrcInv, SrcTypeOK, ApiInv, RegistrationInv, Registered, Going,
            MachineTypeOK,
            FlagInv, NotifierInv, Notifying, GoingInv, CommandInv, InStop, LifeInv, Ending
<1>1. CASE DoStopDone
  BY <1>1 DEF DoStopDone, srcVars, ctxVars, apiVars, notifyVars, SourcePC
<1>2. CASE DoCancel
  BY <1>2 DEF DoCancel, srcVars, ctxVars, apiVars, notifyVars, SourcePC
<1>3. CASE DoCancelDisallow
  <2> USE <1>3 DEF DoCancelDisallow, srcVars, ctxVars, apiVars, notifyVars, SourcePC
  <2>1. SrcInv'
    OBVIOUS
  <2>2. MachineTypeOK'
    OBVIOUS
  <2>3. FlagInv' /\ NotifierInv'
    OBVIOUS
  <2>4. GoingInv' /\ CommandInv' /\ LifeInv'
    OBVIOUS
  <2> QED BY <2>1, <2>2, <2>3, <2>4
<1>4. CASE DoStopWait
  BY <1>4 DEF DoStopWait, srcVars, ctxVars, apiVars, notifyVars, SourcePC
<1>5. CASE DoCancelWait
  BY <1>5 DEF DoCancelWait, srcVars, ctxVars, apiVars, notifyVars, SourcePC
<1>6. CASE GraphStop("stop_graph", "stop_wait")
  BY <1>6 DEF GraphStop, Delivering, srcVars, ctxVars, apiVars, notifyVars, SourcePC
<1>7. CASE GraphStop("cancel_graph", "notify")
  BY <1>7 DEF GraphStop, Delivering, srcVars, ctxVars, apiVars, notifyVars, SourcePC
<1>8. CASE NotifyError
  BY <1>8 DEF NotifyError, Notify, ctxVars, apiVars, NotifyPC, SourcePC
<1>9. CASE NotifyErrorReturns
  BY <1>9 DEF NotifyErrorReturns, NotifyReturns, ctxVars, apiVars, NotifyPC, SourcePC
<1>10. CASE TerminateGraph
  BY <1>10 DEF TerminateGraph, srcVars, ctxVars, apiVars, notifyVars, SourcePC
<1>11. CASE Terminate
  BY <1>11 DEF Terminate, srcVars, ctxVars, apiVars, notifyVars, SourcePC
<1> QED BY <1>1, <1>2, <1>3, <1>4, <1>5, <1>6, <1>7, <1>8, <1>9, <1>10, <1>11 DEF EndingStep

BufferStep == Sample \/ GrabberStep \/ DeviceLost

\* ... the sample grabber's thread and the graph monitor's ...
LEMMA BufferKeepsInv ==
  ASSUME MachineInv, BufferStep
  PROVE  MachineInv'
<1> USE DEF MachineInv, SrcInv, SrcTypeOK, ApiInv, RegistrationInv, Registered, Going,
            MachineTypeOK,
            FlagInv, NotifierInv, Notifying, GoingInv, CommandInv, InStop, LifeInv, Ending
<1>1. CASE BufferCB
  BY <1>1 DEF BufferCB, srcVars, ctxVars, apiVars, notifyVars, SourcePC
<1>2. CASE BufferRefused
  <2> USE <1>2 DEF BufferRefused, srcVars, ctxVars, apiVars, notifyVars, SourcePC
  <2>1. SrcInv'
    OBVIOUS
  <2>2. MachineTypeOK'
    OBVIOUS
  <2>3. FlagInv' /\ NotifierInv'
    OBVIOUS
  <2>4. GoingInv' /\ CommandInv' /\ LifeInv'
    OBVIOUS
  <2> QED BY <2>1, <2>2, <2>3, <2>4
<1>3. CASE BufferAllowed
  BY <1>3 DEF BufferAllowed, srcVars, ctxVars, apiVars, notifyVars, SourcePC
<1>4. CASE BufferNotify
  <2> USE <1>4 DEF BufferNotify, Notify, ctxVars, apiVars, NotifyPC
  <2>1. SrcInv'
    <3>1. Going
      OBVIOUS
    <3>2. SrcTypeOK' /\ ApiInv'
      OBVIOUS
    <3>3. RegistrationInv'
      BY <3>1
    <3> QED BY <3>2, <3>3
  <2>2. MachineTypeOK'
    OBVIOUS
  <2>3. FlagInv' /\ NotifierInv'
    OBVIOUS
  <2>4. GoingInv' /\ CommandInv' /\ LifeInv'
    OBVIOUS
  <2> QED BY <2>1, <2>2, <2>3, <2>4
<1>5. CASE BufferDone
  <2> USE <1>5 DEF BufferDone, NotifyReturns, ctxVars, apiVars, NotifyPC
  <2>1. SrcInv'
    OBVIOUS
  <2>2. MachineTypeOK'
    OBVIOUS
  <2>3. FlagInv' /\ NotifierInv'
    OBVIOUS
  <2>4. GoingInv' /\ CommandInv' /\ LifeInv'
    OBVIOUS
  <2> QED BY <2>1, <2>2, <2>3, <2>4
<1>6. CASE DeviceLost
  <2> USE <1>6 DEF DeviceLost, SetEvent, srcVars, ctxVars, apiVars, notifyVars, SourcePC
  <2>1. SrcInv'
    OBVIOUS
  <2>2. MachineTypeOK'
    <3>1. losses' \in Nat /\ losses' <= MaxLosses
      BY SourceStateMachineAssumption
    <3> QED BY <3>1
  <2>3. FlagInv' /\ NotifierInv'
    OBVIOUS
  <2>4. GoingInv' /\ CommandInv' /\ LifeInv'
    OBVIOUS
  <2> QED BY <2>1, <2>2, <2>3, <2>4
<1>7. CASE Sample
  BY <1>7 DEF Sample, Delivering, srcVars, ctxVars, apiVars, notifyVars, SourcePC
<1> QED BY <1>1, <1>2, <1>3, <1>4, <1>5, <1>6, <1>7 DEF BufferStep, GrabberStep

\* ... the notification ...
LEMMA FrameKeepsInv ==
  ASSUME MachineInv, FrameStep,
         told' = (told \/ (npc = "callback" /\ error_status)),
         UNCHANGED <<dpc, spc, bpc, events, okToSendStart_, okToSendStop_, allowCallbacks_,
                     callbackInProgress_, captureStopped_, graph, losses>>
  PROVE  MachineInv'
<1> USE DEF MachineInv, SrcInv, SrcTypeOK, ApiInv, RegistrationInv, Registered, Going,
            MachineTypeOK,
            FlagInv, NotifierInv, Notifying, GoingInv, CommandInv, InStop, LifeInv, Ending
<1>1. CASE TakeCallback
  BY <1>1 DEF TakeCallback, ctxVars, apiVars, NotifyPC
<1>2. CASE TakeData
  BY <1>2 DEF TakeData, ctxVars, apiVars, NotifyPC
<1>3. CASE Deliver
  BY <1>3 DEF Deliver, AfterDelivery, ctxVars, apiVars, NotifyPC
<1>4. CASE CallbackReturns
  BY <1>4 DEF CallbackReturns, AfterDelivery, ctxVars, apiVars, NotifyPC
<1> QED BY <1>1, <1>2, <1>3, <1>4 DEF FrameStep

\* ... and the end of one that reports an error.
LEMMA ErrorKeepsInv ==
  ASSUME MachineInv, ErrorStep, UNCHANGED machineVars
  PROVE  MachineInv'
<1> USE DEF MachineInv, SrcInv, SrcTypeOK, ApiInv, RegistrationInv, Registered, Going,
            MachineTypeOK,
            FlagInv, NotifierInv, Notifying, GoingInv, CommandInv, InStop, LifeInv, Ending
<1>1. CASE ErrorSetBound
  BY <1>1 DEF ErrorSetBound, machineVars, SrcStates, ctxVars, apiVars, NotifyPC
<1>2. CASE ErrorDropCallback
  BY <1>2 DEF ErrorDropCallback, machineVars, ctxVars, apiVars, NotifyPC
<1>3. CASE ErrorDropData
  BY <1>3 DEF ErrorDropData, machineVars, ctxVars, apiVars, NotifyPC
<1> QED BY <1>1, <1>2, <1>3 DEF ErrorStep

LEMMA StutterKeepsInv ==
  ASSUME MachineInv, UNCHANGED vars
  PROVE  MachineInv'
<1> USE DEF MachineInv, vars, srcVars, ctxVars, apiVars, notifyVars, machineVars
<1>1. SrcInv'
  BY DEF SrcInv, SrcTypeOK, ApiInv, RegistrationInv, Registered, Going
<1>2. MachineTypeOK' /\ FlagInv' /\ NotifierInv'
  BY DEF MachineTypeOK, FlagInv, NotifierInv, Notifying
<1>3. GoingInv' /\ CommandInv' /\ LifeInv'
  BY DEF GoingInv, Going, CommandInv, InStop, LifeInv, Ending
<1> QED BY <1>1, <1>2, <1>3

LEMMA NextKeepsInv ==
  ASSUME MachineInv, [Next]_vars
  PROVE  MachineInv'
BY ApiBeginsKeepsInv, ApiStepKeepsInv, DriverKeepsInv, CommandKeepsInv, EndingKeepsInv,
   BufferKeepsInv, FrameKeepsInv, ErrorKeepsInv, StutterKeepsInv
   DEF Next, AppStep, DriverStep, SourceThread, Poll, CommandStep, EndingStep, NotifyStep,
       BufferStep

LEMMA InvCorrect == Spec => []MachineInv
BY InitMachine, NextKeepsInv, PTL DEF Spec

-----------------------------------------------------------------------------
\* Every variable keeps its type, and the bounds are kept.
THEOREM TypeCorrect == Spec => []TypeOK
<1>1. MachineInv => TypeOK
  BY DEF MachineInv, SrcInv, MachineTypeOK, TypeOK
<1> QED BY <1>1, InvCorrect, PTL

\* The two plain flags keep the sample grabber's thread and the source thread
\* from notifying together.
THEOREM OneNotifierHolds == Spec => []OneNotifier
<1>1. MachineInv => OneNotifier
  BY DEF MachineInv, FlagInv, OneNotifier
<1> QED BY <1>1, InvCorrect, PTL

-----------------------------------------------------------------------------
\* The backend's own steps leave the context alone and begin or end no call.
LEMMA BackendKeepsRegistration ==
  ASSUME DriverStep \/ CommandStep \/ EndingStep \/ BufferStep
  PROVE  /\ UNCHANGED ctxVars /\ UNCHANGED <<cap_callback, cap_data>>
         /\ npc' = npc \/ (npc \in {"none", "done"} /\ npc' \in {"none", "take_callback"})
<1> USE DEF srcVars, ctxVars, notifyVars
<1>1. CASE DriverStep
  BY <1>1 DEF DriverStep, Start, StartSignal, Stop, StopSignal, StopAwait, DestroySignal,
              DestroyAwait
<1>2. CASE CommandStep
  BY <1>2 DEF CommandStep, TakeTerminate, TakeCancel, TakeStart, TakeStop, DoStart,
              DoStartAllow, DoStartFailed, DoStop
<1>3. CASE EndingStep
  BY <1>3 DEF EndingStep, DoStopDone, DoCancel, DoCancelDisallow, DoStopWait, DoCancelWait,
              GraphStop, NotifyError, NotifyErrorReturns, Notify, NotifyReturns,
              TerminateGraph, Terminate
<1>4. CASE BufferStep
  BY <1>4 DEF BufferStep, GrabberStep, Sample, BufferCB, BufferRefused, BufferAllowed, BufferNotify,
              BufferDone, Notify, NotifyReturns, DeviceLost
<1> QED BY <1>1, <1>2, <1>3, <1>4

\* The application's thread leaves alone what a frame's delivery works with.
LEMMA FrameNotifyKeepsContextHolds == Spec => FrameNotifyKeepsContext
<1>1. MachineInv /\ [Next]_vars =>
        [Notifying /\ ~error_status =>
           /\ UNCHANGED <<capture_callback, capture_data, fmt, frame_times, windows>>
           /\ src_state' # "none"]_srcVars
  <2> SUFFICES ASSUME MachineInv, [Next]_vars, Notifying, ~error_status, ~UNCHANGED srcVars
               PROVE  /\ UNCHANGED <<capture_callback, capture_data, fmt, frame_times, windows>>
                      /\ src_state' # "none"
    OBVIOUS
  <2>1. Going /\ npc \notin {"set_bound", "drop_callback", "drop_data"} /\ src_state # "none"
    BY DEF MachineInv, NotifierInv, Notifying, Going, SrcInv, ApiInv, GoingInv, Registered
  <2>2. apc = "started" \/ (src_state = "src_capturing" /\ apc \in {"idle", "stop_capture"})
    BY <2>1 DEF MachineInv, GoingInv
  <2>3. CASE ApiBegins
    BY <2>1, <2>2, <2>3 DEF ApiBegins, Construct, SrcAcquire, FormatBind, Capture, CaptureStart,
                            CaptureStop, SrcRelease, ctxVars
  <2>4. CASE ApiStep
    BY <2>1, <2>2, <2>4 DEF ApiStep, RegisterCallback, RegisterData, CaptureStarted,
                      CaptureStartBail, CaptureStopped, FreeWindow, ClearWindow, ClearCallback,
                      ClearData, SrcFree
  <2>5. CASE DriverStep \/ CommandStep \/ EndingStep \/ BufferStep
    BY <2>1, <2>5, BackendKeepsRegistration DEF ctxVars
  <2>6. CASE FrameStep \/ ErrorStep
    BY <2>1, <2>6 DEF FrameStep, TakeCallback, TakeData, Deliver, CallbackReturns, ErrorStep,
                      ErrorSetBound, ErrorDropCallback, ErrorDropData, ctxVars
  <2> QED
    BY <2>3, <2>4, <2>5, <2>6 DEF Next, AppStep, DriverStep, SourceThread, Poll, CommandStep,
       EndingStep, NotifyStep, BufferStep, vars
<1> QED BY <1>1, InvCorrect, PTL DEF Spec, FrameNotifyKeepsContext

\* When the graph may be delivering without having refused a stop: a capture goes
\* on or is being stopped, or the graph is being torn down.
GraphInv ==
  \/ graph \in {"stopped", "stranded"} \/ allowCallbacks_
  \/ spc \in {"allow", "cancel_wait", "cancel_graph", "stop_graph", "teardown"}

\* A frame is scaled by a graph that is not stopped.
ScaleInv == bpc = "scale" => graph # "stopped"

LEMMA NextKeepsGraph ==
  ASSUME MachineInv, GraphInv, ScaleInv, [Next]_vars
  PROVE  GraphInv' /\ ScaleInv'
<1> USE DEF GraphInv, ScaleInv
<1>1. CASE CommandStep
  BY <1>1, TakenIs DEF MachineInv, FlagInv, CommandStep, TakeTerminate, TakeCancel, TakeStart,
                       TakeStop, DoStart, DoStartAllow, DoStartFailed, DoStop
<1>2. CASE EndingStep
  BY <1>2 DEF MachineInv, FlagInv, EndingStep, DoStopDone, DoCancel, DoCancelDisallow, DoStopWait,
              DoCancelWait, GraphStop, Delivering, NotifyError, NotifyErrorReturns,
              TerminateGraph, Terminate
<1>3. CASE BufferStep
  BY <1>3 DEF BufferStep, GrabberStep, Sample, Delivering, BufferCB, BufferRefused, BufferAllowed,
              BufferNotify, BufferDone, DeviceLost
<1>4. CASE ApiBegins
  BY <1>4 DEF MachineInv, LifeInv, ApiBegins, Construct, SrcAcquire, machineVars, SrcInv, ApiInv
<1>5. CASE DriverStep
  BY <1>5 DEF MachineInv, LifeInv, DriverStep, Start, StartSignal, Stop, StopSignal, StopAwait,
              DestroySignal, DestroyAwait
<1>6. CASE NotifyStep \/ (ApiStep /\ UNCHANGED machineVars) \/ UNCHANGED vars
  BY <1>6 DEF NotifyStep, machineVars, vars
<1> QED
  BY <1>1, <1>2, <1>3, <1>4, <1>5, <1>6 DEF Next, AppStep, DriverStep, SourceThread, Poll,
     CommandStep, EndingStep, BufferStep

LEMMA GraphCorrect == Spec => [](MachineInv /\ GraphInv /\ ScaleInv)
<1>1. Init => GraphInv /\ ScaleInv
  BY DEF Init, GraphInv, ScaleInv
<1> QED BY <1>1, NextKeepsGraph, InvCorrect, PTL DEF Spec

\* Nor does it replace, unless the graph has refused to stop, the buffer a frame
\* is being scaled into before the flag is raised that a stop waits for.
THEOREM DeliveryKeepsContextHolds == Spec => DeliveryKeepsContext
<1>1. ASSUME MachineInv, GraphInv, ScaleInv, [Next]_vars, bpc = "scale", graph # "stranded"
      PROVE  UNCHANGED fmt
  <2>1. /\ src_state # "none"
        /\ apc = "idle" => src_state = "src_capturing"
        /\ apc # "released"
    BY <1>1, TakenIs DEF MachineInv, MachineTypeOK, SrcInv, ApiInv, GoingInv, Going, CommandInv,
                         InStop, LifeInv, Ending, GraphInv, ScaleInv
  <2>2. CASE ApiBegins
    BY <2>1, <2>2 DEF ApiBegins, Construct, SrcAcquire, FormatBind, Capture, CaptureStart,
                      CaptureStop, SrcRelease, ctxVars
  <2>3. CASE ApiStep
    BY <2>1, <2>3 DEF ApiStep, RegisterCallback, RegisterData, CaptureStarted,
                      CaptureStartBail, CaptureStopped, FreeWindow, ClearWindow, ClearCallback,
                      ClearData, SrcFree, ctxVars
  <2>4. CASE DriverStep \/ CommandStep \/ EndingStep \/ BufferStep
    BY <2>4, BackendKeepsRegistration DEF ctxVars
  <2>5. CASE FrameStep \/ ErrorStep
    BY <2>5 DEF FrameStep, TakeCallback, TakeData, Deliver, CallbackReturns, ErrorStep,
                ErrorSetBound, ErrorDropCallback, ErrorDropData, ctxVars
  <2> QED
    BY <1>1, <2>2, <2>3, <2>4, <2>5 DEF Next, AppStep, DriverStep, SourceThread, Poll, CommandStep,
       EndingStep, NotifyStep, BufferStep, vars, srcVars, ctxVars
<1>2. MachineInv /\ GraphInv /\ ScaleInv /\ [Next]_vars =>
        [bpc = "scale" /\ graph # "stranded" => UNCHANGED fmt]_vars
  BY <1>1
<1> QED BY <1>2, GraphCorrect, FrameNotifyKeepsContextHolds, PTL DEF Spec, DeliveryKeepsContext

-----------------------------------------------------------------------------
(* The contract.                                                            *)

\* A call is in progress only while a capture goes on.
LEMMA CallGoing ==
  ASSUME MachineInv, npc = "callback"
  PROVE  Going /\ apc \in {"started", "idle", "stop_capture"}
BY DEF MachineInv, NotifierInv, Notifying, GoingInv, Going

LEMMA ApiKeepsContract ==
  ASSUME MachineInv, MachineInv', ApiBegins \/ ApiStep
  PROVE  [Contract!Next]_Contract!contractVars
<1>1. UNCHANGED notifyVars
  BY DEF ApiBegins, Construct, SrcAcquire, FormatBind, Capture, CaptureStart, CaptureStop,
         SrcRelease, ApiStep,
         RegisterCallback, RegisterData, CaptureStarted, CaptureStartBail, CaptureStopped,
         FreeWindow, ClearWindow, ClearCallback, ClearData, SrcFree
<1>2. CASE RegisterCallback \/ RegisterData \/ CaptureStartBail \/ ClearCallback \/ ClearData
           \/ SrcFree
  <2>1. npc # "callback"
    BY <1>2, CallGoing DEF RegisterCallback, RegisterData, CaptureStartBail, ClearCallback,
                           ClearData, SrcFree
  <2>2. Call = None /\ Call' = None
    BY <1>1, <2>1 DEF Call, notifyVars
  <2>3. \/ capture_callback' = capture_callback
        \/ capture_data' = capture_data
        \/ capture_callback' = None /\ capture_data' = None
    BY <1>2 DEF RegisterCallback, RegisterData, CaptureStartBail, ClearCallback, ClearData,
                SrcFree
  <2> QED BY <2>2, <2>3, HalvesKeepContract DEF MachineInv, SrcInv
<1>3. CASE ApiBegins \/ CaptureStarted \/ CaptureStopped \/ FreeWindow \/ ClearWindow
  <2>1. UNCHANGED <<capture_callback, capture_data>>
    BY <1>3 DEF ApiBegins, Construct, SrcAcquire, FormatBind, Capture, CaptureStart,
                CaptureStop, SrcRelease,
                CaptureStarted, CaptureStopped, FreeWindow, ClearWindow, ctxVars
  <2> QED BY <1>1, <2>1, ContractStutters DEF notifyVars
<1> QED BY <1>2, <1>3 DEF ApiStep

LEMMA NotificationKeepsContract ==
  ASSUME MachineInv, MachineInv', FrameStep \/ ErrorStep
  PROVE  [Contract!Next]_Contract!contractVars
<1>1. CASE Deliver /\ npc' = "callback"
  <2>1. npc = "deliver" /\ cap_callback # None /\ cap_data # None /\ Going
    BY <1>1 DEF Deliver, AfterDelivery, MachineInv, NotifierInv, Notifying, Going
  <2>2. /\ capture_callback = client /\ capture_data = client
        /\ cap_callback = client /\ cap_data = client
    BY <2>1 DEF MachineInv, SrcInv, RegistrationInv
  <2>3. Registration = client /\ Registration' = client /\ client # None
    BY <1>1, <2>1, <2>2 DEF Deliver, Registration, ctxVars, apiVars
  <2>4. Call = None /\ Call' = <<client, client>>
    BY <1>1, <2>1, <2>2 DEF Deliver, Call
  <2> QED BY <2>3, <2>4 DEF Contract!Next, Contract!Enter
<1>2. CASE CallbackReturns
  <2>1. npc = "callback" /\ npc' # "callback" /\ UNCHANGED Registration
    BY <1>2 DEF CallbackReturns, AfterDelivery, Registration, ctxVars
  <2>2. cap_callback \in Clients /\ cap_data \in Clients
    BY <2>1 DEF MachineInv, SrcInv, RegistrationInv, SrcTypeOK
  <2>3. Call # None /\ Call' = None
    BY <2>1, <2>2, SourceContextAssumption DEF Call
  <2> QED BY <2>1, <2>3 DEF Contract!Next, Contract!Leave
<1>3. CASE ErrorDropCallback \/ ErrorDropData
  <2>1. Call = None /\ Call' = None
    BY <1>3 DEF ErrorDropCallback, ErrorDropData, Call
  <2>2. capture_callback' = capture_callback \/ capture_data' = capture_data
    BY <1>3 DEF ErrorDropCallback, ErrorDropData
  <2> QED BY <2>1, <2>2, HalvesKeepContract DEF MachineInv, SrcInv
<1>4. CASE TakeCallback \/ TakeData \/ ErrorSetBound \/ (Deliver /\ npc' # "callback")
  <2>1. npc # "callback" /\ npc' # "callback" /\ UNCHANGED <<capture_callback, capture_data>>
    BY <1>4 DEF TakeCallback, TakeData, ErrorSetBound, Deliver, ctxVars
  <2>2. UNCHANGED Registration /\ UNCHANGED Call
    BY <2>1 DEF Registration, Call
  <2> QED BY <2>2 DEF Contract!contractVars
<1> QED BY <1>1, <1>2, <1>3, <1>4 DEF FrameStep, ErrorStep

\* The DirectShow backend implements the contract.
THEOREM ContractHolds == Spec => ContractSpec
<1>1. Init => Contract!Init
  BY DEF Init, SrcInit, Contract!Init, Registration, Call
<1>2. MachineInv /\ MachineInv' /\ [Next]_vars => [Contract!Next]_Contract!contractVars
  <2> SUFFICES ASSUME MachineInv, MachineInv', [Next]_vars
               PROVE  [Contract!Next]_Contract!contractVars
    OBVIOUS
  <2>1. CASE ApiBegins \/ ApiStep
    BY <2>1, ApiKeepsContract
  <2>2. CASE FrameStep \/ ErrorStep
    BY <2>2, NotificationKeepsContract
  <2>3. CASE DriverStep \/ CommandStep \/ EndingStep \/ BufferStep
    <3>1. UNCHANGED <<capture_callback, capture_data, cap_callback, cap_data>>
      BY <2>3, BackendKeepsRegistration DEF ctxVars
    <3>2. (npc' = "callback") = (npc = "callback")
      BY <2>3, BackendKeepsRegistration
    <3> QED BY <3>1, <3>2, ContractStutters
  <2>4. CASE UNCHANGED vars
    BY <2>4, ContractStutters DEF vars, srcVars, ctxVars, notifyVars
  <2> QED
    BY <2>1, <2>2, <2>3, <2>4 DEF Next, AppStep, DriverStep, SourceThread, Poll, CommandStep,
       EndingStep, NotifyStep, BufferStep
<1> QED BY <1>1, <1>2, InvCorrect, PTL DEF Spec, ContractSpec, Contract!Spec

\* A client's callback is called with its own pair and only in its capture, by
\* the sample grabber's thread and by the source thread alike.
THEOREM CallsHold == Spec => [](CallIsOwn /\ CallInCapture) /\ RegistrationHeld
<1>1. MachineInv => CallInCapture
  BY CallGoing DEF MachineInv, GoingInv, CallInCapture
<1>2. Spec => Contract!Spec
  BY ContractHolds DEF ContractSpec
<1> QED BY <1>1, <1>2, InvCorrect, ContractMeans, PTL

-----------------------------------------------------------------------------
(* How a capture ends, and what its commands owe each other.                *)

\* How the end of a capture shows in the history, and what a delivery may still
\* run beside.
EndInv ==
  /\ told /\ Going => spc = "notifying" /\ npc = "set_bound"
  /\ apc \in {"register_callback", "register_data", "start_capture"} => ~told
  /\ npc = "set_bound" => told \/ cap_callback = None \/ cap_data = None
  /\ bpc \in {"notify", "notifying"} /\ ~allowCallbacks_ =>
       spc \in {"cancel_wait", "stop_graph", "stop_wait"}

\* A start is refused only between a start and what ends its capture, a stop
\* waits only for the start before it, and a command waited for is not lost.
OrderInv ==
  /\ ~okToSendStart_ =>
       \/ apc = "start_capture" /\ dpc = "signal"
       \/ apc = "started"
       \/ src_state = "src_capturing" /\ apc # "stopped"
  /\ spc \in {"cancel_disallow", "cancel_wait", "cancel_graph", "notify"} \/ InStop
       => okToSendStart_
  /\ spc = "cancel" /\ allowCallbacks_ => okToSendStart_
  /\ spc = "notifying"
       /\ npc \in {"take_callback", "take_data", "deliver", "callback", "set_bound"}
       => okToSendStart_
  /\ apc = "stop_capture" /\ dpc = "await" /\ captureStopped_ => okToSendStart_
  /\ apc # "start_failed"
  /\ ~okToSendStop_ =>
       \/ "start" \in events
       \/ apc = "stop_capture" /\ dpc # "enter"
       \/ apc = "stopped"
       \/ apc \notin {"started", "stop_capture"} /\ src_state # "src_capturing"
  /\ apc = "stop_capture" /\ dpc = "await" => captureStopped_ \/ "stop" \in events \/ InStop
  /\ apc = "release" /\ dpc = "await" => "terminate" \in events \/ Ending

LEMMA InitEnd == Init => EndInv /\ OrderInv
BY DEF Init, SrcInit, EndInv, OrderInv, Going, InStop, Ending

\* The application's thread keeps both.
LEMMA ApplicationKeepsEnd ==
  ASSUME MachineInv, EndInv, OrderInv, ApiBegins \/ (ApiStep /\ UNCHANGED machineVars) \/ DriverStep
  PROVE  EndInv' /\ OrderInv'
<1> USE DEF EndInv, OrderInv, Going, InStop, Ending, MachineInv, SrcInv, ApiInv, MachineTypeOK,
            FlagInv, NotifierInv, Notifying, GoingInv, CommandInv, LifeInv, Registered
<1>1. CASE ApiBegins
  <2>1. CASE Construct
    BY <1>1, <2>1 DEF Construct, SrcAcquire, ctxVars, apiVars, notifyVars
  <2>2. CASE (FormatBind \/ CaptureStop \/ SrcRelease) /\ UNCHANGED machineVars
    BY <2>2 DEF FormatBind, CaptureStop, SrcRelease, machineVars, ctxVars, apiVars, notifyVars
  <2>3. ASSUME NEW c \in Clients, Capture(c),
               UNCHANGED <<dpc, spc, bpc, events, okToSendStart_, okToSendStop_,
                           allowCallbacks_, callbackInProgress_, captureStopped_, graph, losses>>
        PROVE  EndInv' /\ OrderInv'
    BY <2>3 DEF Capture, CaptureStart, notifyVars
  <2> QED BY <1>1, <2>1, <2>2, <2>3 DEF ApiBegins
<1>2. CASE ApiStep /\ UNCHANGED machineVars
  BY <1>2 DEF ApiStep, machineVars, RegisterCallback, RegisterData, CaptureStarted,
              CaptureStartBail, CaptureStopped, FreeWindow, ClearWindow, ClearCallback, ClearData,
              SrcFree, ctxVars, notifyVars
<1>3. CASE DriverStep
  <2> USE DEF SetEvent, srcVars, ctxVars, apiVars, notifyVars
  <2>1. CASE Start
    BY <2>1 DEF Start
  <2>2. CASE StartSignal
    BY <2>2 DEF StartSignal
  <2>3. CASE Stop
    BY <2>3 DEF Stop
  <2>4. CASE StopSignal \/ StopAwait
    BY <2>4 DEF StopSignal, StopAwait
  <2>5. CASE DestroySignal \/ DestroyAwait
    BY <2>5 DEF DestroySignal, DestroyAwait
  <2> QED BY <1>3, <2>1, <2>2, <2>3, <2>4, <2>5 DEF DriverStep
<1> QED BY <1>1, <1>2, <1>3

\* So does the source thread ...
LEMMA SourceThreadKeepsEnd ==
  ASSUME MachineInv, EndInv, OrderInv, CommandStep \/ EndingStep
  PROVE  EndInv' /\ OrderInv'
<1> USE TakenIs
        DEF EndInv, OrderInv, Going, InStop, Ending, MachineInv, SrcInv, ApiInv, MachineTypeOK,
            FlagInv, NotifierInv, Notifying, GoingInv, CommandInv, LifeInv, Registered,
            srcVars, ctxVars, apiVars, notifyVars
<1>1. CASE TakeTerminate
  BY <1>1 DEF TakeTerminate
<1>2. CASE TakeCancel
  BY <1>2 DEF TakeCancel
<1>3. CASE TakeStart
  BY <1>3 DEF TakeStart
<1>4. CASE TakeStop
  BY <1>4 DEF TakeStop
<1>5. CASE DoStart \/ DoStartAllow
  BY <1>5 DEF DoStart, DoStartAllow
<1>6. CASE DoStartFailed
  BY <1>6 DEF DoStartFailed
<1>7. CASE DoStop
  BY <1>7 DEF DoStop
<1>8. CASE DoStopDone \/ DoStopWait
  BY <1>8 DEF DoStopDone, DoStopWait
<1>9. CASE DoCancel \/ DoCancelDisallow
  BY <1>9 DEF DoCancel, DoCancelDisallow
<1>10. CASE DoCancelWait
  BY <1>10 DEF DoCancelWait
<1>11. CASE GraphStop("stop_graph", "stop_wait") \/ GraphStop("cancel_graph", "notify")
  BY <1>11 DEF GraphStop, Delivering
<1>12. CASE NotifyError \/ NotifyErrorReturns
  BY <1>12 DEF NotifyError, NotifyErrorReturns, Notify, NotifyReturns
<1>13. CASE TerminateGraph \/ Terminate
  BY <1>13 DEF TerminateGraph, Terminate
<1> QED BY <1>1, <1>2, <1>3, <1>4, <1>5, <1>6, <1>7, <1>8, <1>9, <1>10, <1>11, <1>12, <1>13
           DEF CommandStep, EndingStep

\* ... and a notification, whichever thread it runs in.
LEMMA NotificationKeepsEnd ==
  ASSUME MachineInv, EndInv, OrderInv, BufferStep \/ NotifyStep
  PROVE  EndInv' /\ OrderInv'
<1> USE DEF EndInv, OrderInv, Going, InStop, Ending, MachineInv, SrcInv, ApiInv, MachineTypeOK,
            FlagInv, NotifierInv, Notifying, GoingInv, CommandInv, LifeInv, Registered,
            srcVars, ctxVars, apiVars, notifyVars, machineVars
<1>1. CASE Sample \/ BufferCB \/ BufferRefused \/ BufferAllowed
  BY <1>1 DEF Sample, BufferCB, BufferRefused, BufferAllowed
<1>2. CASE BufferNotify \/ BufferDone
  BY <1>2 DEF BufferNotify, BufferDone, Notify, NotifyReturns
<1>3. CASE DeviceLost
  BY <1>3 DEF DeviceLost, SetEvent
<1>4. CASE NotifyStep /\ (TakeCallback \/ TakeData)
  BY <1>4 DEF NotifyStep, TakeCallback, TakeData, ErrorStep, ErrorSetBound, ErrorDropCallback,
              ErrorDropData
<1>5. CASE NotifyStep /\ Deliver
  BY <1>5 DEF NotifyStep, Deliver, AfterDelivery, ErrorStep, ErrorSetBound, ErrorDropCallback,
              ErrorDropData
<1>6. CASE NotifyStep /\ CallbackReturns
  BY <1>6 DEF NotifyStep, CallbackReturns, AfterDelivery, ErrorStep, ErrorSetBound,
              ErrorDropCallback, ErrorDropData
<1>7. CASE ErrorStep /\ UNCHANGED machineVars
  BY <1>7 DEF ErrorStep, ErrorSetBound, ErrorDropCallback, ErrorDropData
<1> QED BY <1>1, <1>2, <1>3, <1>4, <1>5, <1>6, <1>7 DEF BufferStep, GrabberStep, NotifyStep, FrameStep

LEMMA NextKeepsEnd ==
  ASSUME MachineInv, EndInv, OrderInv, [Next]_vars
  PROVE  EndInv' /\ OrderInv'
<1>1. CASE UNCHANGED vars
  BY <1>1 DEF vars, srcVars, ctxVars, apiVars, notifyVars, machineVars, EndInv, OrderInv, Going,
              InStop, Ending
<1> QED
  BY <1>1, ApplicationKeepsEnd, SourceThreadKeepsEnd, NotificationKeepsEnd
     DEF Next, AppStep, DriverStep, SourceThread, Poll, CommandStep, EndingStep, BufferStep

LEMMA EndCorrect == Spec => [](MachineInv /\ EndInv /\ OrderInv)
<1>1. Init => EndInv /\ OrderInv
  BY InitEnd
<1>2. MachineInv /\ EndInv /\ OrderInv /\ [Next]_vars => EndInv' /\ OrderInv'
  BY NextKeepsEnd
<1> QED BY <1>1, <1>2, InvCorrect, PTL DEF Spec

\* The callback with an error status is a capture's last one: the client is not
\* called again until it starts the next ("perform final capture callback, with
\* error status", SourceStateMachine.cpp:503).
FinalIsFinal == npc = "callback" => ~told

\* No delivery that was under way when the device was lost follows the error.
THEOREM FinalIsFinalHolds == Spec => []FinalIsFinal
<1>1. MachineInv /\ EndInv => FinalIsFinal
  BY CallGoing DEF EndInv, FinalIsFinal
<1> QED BY <1>1, EndCorrect, PTL

\* A capture ends in one of two ways: the application stops it, or its client
\* has had the callback with an error status, unless the registration had been
\* lost to the error that ended the capture before (sapi.c:390).
EndReported ==
  [][Going /\ ~Going' =>
       apc = "stop_capture" \/ told \/ cap_callback = None \/ cap_data = None]_vars

\* No failed start, lost device or cancelled delivery ends a capture silently.
THEOREM EndReportedHolds == Spec => EndReported
<1>1. ASSUME MachineInv, EndInv, [Next]_vars, Going, ~Going'
      PROVE  apc = "stop_capture" \/ npc = "set_bound"
  <2> USE TakenIs, <1>1
          DEF EndInv, Going, InStop, MachineInv, MachineTypeOK, FlagInv, NotifierInv, Notifying,
              GoingInv, CommandInv, srcVars, ctxVars, apiVars, notifyVars, machineVars
  <2>1. ~UNCHANGED vars
    BY DEF vars
  <2>2. CASE ApiBegins
    BY <2>2 DEF ApiBegins, Construct, SrcAcquire, FormatBind, CaptureStop, SrcRelease, Capture,
                CaptureStart, SrcInv, ApiInv, LifeInv
  <2>3. CASE AppStep
    BY <2>3 DEF AppStep, ApiStep, RegisterCallback, RegisterData, CaptureStarted,
                CaptureStartBail, CaptureStopped, FreeWindow, ClearWindow, ClearCallback,
                ClearData, SrcFree, SetEvent, Start, StartSignal, Stop, StopSignal, StopAwait,
                DestroySignal, DestroyAwait
  <2>4. CASE CommandStep
    BY <2>4 DEF CommandStep, TakeTerminate, TakeCancel, TakeStart, TakeStop, DoStart,
                DoStartAllow, DoStartFailed, DoStop
  <2>5. CASE EndingStep
    BY <2>5 DEF EndingStep, DoStopDone, DoCancel, DoCancelDisallow, DoStopWait, DoCancelWait,
                GraphStop, NotifyError, NotifyErrorReturns, Notify, NotifyReturns,
                TerminateGraph, Terminate
  <2>6. CASE BufferStep
    BY <2>6 DEF BufferStep, GrabberStep, Sample, BufferCB, BufferRefused, BufferAllowed, BufferNotify,
                BufferDone, Notify, NotifyReturns, DeviceLost, SetEvent
  <2>7. CASE NotifyStep
    BY <2>7 DEF NotifyStep, FrameStep, TakeCallback, TakeData, Deliver, AfterDelivery,
                CallbackReturns, ErrorStep, ErrorSetBound, ErrorDropCallback, ErrorDropData
  <2> QED
    BY <2>1, <2>2, <2>3, <2>4, <2>5, <2>6, <2>7 DEF Next, SourceThread, Poll, CommandStep,
       EndingStep, BufferStep
<1>2. MachineInv /\ EndInv /\ [Next]_vars =>
        [Going /\ ~Going' =>
           apc = "stop_capture" \/ told \/ cap_callback = None \/ cap_data = None]_vars
  BY <1>1 DEF EndInv
<1> QED BY <1>2, EndCorrect, PTL DEF Spec, EndReported

\* The commands of the application's thread and the flags that admit them: a
\* start is never refused (SourceStateMachine.cpp:344), a stop finds the start
\* before it taken or pending, and a stop or a terminate that is waited for is
\* pending or being done, whatever loss of the device comes between.
CommandsKept ==
  /\ apc = "start_capture" /\ dpc = "enter" => okToSendStart_
  /\ apc = "stop_capture" /\ dpc = "enter" => okToSendStop_ \/ "start" \in events
  /\ apc = "stop_capture" /\ dpc = "await" => captureStopped_ \/ "stop" \in events \/ InStop
  /\ apc = "release" /\ dpc = "await" => "terminate" \in events \/ Ending

\* No interleaving of the threads makes the application wait for a command that
\* nobody will do.
THEOREM CommandsKeptHolds == Spec => []CommandsKept
<1>1. MachineInv /\ OrderInv => CommandsKept
  BY DEF OrderInv, CommandsKept, MachineInv, SrcInv, ApiInv, Registered
<1> QED BY <1>1, EndCorrect, PTL
=============================================================================
