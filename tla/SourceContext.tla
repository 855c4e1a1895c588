---------------------------- MODULE SourceContext ---------------------------
(***************************************************************************)
(* The source context that every backend shares: the source functions of   *)
(* src/vidcap.c, called by one application thread, and                     *)
(* sapi_src_capture_notify and deliver_frame of src/sapi.c, called by the  *)
(* backend's capture thread.  No lock protects the context, so each access *)
(* to a shared field that the other thread may also touch is a step.       *)
(*                                                                         *)
(* The application's control point is apc and the notification's is npc.   *)
(* A backend module EXTENDS this one: it adds the steps of the function    *)
(* pointers acquire_source, start_capture, stop_capture and release        *)
(* installs, the thread that notifies, and the next-state relation.        *)
(*                                                                         *)
(* Frames go straight to the application: use_timer_thread is 0            *)
(* (vidcap.c:322).  The formats and buffers a bind replaces are one value, *)
(* fmt; module FormatBind opens it up.                                     *)
(***************************************************************************)
EXTENDS Integers

CONSTANTS
  Clients,  \* callback and user data pairs the application starts with
  Formats,  \* what a bind can set up: formats, converter and buffers
  None      \* a null callback, VIDCAP_INVALID_USER_DATA, no format

ASSUME SourceContextAssumption ==
  None \notin Clients /\ None \notin Formats /\ None \notin Clients \X Clients

VARIABLES
  src_state,         \* "none" while no context is allocated
  capture_callback,  \* the callback of a client, or None
  capture_data,      \* the user data of a client, or None
  fmt,               \* formats, converter and conversion buffers
  frame_times,       \* the sliding window pointer: "null", "live", "dangling"
  windows,           \* sliding windows allocated and not freed
  apc, client,       \* application thread: control point, argument of start
  npc,               \* notification: control point
  cap_callback,      \* locals of deliver_frame
  cap_data,
  error_status

ctxVars == <<src_state, capture_callback, capture_data, fmt, frame_times, windows>>
apiVars == <<apc, client>>
notifyVars == <<npc, cap_callback, cap_data, error_status>>
srcVars == <<ctxVars, apiVars, notifyVars>>

SrcStates == {"none", "src_acquired", "src_bound", "src_capturing"}
ApiPC == {"idle", "register_callback", "register_data", "start_capture", "started",
          "start_failed", "stop_capture", "stopped", "free_window", "clear_window",
          "clear_callback", "clear_data", "release", "released"}
NotifyPC == {"none", "take_callback", "take_data", "deliver", "callback",
             "set_bound", "drop_callback", "drop_data", "done"}

SrcInit ==
  /\ src_state = "none"
  /\ capture_callback = None /\ capture_data = None /\ fmt = None
  /\ frame_times = "null" /\ windows = 0
  /\ apc = "idle" /\ client = None
  /\ npc = "none" /\ cap_callback = None /\ cap_data = None /\ error_status = FALSE

-----------------------------------------------------------------------------
(* The application's calls.  A call that is refused (bad state, bad user    *)
(* data) changes nothing and is not a step.                                 *)

SrcAcquire ==
  /\ apc = "idle" /\ src_state = "none"
  /\ src_state' = "src_acquired"
  /\ UNCHANGED <<capture_callback, capture_data, fmt, frame_times, windows, apiVars,
                 notifyVars>>

\* Altered form, for NotifyKeepsContext and FrameIsUndisturbed: a bind is accepted while capturing.
FormatBind_unguarded ==
  /\ apc = "idle" /\ src_state # "none"
  /\ fmt' \in Formats
  /\ src_state' \in {src_state, "src_bound"}
  /\ UNCHANGED <<capture_callback, capture_data, frame_times, windows, apiVars, notifyVars>>

\* Refused while capturing.  A bind may fail after it has replaced formats and
\* buffers, and then src_state stays what it was.
FormatBind ==
  /\ apc = "idle" /\ src_state \in {"src_acquired", "src_bound"}
  /\ fmt' \in Formats
  /\ src_state' \in {src_state, "src_bound"}
  /\ UNCHANGED <<capture_callback, capture_data, frame_times, windows, apiVars, notifyVars>>

\* vidcap_src_capture_start, lines 590-645: the old window pointer is dropped
\* and a new window created; without memory the call returns -2.
CaptureStart(c) ==
  /\ apc = "idle" /\ src_state = "src_bound"
  /\ client' = c
  /\ \/ frame_times' = "live" /\ windows' = windows + 1 /\ apc' = "register_callback"
     \/ frame_times' = "null" /\ apc' = "idle" /\ UNCHANGED windows
  /\ UNCHANGED <<src_state, capture_callback, capture_data, fmt, notifyVars>>

RegisterCallback ==
  /\ apc = "register_callback"
  /\ capture_callback' = client
  /\ apc' = "register_data"
  /\ UNCHANGED <<src_state, capture_data, fmt, frame_times, windows, client, notifyVars>>

RegisterData ==
  /\ apc = "register_data"
  /\ capture_data' = client
  /\ apc' = "start_capture"
  /\ UNCHANGED <<src_state, capture_callback, fmt, frame_times, windows, client, notifyVars>>

\* Line 653: src_state is set once the backend's start_capture has returned.
CaptureStarted ==
  /\ apc = "started"
  /\ src_state' = "src_capturing"
  /\ apc' = "idle"
  /\ UNCHANGED <<capture_callback, capture_data, fmt, frame_times, windows, client, notifyVars>>

\* Altered form, for WindowsAccounted: the bail path keeps the window.
CaptureStartBail_leaky ==
  /\ apc = "start_failed"
  /\ capture_callback' = None /\ capture_data' = None
  /\ frame_times' = "null"
  /\ apc' = "idle"
  /\ UNCHANGED <<src_state, fmt, windows, client, notifyVars>>

\* Lines 656-679.
CaptureStartBail ==
  /\ apc = "start_failed"
  /\ capture_callback' = None /\ capture_data' = None
  /\ windows' = IF frame_times = "null" THEN windows ELSE windows - 1
  /\ frame_times' = "null"
  /\ apc' = "idle"
  /\ UNCHANGED <<src_state, fmt, client, notifyVars>>

CaptureStop ==
  /\ apc = "idle" /\ src_state = "src_capturing"
  /\ apc' = "stop_capture"
  /\ UNCHANGED <<ctxVars, client, notifyVars>>

\* Line 694, once the backend's stop_capture has returned, whatever it returned.
CaptureStopped ==
  /\ apc = "stopped"
  /\ src_state' = "src_bound"
  /\ apc' = "free_window"
  /\ UNCHANGED <<capture_callback, capture_data, fmt, frame_times, windows, client, notifyVars>>

\* Lines 715-716, and 717 in a step of its own.
FreeWindow ==
  /\ apc = "free_window"
  /\ IF frame_times = "null"
       THEN UNCHANGED <<frame_times, windows>>
       ELSE frame_times' = "dangling" /\ windows' = windows - 1
  /\ apc' = "clear_window"
  /\ UNCHANGED <<src_state, capture_callback, capture_data, fmt, client, notifyVars>>

\* Altered form, for TypeOK of modules SourceStateMachine and QtCapture: the
\* pointer to the freed window stays.
ClearWindow_forgotten ==
  /\ apc = "clear_window"
  /\ apc' = "clear_callback"
  /\ UNCHANGED <<ctxVars, client, notifyVars>>

ClearWindow ==
  /\ apc = "clear_window"
  /\ frame_times' = "null"
  /\ apc' = "clear_callback"
  /\ UNCHANGED <<src_state, capture_callback, capture_data, fmt, windows, client, notifyVars>>

ClearCallback ==
  /\ apc = "clear_callback"
  /\ capture_callback' = None
  /\ apc' = "clear_data"
  /\ UNCHANGED <<src_state, capture_data, fmt, frame_times, windows, client, notifyVars>>

ClearData ==
  /\ apc = "clear_data"
  /\ capture_data' = None
  /\ apc' = "idle"
  /\ UNCHANGED <<src_state, capture_callback, fmt, frame_times, windows, client, notifyVars>>

SrcRelease ==
  /\ apc = "idle" /\ src_state \in {"src_acquired", "src_bound"}
  /\ apc' = "release"
  /\ UNCHANGED <<ctxVars, client, notifyVars>>

\* Lines 412-424: what is left of the context is freed, and the context.
SrcFree ==
  /\ apc = "released"
  /\ src_state' = "none"
  /\ capture_callback' = None /\ capture_data' = None /\ fmt' = None
  /\ windows' = IF frame_times = "null" THEN windows ELSE windows - 1
  /\ frame_times' = "null"
  /\ apc' = "idle"
  /\ UNCHANGED <<client, notifyVars>>

\* The application decides to call; a call under way runs on.
ApiCall ==
  \/ SrcAcquire \/ FormatBind \/ CaptureStop \/ SrcRelease
  \/ \E c \in Clients : CaptureStart(c)

ApiStep ==
  \/ RegisterCallback \/ RegisterData \/ CaptureStarted \/ CaptureStartBail
  \/ CaptureStopped \/ FreeWindow \/ ClearWindow \/ ClearCallback \/ ClearData
  \/ SrcFree

-----------------------------------------------------------------------------
(* sapi_src_capture_notify, in the thread that captures.                    *)

\* The backend calls it with a frame (error FALSE) or an error status.
Notify(error) ==
  /\ npc = "none"
  /\ npc' = "take_callback"
  /\ error_status' = error
  /\ UNCHANGED <<ctxVars, apiVars, cap_callback, cap_data>>

TakeCallback ==
  /\ npc = "take_callback"
  /\ cap_callback' = capture_callback
  /\ npc' = "take_data"
  /\ UNCHANGED <<ctxVars, apiVars, cap_data, error_status>>

TakeData ==
  /\ npc = "take_data"
  /\ cap_data' = capture_data
  /\ npc' = "deliver"
  /\ UNCHANGED <<ctxVars, apiVars, cap_callback, error_status>>

\* Where the notification goes once the frame has been dealt with.
AfterDelivery == IF error_status THEN "set_bound" ELSE "done"

\* Lines 261-316: the frame rate is enforced with the window, which lets the
\* frame through or not (without a window: not), the frame is converted with
\* the bound formats and buffers, and the client is called if it is still there.
Deliver ==
  /\ npc = "deliver"
  /\ \E send_frame \in BOOLEAN :
       /\ send_frame => ~error_status /\ frame_times # "null"
       /\ npc' = IF (send_frame \/ error_status) /\ cap_callback # None /\ cap_data # None
                   THEN "callback" ELSE AfterDelivery
  /\ UNCHANGED <<ctxVars, apiVars, cap_callback, cap_data, error_status>>

CallbackReturns ==
  /\ npc = "callback"
  /\ npc' = AfterDelivery
  /\ UNCHANGED <<ctxVars, apiVars, cap_callback, cap_data, error_status>>

\* Lines 388-393, after an error: the capture thread ends the capture itself.
ErrorSetBound ==
  /\ npc = "set_bound"
  /\ src_state' = "src_bound"
  /\ npc' = "drop_callback"
  /\ UNCHANGED <<capture_callback, capture_data, fmt, frame_times, windows, apiVars,
                 cap_callback, cap_data, error_status>>

ErrorDropCallback ==
  /\ npc = "drop_callback"
  /\ capture_callback' = None
  /\ npc' = "drop_data"
  /\ UNCHANGED <<src_state, capture_data, fmt, frame_times, windows, apiVars,
                 cap_callback, cap_data, error_status>>

ErrorDropData ==
  /\ npc = "drop_data"
  /\ capture_data' = None
  /\ npc' = "done"
  /\ UNCHANGED <<src_state, capture_callback, fmt, frame_times, windows, apiVars,
                 cap_callback, cap_data, error_status>>

\* The call returns to the backend.
NotifyReturns ==
  /\ npc = "done"
  /\ npc' = "none"
  /\ UNCHANGED <<ctxVars, apiVars, cap_callback, cap_data, error_status>>

FrameStep == TakeCallback \/ TakeData \/ Deliver \/ CallbackReturns

ErrorStep == ErrorSetBound \/ ErrorDropCallback \/ ErrorDropData

-----------------------------------------------------------------------------
SrcTypeOK ==
  /\ src_state \in SrcStates
  /\ capture_callback \in Clients \cup {None}
  /\ capture_data \in Clients \cup {None}
  /\ fmt \in Formats \cup {None}
  /\ frame_times \in {"null", "live", "dangling"}
  /\ windows \in Nat
  /\ apc \in ApiPC /\ client \in Clients \cup {None}
  /\ npc \in NotifyPC
  /\ cap_callback \in Clients \cup {None} /\ cap_data \in Clients \cup {None}
  /\ error_status \in BOOLEAN

\* A notification is at work on the context.
Notifying == npc # "none"

\* Every sliding window allocated is the one the context points to: none is
\* lost when the pointer is overwritten (vidcap.c:598) and none freed twice.
WindowsAccounted == windows = IF frame_times = "live" THEN 1 ELSE 0

\* While the capture thread is inside sapi_src_capture_notify the application
\* thread frees or replaces nothing it works with: not the window, the formats
\* and buffers, the registration, nor the context itself.  (The note at
\* sapi.c:350 expects the registration to be cleared under it.)
NotifyKeepsContext ==
  [][Notifying => /\ UNCHANGED <<capture_callback, capture_data, fmt, frame_times, windows>>
                  /\ src_state' # "none"]_srcVars

\* While a frame is being delivered the application's thread takes away none of
\* what the delivery works with.
FrameNotifyKeepsContext ==
  [][Notifying /\ ~error_status =>
       /\ UNCHANGED <<capture_callback, capture_data, fmt, frame_times, windows>>
       /\ src_state' # "none"]_srcVars

\* The registration as CaptureContract sees it: complete when both of its
\* halves are in place.
Registration ==
  IF capture_callback = capture_data THEN capture_data ELSE None

Call == IF npc = "callback" THEN <<cap_callback, cap_data>> ELSE None

Contract == INSTANCE CaptureContract WITH registered <- Registration, call <- Call
=============================================================================
