------------------------------ MODULE QtCapture -----------------------------
(***************************************************************************)
(* Capturing with the QuickTime backend, src/sapi_qt.c and the sequence    *)
(* grabber of src/quicktime/sg_source.c: the capture thread that sets up   *)
(* recording and decompression and polls the grabber, its start and stop,  *)
(* composed with the shared source context (SourceContext).  QuickTime is  *)
(* external: any call may fail, and a poll delivers a frame or none.       *)
(*                                                                         *)
(* A capture that fails reports it and makes the source bound again before *)
(* its thread has finished, so the application can start another capture   *)
(* and forget that thread's handle.  old and onpc are the control points   *)
(* of the threads left that way: such a thread has still to clear the      *)
(* registration, which may be the next capture's by then, and to take down *)
(* session and recording.  Nothing joins it, and a release frees the       *)
(* context under it: what it does then is undefined.  Either it ends, or   *)
(* the process does; that the memory is another context's by then is left  *)
(* out.                                                                    *)
(***************************************************************************)
EXTENDS SourceContext

CONSTANTS
  MaxWindows,  \* bound: sliding windows allocated, a failed capture keeps one
  Left         \* bound: threads left of failed captures at the same time

ASSUME QtCaptureAssumption == MaxWindows \in Nat

VARIABLES
  capturing,       \* qt_src_ctx->capturing
  joining,         \* the application is in the vc_thread_join of source_capture_stop
  tpc,             \* control point of the capture thread the context knows
  old,             \* control points of those that have been replaced
  onpc,            \* and of what is left of their error notifications
  decomp_session,  \* qt_src_ctx->decomp_session is not null
  recording,       \* the grabber records: SGStartRecord without SGStop
  stranded         \* a capture gave up while recording since the source was acquired

qtVars == <<capturing, joining, tpc, old, onpc, decomp_session, recording, stranded>>
vars == <<srcVars, qtVars>>

ThreadPC == {"none", "begin", "session", "start", "setup", "loop", "poll", "frame", "failed",
             "bail", "takedown", "sg_stop", "exited"}

OldPC == {"none", "failed", "bail", "takedown", "sg_stop", "orphan", "fault"}
OldNotifyPC == {"none", "drop_callback", "drop_data", "done"}

Running == tpc \notin {"none", "exited"}

\* The threads that are left and still have their context.
LeftAtWork == {l \in Left : old[l] \in {"failed", "bail", "takedown", "sg_stop"}}

\* A thread has used a context that was freed, and the process did not survive.
Faulted == \E l \in Left : old[l] = "fault"

Init ==
  /\ SrcInit
  /\ capturing = FALSE /\ joining = FALSE /\ tpc = "none"
  /\ old = [l \in Left |-> "none"] /\ onpc = [l \in Left |-> "none"]
  /\ decomp_session = FALSE /\ recording = FALSE /\ stranded = FALSE

-----------------------------------------------------------------------------
(* In the application's thread.                                             *)

\* The thread of a capture that has failed is replaced, wherever it stands.
FreeSlots == {l \in Left : old[l] = "none"}
LeaveThread ==
  IF Running
    THEN /\ FreeSlots # {}
         /\ LET l == CHOOSE slot \in FreeSlots : TRUE
            IN  old' = [old EXCEPT ![l] = tpc] /\ onpc' = [onpc EXCEPT ![l] = npc]
    ELSE UNCHANGED <<old, onpc>>

\* The new thread has no notification under way.
SourceCaptureStart ==
  /\ apc = "start_capture"
  /\ capturing' = TRUE
  /\ \/ /\ tpc' = "begin" /\ apc' = "started" /\ LeaveThread
        /\ npc' = "none" /\ cap_callback' = None /\ cap_data' = None /\ error_status' = FALSE
     \/ apc' = "start_failed" /\ UNCHANGED <<tpc, old, onpc, notifyVars>>
  /\ UNCHANGED <<ctxVars, client, joining, decomp_session, recording, stranded>>

\* Called by vidcap_src_capture_stop, and by source_release while the flag is
\* set, as it is after a capture has failed.
SourceCaptureStop ==
  /\ ~joining
  /\ apc = "stop_capture" \/ (apc = "release" /\ capturing)
  /\ capturing' = FALSE /\ joining' = TRUE
  /\ UNCHANGED <<srcVars, tpc, old, onpc, decomp_session, recording, stranded>>

\* Altered form, for ContractSpec: stop does not wait for the thread.
SourceCaptureJoin_early ==
  /\ joining
  /\ joining' = FALSE
  /\ apc' = IF apc = "stop_capture" THEN "stopped" ELSE apc
  /\ UNCHANGED <<ctxVars, client, notifyVars, capturing, tpc, old, onpc, decomp_session,
                 recording, stranded>>

\* Where no thread was created the join fails at once.
SourceCaptureJoin ==
  /\ joining /\ ~Running
  /\ joining' = FALSE /\ tpc' = "none"
  /\ apc' = IF apc = "stop_capture" THEN "stopped" ELSE apc
  /\ UNCHANGED <<ctxVars, client, notifyVars, capturing, old, onpc, decomp_session, recording,
                 stranded>>

\* Threads that are left lose the context they work on.
Orphan ==
  /\ old' = [l \in Left |-> IF old[l] = "none" THEN "none" ELSE "orphan"]
  /\ onpc' = [l \in Left |-> "none"]

\* Altered form, for ReleasedIsQuiet: a release does not stop the capture.
SourceRelease_running ==
  /\ apc = "release" /\ ~joining
  /\ Orphan
  /\ decomp_session' = FALSE /\ recording' = FALSE /\ stranded' = FALSE
  /\ apc' = "released"
  /\ UNCHANGED <<ctxVars, client, notifyVars, capturing, joining, tpc>>

\* sg_source_release disposes of the channel and closes the grabber, and the
\* backend's part of the context is freed.
SourceRelease ==
  /\ apc = "release" /\ ~joining /\ ~capturing
  /\ Orphan
  /\ decomp_session' = FALSE /\ recording' = FALSE /\ stranded' = FALSE
  /\ apc' = "released"
  /\ UNCHANGED <<ctxVars, client, notifyVars, capturing, joining, tpc>>

-----------------------------------------------------------------------------
(* capture_thread_proc.                                                     *)

\* An error before the loop is reported, and the thread will return at once.
ThreadFails ==
  /\ Notify(TRUE)
  /\ tpc' = "failed"

\* The pixel format has no QuickTime constant, or the grabber refuses it.
ThreadBegin ==
  /\ tpc = "begin"
  /\ (tpc' = "session" /\ UNCHANGED srcVars) \/ ThreadFails
  /\ UNCHANGED <<capturing, joining, old, onpc, decomp_session, recording, stranded>>

\* Altered form, for DecodeHasSession: a session in place is not noticed.
ThreadSession_unchecked ==
  /\ tpc = "session"
  /\ tpc' = "start"
  /\ UNCHANGED <<srcVars, capturing, joining, old, onpc, decomp_session, recording, stranded>>

\* "decomp session already setup".
ThreadSession ==
  /\ tpc = "session"
  /\ IF decomp_session THEN ThreadFails ELSE tpc' = "start" /\ UNCHANGED srcVars
  /\ UNCHANGED <<capturing, joining, old, onpc, decomp_session, recording, stranded>>

\* sg_source_capture_start fails before or after SGStartRecord.
ThreadStart ==
  /\ tpc = "start"
  /\ \/ tpc' = "setup" /\ recording' = TRUE /\ UNCHANGED <<srcVars, stranded>>
     \/ /\ ThreadFails
        /\ recording' \in {recording, TRUE} /\ stranded' = (stranded \/ recording')
  /\ UNCHANGED <<capturing, joining, old, onpc, decomp_session>>

\* source_decomp_session_setup.  Where it fails the grabber goes on recording.
ThreadSetup ==
  /\ tpc = "setup"
  /\ \/ tpc' = "loop" /\ decomp_session' = TRUE /\ UNCHANGED <<srcVars, stranded>>
     \/ ThreadFails /\ stranded' = TRUE /\ UNCHANGED decomp_session
  /\ UNCHANGED <<capturing, joining, old, onpc, recording>>

\* Altered form, for StopReturns: the flag is not looked at again.
ThreadLoop_deaf ==
  /\ tpc = "loop"
  /\ tpc' = "poll"
  /\ UNCHANGED <<srcVars, capturing, joining, old, onpc, decomp_session, recording, stranded>>

\* Altered form, for NothingLeftRecording: the thread returns from its loop.
ThreadLoop_leaves ==
  /\ tpc = "loop"
  /\ tpc' = IF capturing THEN "poll" ELSE "exited"
  /\ UNCHANGED <<srcVars, capturing, joining, old, onpc, decomp_session, recording, stranded>>

ThreadLoop ==
  /\ tpc = "loop"
  /\ tpc' = IF capturing THEN "poll" ELSE "takedown"
  /\ UNCHANGED <<srcVars, capturing, joining, old, onpc, decomp_session, recording, stranded>>

\* SGIdle calls source_capture_callback, which decodes a frame, and the session
\* calls source_decomp_callback: all within the poll.
ThreadFrame ==
  /\ tpc = "poll"
  /\ Notify(FALSE)
  /\ tpc' = "frame"
  /\ UNCHANGED <<capturing, joining, old, onpc, decomp_session, recording, stranded>>

\* There is no frame, or it could not be decoded; the thread sleeps.
ThreadSleep ==
  /\ tpc = "poll"
  /\ tpc' = "loop"
  /\ UNCHANGED <<srcVars, capturing, joining, old, onpc, decomp_session, recording, stranded>>

\* SGIdle fails or the device is gone, or a signal ends the sleep.
ThreadPollFails ==
  /\ tpc = "poll"
  /\ Notify(TRUE)
  /\ tpc' = "bail"
  /\ UNCHANGED <<capturing, joining, old, onpc, decomp_session, recording, stranded>>

AfterNotify == [frame |-> "loop", failed |-> "exited", bail |-> "takedown"]

ThreadNotified ==
  /\ tpc \in DOMAIN AfterNotify
  /\ NotifyReturns
  /\ tpc' = AfterNotify[tpc]
  /\ UNCHANGED <<capturing, joining, old, onpc, decomp_session, recording, stranded>>

\* source_decomp_session_takedown and sg_source_capture_stop, for the thread
\* that stands at pc; what SGStop cannot stop goes on recording.
EndCapture(pc, next) ==
  \/ /\ pc = "takedown" /\ next = "sg_stop"
     /\ decomp_session' = FALSE
     /\ UNCHANGED <<recording, stranded>>
  \/ /\ pc = "sg_stop" /\ next = "exited"
     /\ \/ recording' = FALSE /\ UNCHANGED stranded
        \/ stranded' = TRUE /\ UNCHANGED recording
     /\ UNCHANGED decomp_session

ThreadEnds ==
  /\ tpc' \in {"sg_stop", "exited"} /\ EndCapture(tpc, tpc')
  /\ UNCHANGED <<srcVars, capturing, joining, old, onpc>>

-----------------------------------------------------------------------------
(* A thread that has been replaced goes on in its notification, past        *)
(* ErrorSetBound, and then to its end.                                      *)

OldDropCallback(l) ==
  /\ onpc[l] = "drop_callback"
  /\ capture_callback' = None
  /\ onpc' = [onpc EXCEPT ![l] = "drop_data"]
  /\ UNCHANGED <<src_state, capture_data, fmt, frame_times, windows, apiVars, notifyVars,
                 capturing, joining, tpc, old, decomp_session, recording, stranded>>

OldDropData(l) ==
  /\ onpc[l] = "drop_data"
  /\ capture_data' = None
  /\ onpc' = [onpc EXCEPT ![l] = "done"]
  /\ UNCHANGED <<src_state, capture_callback, fmt, frame_times, windows, apiVars, notifyVars,
                 capturing, joining, tpc, old, decomp_session, recording, stranded>>

OldNotified(l) ==
  /\ onpc[l] = "done"
  /\ onpc' = [onpc EXCEPT ![l] = "none"]
  /\ old' = [old EXCEPT ![l] = IF old[l] = "failed" THEN "none" ELSE "takedown"]
  /\ UNCHANGED <<srcVars, capturing, joining, tpc, decomp_session, recording, stranded>>

OldThreadEnds(l) ==
  /\ \E next \in {"sg_stop", "exited"} :
       /\ EndCapture(old[l], next)
       /\ old' = [old EXCEPT ![l] = IF next = "exited" THEN "none" ELSE next]
  /\ UNCHANGED <<srcVars, capturing, joining, tpc, onpc>>

\* Its context was freed.  It may still reach the grabber, which is the next
\* context's if that was acquired meanwhile.
OrphanEnds(l) ==
  /\ old[l] = "orphan"
  /\ \E end \in {"none", "fault"} : old' = [old EXCEPT ![l] = end]
  /\ recording' \in {recording, FALSE}
  /\ UNCHANGED <<srcVars, capturing, joining, tpc, onpc, decomp_session, stranded>>

-----------------------------------------------------------------------------
ApiBegins ==
  /\ SrcAcquire \/ FormatBind \/ CaptureStop \/ SrcRelease
     \/ \E c \in Clients : windows < MaxWindows /\ CaptureStart(c)
  /\ UNCHANGED qtVars

AppStep ==
  \/ ApiStep /\ UNCHANGED qtVars
  \/ SourceCaptureStart \/ SourceCaptureStop \/ SourceCaptureJoin \/ SourceRelease

ThreadStep ==
  \/ ThreadBegin \/ ThreadSession \/ ThreadStart \/ ThreadSetup \/ ThreadLoop
  \/ ThreadFrame \/ ThreadSleep \/ ThreadPollFails \/ ThreadNotified \/ ThreadEnds

CaptureThread == ThreadStep \/ ((FrameStep \/ ErrorStep) /\ UNCHANGED qtVars)

OldThread(l) ==
  OldDropCallback(l) \/ OldDropData(l) \/ OldNotified(l) \/ OldThreadEnds(l) \/ OrphanEnds(l)

Next ==
  /\ ~Faulted
  /\ ApiBegins \/ AppStep \/ CaptureThread \/ \E l \in Left : OldThread(l)

Spec == Init /\ [][Next]_vars

(* A call that has begun runs on, every thread is scheduled, and the        *)
(* application's callback returns.                                          *)
FairSpec ==
  /\ Spec
  /\ WF_vars(~Faulted /\ AppStep) /\ WF_vars(~Faulted /\ CaptureThread)
  /\ \A l \in Left : WF_vars(~Faulted /\ OldThread(l))

-----------------------------------------------------------------------------
TypeOK ==
  /\ SrcTypeOK
  /\ windows <= MaxWindows
  /\ capturing \in BOOLEAN /\ joining \in BOOLEAN
  /\ tpc \in ThreadPC /\ old \in [Left -> OldPC] /\ onpc \in [Left -> OldNotifyPC]
  /\ decomp_session \in BOOLEAN /\ recording \in BOOLEAN /\ stranded \in BOOLEAN

\* A poll, which may hand a frame to the decompression session, finds the
\* session in place, even while the thread of an earlier capture is still taking
\* its own session down (sapi_qt.c:444).
DecodeHasSession == tpc \in {"poll", "frame"} => decomp_session

\* Once no capture thread is left the grabber does not record and there is no
\* session, unless a capture gave up while recording or SGStop failed.
NothingLeftRecording ==
  ~Running /\ LeftAtWork = {} /\ ~stranded => ~recording /\ ~decomp_session

\* The context is freed only when the thread it knows has been joined, also
\* after a capture that ended by an error and was never stopped.  It is not said
\* of a thread that has been replaced, which nothing joins.
ReleasedIsQuiet == src_state = "none" => ~Running

\* While a frame is being delivered nothing takes away or replaces what the
\* delivery works with; only the registration, which it has read or finds
\* missing, may be cleared, by the error notification of an earlier capture's
\* thread that is still at it (sapi.c:388-392).
FrameIsUndisturbed ==
  [][Notifying /\ ~error_status =>
       /\ UNCHANGED <<fmt, frame_times, windows>> /\ src_state' # "none"
       /\ UNCHANGED <<capture_callback, capture_data>> \/ onpc' # onpc]_vars

\* A stop and a release return, if the process does not fault.
StopReturns == apc \in {"stop_capture", "release"} ~> apc = "idle" \/ Faulted

\* The client of the capture under way, as the application has it: from the call
\* of start_capture until the capture has ended by a stop or an error.
CapturedFor ==
  IF apc \in {"start_capture", "started"} \/ src_state = "src_capturing" THEN client ELSE None

\* The QuickTime backend calls nobody but the client of the capture under way,
\* with its own pair, and no call outlasts the capture, although an earlier
\* capture's thread may clear the registration it is reading.
CaptureOf == INSTANCE CaptureContract WITH registered <- CapturedFor, call <- Call
ContractSpec == CaptureOf!Spec
=============================================================================
