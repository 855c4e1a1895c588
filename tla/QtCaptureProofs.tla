--------------------------- MODULE QtCaptureProofs ---------------------------
(***************************************************************************)
(* Proofs about QtCapture for every set of clients and formats and any     *)
(* number of threads left of failed captures.                              *)
(*                                                                         *)
(* The argument is, as for V4L, that the source context has one owner at a *)
(* time, but a capture that fails gives it back by itself: a thread works  *)
(* on the context until its error notification has made the source bound   *)
(* again, and while it works the application's thread is between           *)
(* start_capture and the join.  A thread that is left can only take the    *)
(* registration away, half by half, and what it has still to do to session *)
(* and grabber is told from what a new thread does by who has the          *)
(* decompression session.  At the end, how a capture ends: reported, or by *)
(* a stop, which waits for one round of the thread.                        *)
(***************************************************************************)
EXTENDS QtCapture, SourceContextProofs, TLAPS

\* The thread works on the context.
Works ==
  \/ tpc \in {"begin", "session", "start", "setup", "loop", "poll", "frame"}
  \/ /\ tpc \in {"failed", "bail"}
     /\ npc \in {"take_callback", "take_data", "deliver", "callback", "set_bound"}

\* Past the registration in vidcap_src_capture_start.
Registered == apc \in {"start_capture", "started", "start_failed"}

ApiInv ==
  /\ src_state = "src_capturing" => apc \in {"idle", "stop_capture", "stopped"}
  /\ apc \in {"stop_capture", "stopped"} => src_state \in {"src_capturing", "src_bound"}
  /\ Registered \/ apc \in {"register_callback", "register_data", "free_window",
                            "clear_window", "clear_callback", "clear_data"}
       => src_state = "src_bound"
  /\ apc \in {"release", "released"} => src_state \in {"src_acquired", "src_bound"}
  /\ frame_times = "dangling" => apc = "clear_window"
  /\ frame_times = "live" => windows # 0

\* Where the application's thread is while a thread works; and what it must have
\* waited for.
WorkInv ==
  /\ Works => \/ apc = "started"
              \/ src_state = "src_capturing" /\ apc \in {"idle", "stop_capture"}
  /\ Notifying <=> tpc \in {"frame", "failed", "bail"}
  /\ Notifying => (error_status <=> tpc # "frame")
  /\ npc \in {"set_bound", "drop_callback", "drop_data"} => error_status

JoinInv ==
  /\ joining => apc \in {"stop_capture", "release"} /\ ~capturing
  /\ ~capturing /\ ~joining => tpc = "none"
  /\ src_state = "none" \/ apc = "released" => ~capturing /\ ~joining /\ tpc = "none"

\* The registration is the client's or lost to an earlier error, and what a
\* notification has not found of it does not come back.
RegistrationInv ==
  /\ Works \/ Registered =>
       /\ client \in Clients
       /\ capture_callback \in {client, None} /\ capture_data \in {client, None}
  /\ apc \in {"register_callback", "register_data"} => client \in Clients
  /\ apc = "register_data" => capture_callback \in {client, None}
  /\ Works /\ npc \in {"take_data", "deliver", "callback"} =>
       cap_callback = client \/ (cap_callback = None /\ capture_callback = None)
  /\ Works /\ npc \in {"deliver", "callback"} =>
       cap_data = client \/ (cap_data = None /\ capture_data = None)
  /\ npc = "callback" => cap_callback # None /\ cap_data # None

SrcInv == SrcTypeOK /\ ApiInv /\ RegistrationInv

QtTypeOK ==
  /\ windows <= MaxWindows
  /\ capturing \in BOOLEAN /\ joining \in BOOLEAN
  /\ tpc \in ThreadPC
  /\ decomp_session \in BOOLEAN /\ recording \in BOOLEAN /\ stranded \in BOOLEAN

\* Threads that are left: those with a notification to finish are the ones that
\* have failed.
LeftInv ==
  /\ old \in [Left -> OldPC] /\ onpc \in [Left -> OldNotifyPC]
  /\ \A l \in Left : onpc[l] # "none" <=> old[l] \in {"failed", "bail"}

Holders == {l \in Left : old[l] \in {"bail", "takedown"}}
Recorders == {l \in Left : old[l] \in {"bail", "takedown", "sg_stop"}}

\* Whose the decompression session is, and who has still to stop the grabber.
SessionInv ==
  /\ decomp_session <=>
       Holders # {} \/ tpc \in {"loop", "poll", "frame", "bail", "takedown"}
  /\ Holders # {} => tpc \in {"none", "begin", "session", "failed", "exited"}
  /\ \A l, m \in Holders : l = m
  /\ ~stranded /\ recording =>
       \/ Recorders # {}
       \/ tpc \in {"setup", "loop", "poll", "frame", "bail", "takedown", "sg_stop"}

OwnerInv == SrcInv /\ QtTypeOK /\ WorkInv /\ JoinInv

-----------------------------------------------------------------------------
LEMMA InitOwner == Init => OwnerInv /\ LeftInv /\ SessionInv
<1> SUFFICES ASSUME Init PROVE OwnerInv /\ LeftInv /\ SessionInv
  OBVIOUS
<1>1. SrcInv
  BY DEF SrcInv, SrcTypeOK, ApiInv, RegistrationInv, Works, Registered, Init, SrcInit,
         SrcStates, ApiPC, NotifyPC
<1>2. QtTypeOK
  <2>1. windows = 0 /\ windows <= MaxWindows
    BY QtCaptureAssumption DEF Init, SrcInit
  <2> QED BY <2>1 DEF QtTypeOK, Init, ThreadPC
<1>3. WorkInv /\ JoinInv
  BY DEF WorkInv, JoinInv, Works, Notifying, Init, SrcInit
<1>4. LeftInv
  BY DEF LeftInv, OldPC, OldNotifyPC, Init
<1>5. Holders = {} /\ Recorders = {}
  BY DEF Init, Holders, Recorders
<1>6. SessionInv
  BY <1>5 DEF SessionInv, Init
<1> QED BY <1>1, <1>2, <1>3, <1>4, <1>6 DEF OwnerInv

\* A call of the application keeps the invariant.
LEMMA ApiCallKeepsOwner ==
  ASSUME OwnerInv, ApiBegins
  PROVE  OwnerInv'
<1> USE QtCaptureAssumption
    DEF OwnerInv, SrcInv, SrcTypeOK, QtTypeOK, ApiInv, WorkInv, JoinInv, RegistrationInv, Works,
        Registered, Notifying, SrcStates, ApiPC, NotifyPC, qtVars, ThreadPC, apiVars,
        notifyVars
<1>0. UNCHANGED qtVars
  BY DEF ApiBegins
<1>1. CASE SrcAcquire
  BY <1>0, <1>1 DEF SrcAcquire
<1>2. CASE FormatBind
  BY <1>0, <1>2 DEF FormatBind
<1>3. CASE CaptureStop
  BY <1>0, <1>3 DEF CaptureStop, ctxVars
<1>4. CASE SrcRelease
  BY <1>0, <1>4 DEF SrcRelease, ctxVars
<1>5. ASSUME NEW c \in Clients, windows < MaxWindows, CaptureStart(c) PROVE OwnerInv'
  BY <1>0, <1>5 DEF CaptureStart
<1> QED BY <1>1, <1>2, <1>3, <1>4, <1>5 DEF ApiBegins

\* So does a step of a call under way.
LEMMA ApiStepKeepsOwner ==
  ASSUME OwnerInv, ApiStep, UNCHANGED qtVars
  PROVE  OwnerInv'
<1> USE SourceContextAssumption
    DEF OwnerInv, SrcInv, SrcTypeOK, QtTypeOK, ApiInv, WorkInv, JoinInv, RegistrationInv, Works,
        Registered, Notifying, SrcStates, ApiPC, NotifyPC, qtVars, ThreadPC, notifyVars
<1>0. MaxWindows \in Nat
  BY QtCaptureAssumption
<1>1. CASE RegisterCallback
  BY <1>1 DEF RegisterCallback
<1>2. CASE RegisterData
  BY <1>2 DEF RegisterData
<1>3. CASE CaptureStarted
  BY <1>3 DEF CaptureStarted
<1>4. CASE CaptureStartBail
  BY <1>0, <1>4 DEF CaptureStartBail
<1>5. CASE CaptureStopped
  BY <1>5 DEF CaptureStopped
<1>6. CASE FreeWindow
  BY <1>0, <1>6 DEF FreeWindow
<1>7. CASE ClearWindow
  BY <1>7 DEF ClearWindow
<1>8. CASE ClearCallback \/ ClearData
  BY <1>8 DEF ClearCallback, ClearData
<1>9. CASE SrcFree
  BY <1>0, <1>9 DEF SrcFree
<1> QED
  BY <1>1, <1>2, <1>3, <1>4, <1>5, <1>6, <1>7, <1>8, <1>9 DEF ApiStep

BackendStep ==
  SourceCaptureStart \/ SourceCaptureStop \/ SourceCaptureJoin \/ SourceRelease

\* So does the backend, called by the application's thread.
LEMMA BackendKeepsOwner ==
  ASSUME OwnerInv, BackendStep
  PROVE  OwnerInv'
<1> USE DEF OwnerInv, SrcInv, SrcTypeOK, QtTypeOK, ApiInv, WorkInv, JoinInv, RegistrationInv, Works,
            Registered, Notifying, SrcStates, ApiPC, NotifyPC, ThreadPC
<1>1. CASE SourceCaptureStart
  <2> USE <1>1 DEF SourceCaptureStart, ctxVars, notifyVars
  <2>1. SrcInv'
    OBVIOUS
  <2>2. QtTypeOK'
    OBVIOUS
  <2>3. WorkInv'
    OBVIOUS
  <2>4. JoinInv'
    OBVIOUS
  <2> QED BY <2>1, <2>2, <2>3, <2>4
<1>2. CASE SourceCaptureStop
  <2> USE <1>2 DEF SourceCaptureStop, srcVars, ctxVars, apiVars, notifyVars
  <2>1. SrcInv'
    OBVIOUS
  <2>2. QtTypeOK'
    OBVIOUS
  <2>3. WorkInv'
    OBVIOUS
  <2>4. JoinInv'
    OBVIOUS
  <2> QED BY <2>1, <2>2, <2>3, <2>4
<1>3. CASE SourceCaptureJoin
  <2> USE <1>3 DEF SourceCaptureJoin, ctxVars, notifyVars, Running
  <2>1. SrcInv'
    OBVIOUS
  <2>2. QtTypeOK'
    OBVIOUS
  <2>3. WorkInv'
    OBVIOUS
  <2>4. JoinInv'
    OBVIOUS
  <2> QED BY <2>1, <2>2, <2>3, <2>4
<1>4. CASE SourceRelease
  <2> USE <1>4 DEF SourceRelease, ctxVars, notifyVars
  <2>1. SrcInv'
    OBVIOUS
  <2>2. QtTypeOK'
    OBVIOUS
  <2>3. WorkInv'
    OBVIOUS
  <2>4. JoinInv'
    OBVIOUS
  <2> QED BY <2>1, <2>2, <2>3, <2>4
<1> QED BY <1>1, <1>2, <1>3, <1>4 DEF BackendStep

\* So do the capture thread's own steps ...
LEMMA ThreadKeepsOwner ==
  ASSUME OwnerInv, ThreadStep
  PROVE  OwnerInv'
<1> USE DEF OwnerInv, SrcInv, SrcTypeOK, QtTypeOK, ApiInv, WorkInv, JoinInv, RegistrationInv, Works,
            Registered, Notifying, NotifyPC, ThreadPC
<1>1. CASE ThreadBegin
  <2> USE <1>1 DEF ThreadBegin, ThreadFails, Notify, srcVars, ctxVars, apiVars, notifyVars
  <2>1. SrcInv'
    OBVIOUS
  <2>2. QtTypeOK'
    OBVIOUS
  <2>3. WorkInv'
    OBVIOUS
  <2>4. JoinInv'
    OBVIOUS
  <2> QED BY <2>1, <2>2, <2>3, <2>4
<1>2. CASE ThreadSession
  <2> USE <1>2 DEF ThreadSession, ThreadFails, Notify, srcVars, ctxVars, apiVars, notifyVars
  <2>1. SrcInv'
    OBVIOUS
  <2>2. QtTypeOK'
    OBVIOUS
  <2>3. WorkInv'
    OBVIOUS
  <2>4. JoinInv'
    OBVIOUS
  <2> QED BY <2>1, <2>2, <2>3, <2>4
<1>3. CASE ThreadStart
  <2> USE <1>3 DEF ThreadStart, ThreadFails, Notify, srcVars, ctxVars, apiVars, notifyVars
  <2>1. SrcInv'
    OBVIOUS
  <2>2. QtTypeOK'
    OBVIOUS
  <2>3. WorkInv'
    OBVIOUS
  <2>4. JoinInv'
    OBVIOUS
  <2> QED BY <2>1, <2>2, <2>3, <2>4
<1>4. CASE ThreadSetup
  <2> USE <1>4 DEF ThreadSetup, ThreadFails, Notify, srcVars, ctxVars, apiVars, notifyVars
  <2>1. SrcInv'
    OBVIOUS
  <2>2. QtTypeOK'
    OBVIOUS
  <2>3. WorkInv'
    OBVIOUS
  <2>4. JoinInv'
    OBVIOUS
  <2> QED BY <2>1, <2>2, <2>3, <2>4
<1>5. CASE ThreadLoop \/ ThreadSleep
  BY <1>5 DEF ThreadLoop, ThreadSleep, srcVars, ctxVars, apiVars, notifyVars
<1>6. CASE ThreadFrame \/ ThreadPollFails
  <2> USE <1>6 DEF ThreadFrame, ThreadPollFails, Notify, ctxVars, apiVars
  <2>1. SrcInv'
    OBVIOUS
  <2>2. QtTypeOK'
    OBVIOUS
  <2>3. WorkInv'
    OBVIOUS
  <2>4. JoinInv'
    OBVIOUS
  <2> QED BY <2>1, <2>2, <2>3, <2>4
<1>7. CASE ThreadNotified
  BY <1>7 DEF ThreadNotified, AfterNotify, NotifyReturns, ctxVars, apiVars
<1>8. CASE ThreadEnds
  <2> USE <1>8 DEF ThreadEnds, EndCapture, srcVars, ctxVars, apiVars, notifyVars
  <2>1. SrcInv'
    OBVIOUS
  <2>2. QtTypeOK'
    OBVIOUS
  <2>3. WorkInv'
    OBVIOUS
  <2>4. JoinInv'
    OBVIOUS
  <2> QED BY <2>1, <2>2, <2>3, <2>4
<1> QED BY <1>1, <1>2, <1>3, <1>4, <1>5, <1>6, <1>7, <1>8 DEF ThreadStep

\* ... its notifications ...
LEMMA FrameKeepsOwner ==
  ASSUME OwnerInv, FrameStep, UNCHANGED qtVars
  PROVE  OwnerInv'
<1> USE DEF qtVars, ctxVars, apiVars, OwnerInv, SrcInv, SrcTypeOK, QtTypeOK, ApiInv, WorkInv, JoinInv,
            RegistrationInv, Works, Registered, Notifying, NotifyPC
<1>1. CASE TakeCallback
  BY <1>1 DEF TakeCallback
<1>2. CASE TakeData
  BY <1>2 DEF TakeData
<1>3. CASE Deliver
  BY <1>3 DEF Deliver, AfterDelivery
<1>4. CASE CallbackReturns
  BY <1>4 DEF CallbackReturns, AfterDelivery
<1> QED BY <1>1, <1>2, <1>3, <1>4 DEF FrameStep

LEMMA ErrorKeepsOwner ==
  ASSUME OwnerInv, ErrorStep, UNCHANGED qtVars
  PROVE  OwnerInv'
<1> USE DEF qtVars, ctxVars, apiVars, OwnerInv, SrcInv, SrcTypeOK, QtTypeOK, ApiInv, WorkInv, JoinInv,
            RegistrationInv, Works, Registered, Notifying, NotifyPC, SrcStates
<1>1. CASE ErrorSetBound
  BY <1>1 DEF ErrorSetBound
<1>2. CASE ErrorDropCallback
  BY <1>2 DEF ErrorDropCallback
<1>3. CASE ErrorDropData
  BY <1>3 DEF ErrorDropData
<1> QED BY <1>1, <1>2, <1>3 DEF ErrorStep

\* ... and the steps of a thread that has been replaced, which takes away a half
\* of the registration or touches nothing of the context.
OldDrops == \E l \in Left : OldDropCallback(l) \/ OldDropData(l)
OldLeaves == \E l \in Left : OldNotified(l) \/ OldThreadEnds(l) \/ OrphanEnds(l)

LEMMA OldKeepsOwner ==
  ASSUME OwnerInv, OldDrops \/ OldLeaves \/ UNCHANGED vars
  PROVE  OwnerInv'
<1> USE DEF OwnerInv
<1>1. CASE OldDrops
  <2> USE <1>1 DEF OldDrops, OldDropCallback, OldDropData, apiVars, notifyVars
  <2>1. SrcInv'
    BY DEF SrcInv, SrcTypeOK, ApiInv, RegistrationInv, Works, Registered
  <2>2. QtTypeOK'
    BY DEF QtTypeOK
  <2>3. WorkInv' /\ JoinInv'
    BY DEF WorkInv, JoinInv, Works, Notifying
  <2> QED BY <2>1, <2>2, <2>3
<1>2. CASE OldLeaves \/ UNCHANGED vars
  <2>1. UNCHANGED srcVars /\ UNCHANGED <<capturing, joining, tpc>>
    BY <1>2 DEF OldLeaves, OldNotified, OldThreadEnds, OrphanEnds, vars, qtVars
  <2> USE <2>1 DEF srcVars, ctxVars, apiVars, notifyVars
  <2>2. SrcInv'
    BY DEF SrcInv, SrcTypeOK, ApiInv, RegistrationInv, Works, Registered
  <2>3. (decomp_session \in BOOLEAN /\ recording \in BOOLEAN /\ stranded \in BOOLEAN)'
    BY <1>2 DEF QtTypeOK, OldLeaves, OldNotified, OldThreadEnds, EndCapture, OrphanEnds, vars,
                qtVars
  <2>4. QtTypeOK'
    BY <2>3 DEF QtTypeOK
  <2>5. WorkInv' /\ JoinInv'
    BY DEF WorkInv, JoinInv, Works, Notifying
  <2> QED BY <2>2, <2>4, <2>5
<1> QED BY <1>1, <1>2

\* Every step, by who takes it.
LEMMA StepsOf ==
  ASSUME [Next]_vars
  PROVE  \/ ApiBegins \/ (ApiStep /\ UNCHANGED qtVars) \/ BackendStep
         \/ ThreadStep \/ (FrameStep /\ UNCHANGED qtVars) \/ (ErrorStep /\ UNCHANGED qtVars)
         \/ OldDrops \/ OldLeaves \/ UNCHANGED vars
BY DEF Next, AppStep, BackendStep, CaptureThread, OldThread, OldDrops, OldLeaves

LEMMA NextKeepsOwner ==
  ASSUME OwnerInv, [Next]_vars
  PROVE  OwnerInv'
BY StepsOf, ApiCallKeepsOwner, ApiStepKeepsOwner, BackendKeepsOwner, ThreadKeepsOwner,
   FrameKeepsOwner, ErrorKeepsOwner, OldKeepsOwner

LEMMA OwnerCorrect == Spec => []OwnerInv
BY InitOwner, NextKeepsOwner, PTL DEF Spec

-----------------------------------------------------------------------------
(* The threads that are left.                                               *)

\* A thread that is replaced has made the source bound again: it has no more to
\* do than the rest of its notification and its last two steps.
LEMMA ReplacedIsPast ==
  ASSUME OwnerInv, SourceCaptureStart, Running
  PROVE  \/ tpc \in {"takedown", "sg_stop"} /\ npc = "none"
         \/ tpc \in {"failed", "bail"} /\ npc \in {"drop_callback", "drop_data", "done"}
<1>1. ~Works /\ tpc \in ThreadPC /\ npc \in NotifyPC /\ (Notifying <=> tpc \in {"frame", "failed", "bail"})
  BY DEF OwnerInv, WorkInv, SrcInv, SrcTypeOK, QtTypeOK, ApiInv, SourceCaptureStart
<1> QED BY <1>1 DEF Works, Notifying, Running, ThreadPC, NotifyPC

\* It gets a slot of its own.
LEMMA ReplacedIsKept ==
  ASSUME LeaveThread, Running
  PROVE  \E l \in Left :
           /\ old[l] = "none"
           /\ old' = [old EXCEPT ![l] = tpc] /\ onpc' = [onpc EXCEPT ![l] = npc]
<1> DEFINE slot == CHOOSE k \in FreeSlots : TRUE
<1>1. FreeSlots # {} /\ old' = [old EXCEPT ![slot] = tpc] /\ onpc' = [onpc EXCEPT ![slot] = npc]
  BY DEF LeaveThread
<1>2. slot \in FreeSlots
  BY <1>1
<1> QED BY <1>1, <1>2 DEF FreeSlots

LEMMA LeftCorrect == Spec => []LeftInv
<1>1. OwnerInv /\ LeftInv /\ [Next]_vars => LeftInv'
  <2> SUFFICES ASSUME OwnerInv, LeftInv, [Next]_vars PROVE LeftInv'
    OBVIOUS
  <2> USE DEF LeftInv, OldPC, OldNotifyPC
  <2>1. CASE UNCHANGED <<old, onpc>>
    BY <2>1
  <2>2. CASE SourceCaptureStart /\ ~UNCHANGED <<old, onpc>>
    <3>1. LeaveThread /\ Running
      BY <2>2 DEF SourceCaptureStart, LeaveThread
    <3>2. PICK l \in Left :
            /\ old[l] = "none"
            /\ old' = [old EXCEPT ![l] = tpc] /\ onpc' = [onpc EXCEPT ![l] = npc]
      BY <3>1, ReplacedIsKept
    <3>3. \/ tpc \in {"takedown", "sg_stop"} /\ npc = "none"
          \/ tpc \in {"failed", "bail"} /\ npc \in {"drop_callback", "drop_data", "done"}
      BY <2>2, <3>1, ReplacedIsPast
    <3> QED BY <3>2, <3>3
  <2>3. CASE SourceRelease
    BY <2>3 DEF SourceRelease, Orphan
  <2>4. ASSUME NEW l \in Left, OldThread(l) PROVE LeftInv'
    <3>1. CASE OldDropCallback(l)
      BY <3>1 DEF OldDropCallback
    <3>2. CASE OldDropData(l)
      BY <3>2 DEF OldDropData
    <3>3. CASE OldNotified(l)
      BY <3>3 DEF OldNotified
    <3>4. CASE OldThreadEnds(l)
      BY <3>4 DEF OldThreadEnds, EndCapture
    <3>5. CASE OrphanEnds(l)
      BY <3>5 DEF OrphanEnds
    <3> QED BY <2>4, <3>1, <3>2, <3>3, <3>4, <3>5 DEF OldThread
  <2> QED
    BY <2>1, <2>2, <2>3, <2>4
       DEF Next, ApiBegins, AppStep, CaptureThread, ThreadStep, vars, qtVars, SourceCaptureStop,
           SourceCaptureJoin, ThreadBegin, ThreadSession, ThreadStart, ThreadSetup, ThreadLoop,
           ThreadFrame, ThreadSleep, ThreadPollFails, ThreadNotified, ThreadEnds
<1> QED BY <1>1, InitOwner, OwnerCorrect, PTL DEF Spec

-----------------------------------------------------------------------------
\* Every variable keeps its type, and the bound on windows is kept.
THEOREM TypeCorrect == Spec => []TypeOK
<1>1. OwnerInv /\ LeftInv => TypeOK
  BY DEF OwnerInv, LeftInv, SrcInv, QtTypeOK, TypeOK
<1> QED BY <1>1, OwnerCorrect, LeftCorrect, PTL

\* When a context is freed the thread it knows has been joined.
THEOREM ReleasedIsQuietHolds == Spec => []ReleasedIsQuiet
<1>1. OwnerInv => ReleasedIsQuiet
  BY DEF OwnerInv, WorkInv, JoinInv, ReleasedIsQuiet, Running
<1> QED BY <1>1, OwnerCorrect, PTL

-----------------------------------------------------------------------------
(* Session and grabber.                                                     *)

\* What a step of a thread that is left does to them.
LEMMA OldKeepsSession ==
  ASSUME LeftInv, SessionInv, NEW l \in Left, OldThread(l)
  PROVE  SessionInv'
<1> USE DEF LeftInv, SessionInv
<1>1. CASE OldDropCallback(l) \/ OldDropData(l)
  <2>1. UNCHANGED <<old, tpc, decomp_session, recording, stranded>>
    BY <1>1 DEF OldDropCallback, OldDropData
  <2>2. UNCHANGED Holders /\ UNCHANGED Recorders
    BY <2>1 DEF Holders, Recorders
  <2> QED BY <2>1, <2>2
<1>2. CASE OldNotified(l)
  <2>1. UNCHANGED <<tpc, decomp_session, recording, stranded>>
    BY <1>2 DEF OldNotified
  <2>2. old[l] \in {"failed", "bail"}
    BY <1>2 DEF OldNotified
  <2>3. \A k \in Left : old'[k] = IF k = l THEN IF old[l] = "failed" THEN "none" ELSE "takedown"
                                 ELSE old[k]
    BY <1>2 DEF OldNotified
  <2>4. Holders' = Holders /\ Recorders' = Recorders
    BY <2>2, <2>3 DEF Holders, Recorders
  <2> QED BY <2>1, <2>4
<1>3. CASE OldThreadEnds(l)
  <2>1. PICK next \in {"sg_stop", "exited"} :
          /\ EndCapture(old[l], next)
          /\ old' = [old EXCEPT ![l] = IF next = "exited" THEN "none" ELSE next]
    BY <1>3 DEF OldThreadEnds
  <2>2. UNCHANGED tpc
    BY <1>3 DEF OldThreadEnds
  <2>3. CASE next = "sg_stop"
    <3>1. old[l] = "takedown" /\ ~decomp_session' /\ UNCHANGED <<recording, stranded>>
      BY <2>1, <2>3 DEF EndCapture
    <3>2. \A k \in Left : old'[k] = IF k = l THEN "sg_stop" ELSE old[k]
      BY <2>1, <2>3
    <3>3. l \in Holders /\ Holders' = Holders \ {l} /\ Recorders' = Recorders
      BY <3>1, <3>2 DEF Holders, Recorders
    <3>4. Holders' = {}
      BY <3>3
    <3> QED BY <2>2, <3>1, <3>3, <3>4
  <2>4. CASE next = "exited"
    <3>1. /\ old[l] = "sg_stop" /\ UNCHANGED decomp_session
          /\ ~recording' \/ stranded'
      BY <2>1, <2>4 DEF EndCapture
    <3>2. \A k \in Left : old'[k] = IF k = l THEN "none" ELSE old[k]
      BY <2>1, <2>4
    <3>3. Holders' = Holders
      BY <3>1, <3>2 DEF Holders
    <3> QED BY <2>2, <3>1, <3>3
  <2> QED BY <2>3, <2>4
<1>4. CASE OrphanEnds(l)
  <2>1. UNCHANGED <<tpc, decomp_session, stranded>> /\ recording' \in {recording, FALSE}
    BY <1>4 DEF OrphanEnds
  <2>2. PICK end \in {"none", "fault"} : old' = [old EXCEPT ![l] = end]
    BY <1>4 DEF OrphanEnds
  <2>3. old[l] = "orphan" /\ \A k \in Left : old'[k] = IF k = l THEN end ELSE old[k]
    BY <1>4, <2>2 DEF OrphanEnds
  <2>4. end \notin {"bail", "takedown", "sg_stop"}
    BY <2>2
  <2>5. Holders' = Holders
    BY <2>3, <2>4 DEF Holders
  <2>6. Recorders' = Recorders
    BY <2>3, <2>4 DEF Recorders
  <2>7. recording' => recording
    BY <2>1, Zenon
  <2>8. ~stranded' /\ recording' =>
          \/ Recorders' # {}
          \/ tpc' \in {"setup", "loop", "poll", "frame", "bail", "takedown", "sg_stop"}
    BY <2>1, <2>6, <2>7
  <2> QED BY <2>1, <2>5, <2>8
<1> QED BY <1>1, <1>2, <1>3, <1>4 DEF OldThread

\* A thread that is replaced takes its part of the session with it.
LEMMA StartKeepsSession ==
  ASSUME OwnerInv, LeftInv, SessionInv, SourceCaptureStart
  PROVE  SessionInv'
<1> USE DEF LeftInv, SessionInv
<1>1. UNCHANGED <<decomp_session, recording, stranded>>
  BY DEF SourceCaptureStart
<1>2. CASE UNCHANGED <<old, tpc>>
  <2>1. UNCHANGED Holders /\ UNCHANGED Recorders
    BY <1>2 DEF Holders, Recorders
  <2> QED BY <1>1, <1>2, <2>1
<1>3. CASE LeaveThread /\ tpc' = "begin" /\ ~Running
  <2>1. UNCHANGED old /\ tpc \in {"none", "exited"}
    BY <1>3 DEF LeaveThread, Running
  <2>2. UNCHANGED Holders /\ UNCHANGED Recorders
    BY <2>1 DEF Holders, Recorders
  <2> QED BY <1>1, <1>3, <2>1, <2>2
<1>4. CASE LeaveThread /\ tpc' = "begin" /\ Running
  <2>1. PICK l \in Left : old[l] = "none" /\ old' = [old EXCEPT ![l] = tpc]
    BY <1>4, ReplacedIsKept
  <2>2. tpc \in {"takedown", "sg_stop", "failed", "bail"}
    BY <1>4, ReplacedIsPast
  <2>3. \A k \in Left : old'[k] = IF k = l THEN tpc ELSE old[k]
    BY <2>1
  <2>4. CASE tpc \in {"takedown", "bail"}
    <3>1. Holders = {} /\ decomp_session
      BY <2>4
    <3>2. Holders' = {l} /\ l \in Recorders'
      BY <2>1, <2>3, <2>4, <3>1 DEF Holders, Recorders
    <3> QED BY <1>1, <1>4, <3>1, <3>2
  <2>5. CASE tpc \in {"failed", "sg_stop"}
    <3>1. Holders' = Holders
      BY <2>1, <2>3, <2>5 DEF Holders
    <3>2. Recorders' = IF tpc = "sg_stop" THEN Recorders \cup {l} ELSE Recorders
      BY <2>1, <2>3, <2>5 DEF Recorders
    <3> QED BY <1>1, <1>4, <2>5, <3>1, <3>2
  <2> QED BY <2>2, <2>4, <2>5
<1> QED BY <1>2, <1>3, <1>4 DEF SourceCaptureStart

LEMMA SessionCorrect == Spec => []SessionInv
<1>1. OwnerInv /\ LeftInv /\ SessionInv /\ [Next]_vars => SessionInv'
  <2> SUFFICES ASSUME OwnerInv, LeftInv, SessionInv, [Next]_vars PROVE SessionInv'
    OBVIOUS
  <2>1. CASE SourceCaptureStart
    BY <2>1, StartKeepsSession
  <2>2. ASSUME NEW l \in Left, OldThread(l) PROVE SessionInv'
    BY <2>2, OldKeepsSession
  <2>3. CASE SourceRelease
    <3>1. \A l \in Left : old'[l] \in {"none", "orphan"}
      BY <2>3 DEF SourceRelease, Orphan
    <3>2. Holders' = {} /\ ~decomp_session' /\ ~recording' /\ tpc' = "none"
      BY <2>3, <3>1 DEF SourceRelease, Holders, OwnerInv, JoinInv
    <3> QED BY <3>2 DEF SessionInv
  <2>4. CASE UNCHANGED old /\ ~SourceCaptureStart /\ ~SourceRelease
    <3>1. UNCHANGED Holders /\ UNCHANGED Recorders
      BY <2>4 DEF Holders, Recorders
    <3> USE <3>1 DEF SessionInv
    <3>2. CASE UNCHANGED qtVars
      BY <3>2 DEF qtVars
    <3>3. CASE SourceCaptureStop
      BY <3>3 DEF SourceCaptureStop
    <3>4. CASE SourceCaptureJoin
      BY <3>4 DEF SourceCaptureJoin, Running
    <3>5. CASE ThreadBegin
      BY <3>5 DEF ThreadBegin, ThreadFails
    <3>6. CASE ThreadSession
      BY <3>6 DEF ThreadSession, ThreadFails
    <3>7. CASE ThreadStart
      BY <3>7 DEF ThreadStart, ThreadFails
    <3>8. CASE ThreadSetup
      <4>1. tpc = "setup" /\ Holders = {} /\ UNCHANGED recording /\ ~decomp_session
        BY <3>8 DEF ThreadSetup
      <4>2. \/ tpc' = "loop" /\ decomp_session' /\ UNCHANGED stranded
            \/ tpc' = "failed" /\ stranded' /\ ~decomp_session'
        BY <3>8, <4>1 DEF ThreadSetup, ThreadFails
      <4> QED BY <4>1, <4>2
    <3>9. CASE ThreadLoop \/ ThreadSleep \/ ThreadFrame \/ ThreadPollFails
      BY <3>9 DEF ThreadLoop, ThreadSleep, ThreadFrame, ThreadPollFails
    <3>10. CASE ThreadNotified
      BY <3>10 DEF ThreadNotified, AfterNotify
    <3>11. CASE ThreadEnds
      BY <3>11 DEF ThreadEnds, EndCapture
    <3> QED
      BY <2>4, <3>2, <3>3, <3>4, <3>5, <3>6, <3>7, <3>8, <3>9, <3>10, <3>11, StepsOf, <2>2
         DEF ApiBegins, BackendStep, ThreadStep, vars, OldDrops, OldLeaves, OldThread
  <2>5. UNCHANGED old \/ SourceCaptureStart \/ SourceRelease \/ \E l \in Left : OldThread(l)
    BY DEF Next, ApiBegins, AppStep, CaptureThread, ThreadStep, vars, qtVars, SourceCaptureStop,
           SourceCaptureJoin, ThreadBegin, ThreadSession, ThreadStart, ThreadSetup, ThreadLoop,
           ThreadFrame, ThreadSleep, ThreadPollFails, ThreadNotified, ThreadEnds
  <2> QED BY <2>1, <2>2, <2>3, <2>4, <2>5
<1> QED BY <1>1, InitOwner, OwnerCorrect, LeftCorrect, PTL DEF Spec

\* Frames are decoded within the capture's own session, whatever an earlier
\* capture's thread has still to take down.
THEOREM DecodeHasSessionHolds == Spec => []DecodeHasSession
<1>1. SessionInv => DecodeHasSession
  BY DEF SessionInv, DecodeHasSession
<1> QED BY <1>1, SessionCorrect, PTL

\* When the last capture thread has ended the grabber is stopped, apart from the
\* failures that strand it.
THEOREM NothingLeftRecordingHolds == Spec => []NothingLeftRecording
<1>1. SessionInv => NothingLeftRecording
  <2> SUFFICES ASSUME SessionInv, ~Running, LeftAtWork = {}, ~stranded
               PROVE  ~recording /\ ~decomp_session
    BY DEF NothingLeftRecording
  <2>1. Holders = {} /\ Recorders = {}
    BY DEF LeftAtWork, Holders, Recorders
  <2> QED BY <2>1 DEF SessionInv, Running
<1> QED BY <1>1, SessionCorrect, PTL

-----------------------------------------------------------------------------
\* The application's thread leaves alone what a frame's delivery works with, and
\* so does every other, but for what is left of earlier error notifications.
THEOREM FrameIsUndisturbedHolds == Spec => FrameIsUndisturbed
<1>1. OwnerInv /\ LeftInv /\ [Next]_vars =>
        [Notifying /\ ~error_status =>
           /\ UNCHANGED <<fmt, frame_times, windows>> /\ src_state' # "none"
           /\ UNCHANGED <<capture_callback, capture_data>> \/ onpc' # onpc]_vars
  <2> SUFFICES ASSUME OwnerInv, LeftInv, [Next]_vars, Notifying, ~error_status
               PROVE  /\ UNCHANGED <<fmt, frame_times, windows>> /\ src_state' # "none"
                      /\ UNCHANGED <<capture_callback, capture_data>> \/ onpc' # onpc
    OBVIOUS
  <2>1. /\ tpc = "frame" /\ src_state # "none" /\ npc \notin {"set_bound", "drop_callback", "drop_data"}
        /\ apc = "started" \/ (src_state = "src_capturing" /\ apc \in {"idle", "stop_capture"})
    BY DEF OwnerInv, SrcInv, ApiInv, WorkInv, JoinInv, Works, Registered
  <2>2. CASE ApiBegins
    BY <2>1, <2>2 DEF ApiBegins, SrcAcquire, FormatBind, CaptureStart, CaptureStop, SrcRelease,
                      ctxVars
  <2>3. CASE ApiStep
    BY <2>1, <2>3 DEF ApiStep, RegisterCallback, RegisterData, CaptureStarted,
                      CaptureStartBail, CaptureStopped, FreeWindow, ClearWindow, ClearCallback,
                      ClearData, SrcFree
  <2>4. CASE BackendStep
    BY <2>1, <2>4 DEF BackendStep, SourceCaptureStart, SourceCaptureStop, SourceCaptureJoin,
                      SourceRelease, srcVars, ctxVars
  <2>5. CASE ThreadStep
    BY <2>1, <2>5 DEF ThreadStep, ThreadBegin, ThreadSession, ThreadStart, ThreadSetup,
                      ThreadLoop, ThreadFrame, ThreadSleep, ThreadPollFails, ThreadNotified,
                      ThreadEnds, EndCapture, NotifyReturns, ctxVars
  <2>6. CASE FrameStep \/ ErrorStep
    BY <2>1, <2>6 DEF FrameStep, TakeCallback, TakeData, Deliver, CallbackReturns, ErrorStep,
                      ErrorSetBound, ErrorDropCallback, ErrorDropData, ctxVars
  <2>7. ASSUME NEW l \in Left, OldDropCallback(l) \/ OldDropData(l)
        PROVE  UNCHANGED <<src_state, fmt, frame_times, windows>> /\ onpc' # onpc
    <3>1. UNCHANGED <<src_state, fmt, frame_times, windows>> /\ onpc'[l] # onpc[l]
      BY <2>7 DEF OldDropCallback, OldDropData, LeftInv
    <3> QED BY <3>1
  <2>8. CASE OldLeaves \/ UNCHANGED vars
    BY <2>1, <2>8 DEF OldLeaves, OldNotified, OldThreadEnds, OrphanEnds, vars, srcVars, ctxVars
  <2> QED
    BY <2>1, <2>2, <2>3, <2>4, <2>5, <2>6, <2>7, <2>8, StepsOf DEF OldDrops
<1> QED BY <1>1, OwnerCorrect, LeftCorrect, PTL DEF Spec, FrameIsUndisturbed

-----------------------------------------------------------------------------
(* The contract.                                                            *)

\* A call is in progress only while its thread works on the context, and the
\* application is in the capture that the call is made for.
LEMMA CallWorks ==
  ASSUME OwnerInv, npc = "callback"
  PROVE  /\ Works
         /\ apc = "started" \/ (src_state = "src_capturing" /\ apc \in {"idle", "stop_capture"})
         /\ client \in Clients /\ CapturedFor = client
         /\ cap_callback = client /\ cap_data = client
         /\ Call = <<client, client>>
<1>1. Works
  BY DEF OwnerInv, WorkInv, Notifying, Works
<1>2. apc = "started" \/ (src_state = "src_capturing" /\ apc \in {"idle", "stop_capture"})
  BY <1>1 DEF OwnerInv, WorkInv
<1>3. client \in Clients /\ cap_callback = client /\ cap_data = client
  BY <1>1 DEF OwnerInv, SrcInv, RegistrationInv
<1>4. CapturedFor = client
  BY <1>2 DEF CapturedFor
<1>5. Call = <<client, client>>
  BY <1>3 DEF Call
<1> QED BY <1>1, <1>2, <1>3, <1>4, <1>5

\* So it is once a call has begun.
LEMMA CallWorksNext ==
  ASSUME OwnerInv', npc' = "callback"
  PROVE  client' \in Clients /\ CapturedFor' = client' /\ Call' = <<client', client'>>
<1>1. Works'
  BY DEF OwnerInv, WorkInv, Notifying, Works
<1>2. (apc = "started" \/ (src_state = "src_capturing" /\ apc \in {"idle", "stop_capture"}))'
  BY <1>1 DEF OwnerInv, WorkInv
<1>3. (client \in Clients /\ cap_callback = client /\ cap_data = client)'
  BY <1>1 DEF OwnerInv, SrcInv, RegistrationInv
<1>4. CapturedFor' = client'
  BY <1>2 DEF CapturedFor
<1>5. Call' = <<client', client'>>
  BY <1>3 DEF Call
<1> QED BY <1>3, <1>4, <1>5

\* While no call is in progress a capture may begin or end.
LEMMA CaptureKeepsContract ==
  ASSUME Call = None, Call' = None,
         \/ CapturedFor = None /\ CapturedFor' \in Clients
         \/ CapturedFor' = None
         \/ CapturedFor' = CapturedFor
  PROVE  [CaptureOf!Next]_CaptureOf!contractVars
<1>1. CASE CapturedFor' = CapturedFor
  BY <1>1 DEF CaptureOf!contractVars
<1>2. CASE CapturedFor = None /\ CapturedFor' \in Clients
  <2>1. CaptureOf!Register(CapturedFor')
    BY <1>2 DEF CaptureOf!Register
  <2> QED BY <1>2, <2>1 DEF CaptureOf!Next
<1>3. CASE CapturedFor # None /\ CapturedFor' = None
  BY <1>3 DEF CaptureOf!Next, CaptureOf!Unregister
<1> QED BY <1>1, <1>2, <1>3

\* A step that leaves alone whose capture it is and neither begins nor ends a call.
LEMMA CaptureStutters ==
  ASSUME UNCHANGED <<src_state, apc, client>>,
         UNCHANGED <<cap_callback, cap_data>> \/ npc # "callback",
         (npc' = "callback") = (npc = "callback")
  PROVE  UNCHANGED CaptureOf!contractVars
<1>1. UNCHANGED CapturedFor
  BY DEF CapturedFor
<1>2. UNCHANGED Call
  BY DEF Call
<1> QED BY <1>1, <1>2 DEF CaptureOf!contractVars

\* The application's thread, in vidcap.c and in the backend.
LEMMA ApiKeepsContract ==
  ASSUME OwnerInv, OwnerInv', ApiBegins \/ ApiStep \/ BackendStep
  PROVE  [CaptureOf!Next]_CaptureOf!contractVars
<1>1. CASE npc = "callback"
  <2>1. apc = "started" \/ (src_state = "src_capturing" /\ apc \in {"idle", "stop_capture"})
    BY <1>1, CallWorks
  <2>2. tpc \in {"frame", "failed", "bail"}
    BY <1>1 DEF OwnerInv, WorkInv, Notifying
  <2>3. UNCHANGED <<npc, cap_callback, cap_data, client>>
    BY <2>1, <2>2 DEF ApiBegins, SrcAcquire, FormatBind, CaptureStart, CaptureStop, SrcRelease,
       ApiStep, RegisterCallback, RegisterData, CaptureStarted, CaptureStartBail, CaptureStopped,
       FreeWindow, ClearWindow, ClearCallback, ClearData, SrcFree, BackendStep,
       SourceCaptureStart, SourceCaptureStop, SourceCaptureJoin, SourceRelease, Running,
       notifyVars, srcVars, apiVars
  <2>4. CapturedFor = client /\ CapturedFor' = client'
    BY <1>1, <2>3, CallWorks, CallWorksNext
  <2>5. UNCHANGED Call
    BY <2>3 DEF Call
  <2> QED BY <2>3, <2>4, <2>5 DEF CaptureOf!contractVars
<1>2. CASE npc # "callback"
  <2>1. npc' # "callback"
    BY <1>2 DEF ApiBegins, SrcAcquire, FormatBind, CaptureStart, CaptureStop, SrcRelease,
       ApiStep, RegisterCallback, RegisterData, CaptureStarted, CaptureStartBail, CaptureStopped,
       FreeWindow, ClearWindow, ClearCallback, ClearData, SrcFree, BackendStep,
       SourceCaptureStart, SourceCaptureStop, SourceCaptureJoin, SourceRelease,
       notifyVars, srcVars
  <2>2. Call = None /\ Call' = None
    BY <1>2, <2>1 DEF Call
  <2>3. CASE RegisterData
    <3>1. CapturedFor = None
      BY <2>3 DEF CapturedFor, RegisterData, OwnerInv, SrcInv, ApiInv
    <3>2. client' \in Clients /\ CapturedFor' = client'
      BY <2>3 DEF CapturedFor, RegisterData, OwnerInv, SrcInv, RegistrationInv
    <3> QED BY <2>2, <3>1, <3>2, CaptureKeepsContract
  <2>4. CASE ~RegisterData
    <3>1. CapturedFor' = None \/ CapturedFor' = CapturedFor
      BY <2>4 DEF CapturedFor, ApiBegins, SrcAcquire, FormatBind, CaptureStart, CaptureStop,
         SrcRelease, ApiStep, RegisterCallback, CaptureStarted, CaptureStartBail, CaptureStopped,
         FreeWindow, ClearWindow, ClearCallback, ClearData, SrcFree, BackendStep,
         SourceCaptureStart, SourceCaptureStop, SourceCaptureJoin, SourceRelease, srcVars,
         ctxVars, apiVars
    <3> QED BY <2>2, <3>1, CaptureKeepsContract
  <2> QED BY <2>3, <2>4
<1> QED BY <1>1, <1>2

LEMMA NotificationKeepsContract ==
  ASSUME OwnerInv, OwnerInv', FrameStep \/ ErrorStep
  PROVE  [CaptureOf!Next]_CaptureOf!contractVars
<1>1. CASE Deliver /\ npc' = "callback"
  <2>1. npc = "deliver" /\ UNCHANGED <<src_state, apc, client>>
    BY <1>1 DEF Deliver, ctxVars, apiVars
  <2>2. CapturedFor' = client' /\ client' \in Clients /\ Call' = <<client', client'>>
    BY <1>1, CallWorksNext
  <2>3. UNCHANGED CapturedFor
    BY <2>1 DEF CapturedFor
  <2>4. Call = None /\ CapturedFor # None
    BY <2>1, <2>2, <2>3, SourceContextAssumption DEF Call
  <2> QED BY <2>1, <2>2, <2>3, <2>4 DEF CaptureOf!Next, CaptureOf!Enter
<1>2. CASE CallbackReturns
  <2>1. npc = "callback" /\ npc' # "callback" /\ UNCHANGED <<src_state, apc, client>>
    BY <1>2 DEF CallbackReturns, AfterDelivery, ctxVars, apiVars
  <2>2. UNCHANGED CapturedFor /\ Call' = None
    BY <2>1 DEF CapturedFor, Call
  <2>3. Call = <<client, client>> /\ client \in Clients
    BY <2>1, CallWorks
  <2>4. Call # None
    BY <2>3, SourceContextAssumption
  <2> QED BY <2>2, <2>4 DEF CaptureOf!Next, CaptureOf!Leave
<1>3. CASE ErrorStep
  <2>1. npc # "callback" /\ npc' # "callback" /\ UNCHANGED <<apc, client>>
        /\ src_state' \in {src_state, "src_bound"}
    BY <1>3 DEF ErrorStep, ErrorSetBound, ErrorDropCallback, ErrorDropData, apiVars
  <2>2. Call = None /\ Call' = None
    BY <2>1 DEF Call
  <2>3. CapturedFor' = None \/ CapturedFor' = CapturedFor
    BY <2>1 DEF CapturedFor
  <2> QED BY <2>2, <2>3, CaptureKeepsContract
<1>4. CASE TakeCallback \/ TakeData \/ (Deliver /\ npc' # "callback")
  <2>1. npc # "callback" /\ npc' # "callback" /\ UNCHANGED <<src_state, apc, client>>
    BY <1>4 DEF TakeCallback, TakeData, Deliver, ctxVars, apiVars
  <2> QED BY <2>1, CaptureStutters
<1> QED BY <1>1, <1>2, <1>3, <1>4 DEF FrameStep, ErrorStep

\* The QuickTime backend implements the contract.
THEOREM ContractHolds == Spec => ContractSpec
<1>1. Init => CaptureOf!Init
  BY DEF Init, SrcInit, CaptureOf!Init, CapturedFor, Call
<1>2. OwnerInv /\ OwnerInv' /\ [Next]_vars => [CaptureOf!Next]_CaptureOf!contractVars
  <2> SUFFICES ASSUME OwnerInv, OwnerInv', [Next]_vars
               PROVE  [CaptureOf!Next]_CaptureOf!contractVars
    OBVIOUS
  <2>1. CASE ApiBegins \/ ApiStep \/ BackendStep
    BY <2>1, ApiKeepsContract
  <2>2. CASE FrameStep \/ ErrorStep
    BY <2>2, NotificationKeepsContract
  <2>3. CASE ThreadStep \/ OldDrops \/ OldLeaves \/ UNCHANGED vars
    <3>1. UNCHANGED <<src_state, apc, client, cap_callback, cap_data>>
      BY <2>3 DEF ThreadStep, ThreadBegin, ThreadSession, ThreadStart, ThreadSetup, ThreadFails,
                  ThreadLoop, ThreadFrame, ThreadSleep, ThreadPollFails, ThreadNotified,
                  ThreadEnds, Notify, NotifyReturns, OldDrops, OldDropCallback, OldDropData,
                  OldLeaves, OldNotified, OldThreadEnds, OrphanEnds, vars, srcVars, ctxVars,
                  apiVars, notifyVars
    <3>2. npc' = npc \/ (npc \in {"none", "done"} /\ npc' \in {"none", "take_callback"})
      BY <2>3 DEF ThreadStep, ThreadBegin, ThreadSession, ThreadStart, ThreadSetup, ThreadFails,
                  ThreadLoop, ThreadFrame, ThreadSleep, ThreadPollFails, ThreadNotified,
                  ThreadEnds, Notify, NotifyReturns, OldDrops, OldDropCallback, OldDropData,
                  OldLeaves, OldNotified, OldThreadEnds, OrphanEnds, vars, srcVars, notifyVars
    <3> QED BY <3>1, <3>2, CaptureStutters
  <2> QED
    BY <2>1, <2>2, <2>3, StepsOf
<1> QED BY <1>1, <1>2, OwnerCorrect, PTL DEF Spec, ContractSpec, CaptureOf!Spec

\* A call in progress is made to the client whose capture is under way, with its
\* own callback and its own user data, between the call of start_capture and the
\* return of stop_capture.
CallIsCaptures ==
  Call # None => CapturedFor # None /\ Call = <<CapturedFor, CapturedFor>>

\* A capture lasts as long as the call that is in progress: it neither ends nor
\* becomes another client's under it, whoever clears the registration meanwhile.
CaptureHeld == [][Call # None \/ Call' # None => UNCHANGED CapturedFor]_CaptureOf!contractVars

\* A client's callback is called with its own pair and only in its capture, in
\* frames and in error reports alike.
THEOREM CallsHold == Spec => [](CallIsCaptures /\ CallInCapture) /\ CaptureHeld
<1>1. OwnerInv => CallIsCaptures /\ CallInCapture
  <2>1. ASSUME OwnerInv, Call # None PROVE CapturedFor # None /\ Call = <<CapturedFor, CapturedFor>>
    <3>1. npc = "callback"
      BY <2>1 DEF Call
    <3>2. CapturedFor \in Clients /\ Call = <<CapturedFor, CapturedFor>>
      BY <2>1, <3>1, CallWorks
    <3> QED BY <3>2, SourceContextAssumption
  <2>2. ASSUME OwnerInv PROVE CallInCapture
    BY <2>2, CallWorks DEF CallInCapture
  <2> QED BY <2>1, <2>2 DEF CallIsCaptures
<1>2. CaptureOf!Spec => CaptureHeld
  <2>1. [CaptureOf!Next]_CaptureOf!contractVars =>
          [Call # None \/ Call' # None => UNCHANGED CapturedFor]_CaptureOf!contractVars
    BY DEF CaptureOf!Next, CaptureOf!Register, CaptureOf!Unregister, CaptureOf!Enter,
           CaptureOf!Leave, CaptureOf!contractVars
  <2> QED BY <2>1, PTL DEF CaptureOf!Spec, CaptureHeld
<1>3. Spec => CaptureOf!Spec
  BY ContractHolds DEF ContractSpec
<1> QED BY <1>1, <1>2, <1>3, OwnerCorrect, PTL

-----------------------------------------------------------------------------
(* The end of a capture.                                                    *)

\* A capture ends by the application's stop, or past the report of an error: no
\* failed call of QuickTime ends it otherwise.  And the report is passed over only
\* where the client's registration is gone, which an earlier capture's unfinished
\* notification may have cleared (sapi.c:390-392); where it stands, the end comes
\* after the callback has returned from the report.
EndReported ==
  [][/\ Works /\ ~Works' => joining \/ npc = "set_bound"
     /\ npc # "set_bound" /\ npc' = "set_bound" =>
          /\ error_status
          /\ \/ npc = "callback" /\ Call = <<client, client>>
             \/ capture_callback = None \/ capture_data = None]_vars

\* How many steps of its own the capture thread takes until it has been joined,
\* at most, once the flag is clear.
StepsLeft(pc) ==
  CASE pc = "none" -> 0 [] pc = "exited" -> 1 [] pc = "failed" -> 2 [] pc = "sg_stop" -> 3
    [] pc = "takedown" -> 4 [] pc = "bail" -> 5 [] pc = "loop" -> 6 [] pc = "frame" -> 7
    [] pc = "poll" -> 8 [] pc = "setup" -> 9 [] pc = "start" -> 10 [] pc = "session" -> 11
    [] OTHER -> 12

\* Once source_capture_stop has cleared the flag the thread goes forward only,
\* and the start of another capture cannot come between (sapi_qt.c,
\* capture_thread_proc).
StopsInOneRound == [][joining /\ tpc' # tpc => StepsLeft(tpc') < StepsLeft(tpc)]_vars

\* The steps of the capture thread that move it.
LEMMA ThreadMoves ==
  ASSUME OwnerInv, [Next]_vars, tpc' # tpc
  PROVE  \/ tpc = "begin" /\ tpc' = "session"
         \/ tpc = "session" /\ tpc' = "start"
         \/ tpc = "start" /\ tpc' = "setup"
         \/ tpc = "setup" /\ tpc' = "loop"
         \/ /\ tpc \in {"begin", "session", "start", "setup"} /\ tpc' = "failed"
            /\ npc' = "take_callback"
         \/ tpc = "loop" /\ tpc' = IF capturing THEN "poll" ELSE "takedown"
         \/ tpc = "poll" /\ tpc' \in {"frame", "loop"}
         \/ tpc = "poll" /\ tpc' = "bail" /\ npc' = "take_callback"
         \/ npc = "done" /\ npc' = "none"
              /\ \/ tpc = "frame" /\ tpc' = "loop"
                 \/ tpc = "failed" /\ tpc' = "exited"
                 \/ tpc = "bail" /\ tpc' = "takedown"
         \/ tpc = "takedown" /\ tpc' = "sg_stop"
         \/ tpc = "sg_stop" /\ tpc' = "exited"
         \/ joining /\ tpc = "exited" /\ tpc' = "none"
         \/ apc = "start_capture" /\ tpc' = "begin"
<1>1. CASE ThreadStep
  <2>1. CASE ThreadBegin \/ ThreadSession \/ ThreadStart \/ ThreadSetup
    BY <2>1 DEF ThreadBegin, ThreadSession, ThreadStart, ThreadSetup, ThreadFails, Notify
  <2>2. CASE ThreadLoop \/ ThreadFrame \/ ThreadSleep \/ ThreadPollFails
    BY <2>2 DEF ThreadLoop, ThreadFrame, ThreadSleep, ThreadPollFails, Notify
  <2>3. CASE ThreadNotified
    BY <2>3 DEF ThreadNotified, AfterNotify, NotifyReturns
  <2>4. CASE ThreadEnds
    BY <2>4 DEF ThreadEnds, EndCapture
  <2> QED BY <1>1, <2>1, <2>2, <2>3, <2>4 DEF ThreadStep
<1>2. CASE AppStep
  BY <1>2 DEF AppStep, qtVars, SourceCaptureStart, SourceCaptureStop, SourceCaptureJoin,
              SourceRelease, Running, OwnerInv, QtTypeOK, ThreadPC
<1>3. ~(UNCHANGED vars) /\ ~ApiBegins /\ ~(UNCHANGED qtVars) /\ ~OldDrops /\ ~OldLeaves
  BY DEF vars, ApiBegins, qtVars, OldDrops, OldDropCallback, OldDropData, OldLeaves, OldNotified,
         OldThreadEnds, OrphanEnds
<1> QED BY <1>1, <1>2, <1>3, StepsOf DEF AppStep, BackendStep

\* The stop waits for one round of the thread's loop at most, and needs no
\* frame to come.
THEOREM StopsInOneRoundHolds == Spec => StopsInOneRound
<1>1. OwnerInv /\ [Next]_vars =>
        [joining /\ tpc' # tpc => StepsLeft(tpc') < StepsLeft(tpc)]_vars
  <2> SUFFICES ASSUME OwnerInv, [Next]_vars, joining, tpc' # tpc
               PROVE  StepsLeft(tpc') < StepsLeft(tpc)
    OBVIOUS
  <2>1. ~capturing /\ apc # "start_capture"
    BY DEF OwnerInv, JoinInv
  <2> QED BY <2>1, ThreadMoves DEF StepsLeft
<1> QED BY <1>1, OwnerCorrect, PTL DEF Spec, StopsInOneRound

\* The steps by which an error notification leaves its report.
LEMMA ReportSteps ==
  ASSUME [Next]_vars, npc # "set_bound", npc' = "set_bound"
  PROVE  error_status /\ (Deliver \/ npc = "callback")
BY StepsOf DEF ApiBegins, SrcAcquire, FormatBind, CaptureStart, CaptureStop, SrcRelease, ApiStep,
   RegisterCallback, RegisterData, CaptureStarted, CaptureStartBail, CaptureStopped, FreeWindow,
   ClearWindow, ClearCallback, ClearData, SrcFree, BackendStep, SourceCaptureStart,
   SourceCaptureStop, SourceCaptureJoin, SourceRelease, ThreadStep, ThreadBegin, ThreadSession,
   ThreadStart, ThreadSetup, ThreadLoop, ThreadFrame, ThreadSleep, ThreadPollFails,
   ThreadNotified, ThreadEnds, ThreadFails, Notify, NotifyReturns, FrameStep, TakeCallback,
   TakeData, Deliver, CallbackReturns, AfterDelivery, ErrorStep, ErrorSetBound,
   ErrorDropCallback, ErrorDropData, OldDrops, OldDropCallback, OldDropData, OldLeaves,
   OldNotified, OldThreadEnds, OrphanEnds, vars, srcVars, notifyVars

\* The client is told of every end it did not ask for, while it is registered.
THEOREM EndReportedHolds == Spec => EndReported
<1>1. OwnerInv /\ [Next]_vars =>
        [/\ Works /\ ~Works' => joining \/ npc = "set_bound"
         /\ npc # "set_bound" /\ npc' = "set_bound" =>
              /\ error_status
              /\ \/ npc = "callback" /\ Call = <<client, client>>
                 \/ capture_callback = None \/ capture_data = None]_vars
  <2> SUFFICES ASSUME OwnerInv, [Next]_vars
               PROVE  /\ Works /\ ~Works' => joining \/ npc = "set_bound"
                      /\ npc # "set_bound" /\ npc' = "set_bound" =>
                           /\ error_status
                           /\ \/ npc = "callback" /\ Call = <<client, client>>
                              \/ capture_callback = None \/ capture_data = None
    OBVIOUS
  <2>1. ASSUME Works, ~Works' PROVE joining \/ npc = "set_bound"
    <3>1. apc # "start_capture"
      BY <2>1 DEF OwnerInv, WorkInv, SrcInv, ApiInv
    <3>2. CASE tpc' = tpc
      <4>1. /\ tpc \in {"failed", "bail"}
            /\ npc \in {"take_callback", "take_data", "deliver", "callback", "set_bound"}
            /\ npc' \notin {"take_callback", "take_data", "deliver", "callback", "set_bound"}
        BY <2>1, <3>2 DEF Works
      <4>2. error_status
        BY <4>1 DEF OwnerInv, WorkInv, Notifying
      <4>3. npc = "set_bound"
        BY <3>1, <4>1, <4>2, StepsOf DEF ApiBegins, SrcAcquire, FormatBind, CaptureStart,
           CaptureStop, SrcRelease, ApiStep, RegisterCallback, RegisterData, CaptureStarted,
           CaptureStartBail, CaptureStopped, FreeWindow, ClearWindow, ClearCallback, ClearData,
           SrcFree, BackendStep, SourceCaptureStart, SourceCaptureStop, SourceCaptureJoin,
           SourceRelease, ThreadStep, ThreadBegin, ThreadSession, ThreadStart, ThreadSetup,
           ThreadLoop, ThreadFrame, ThreadSleep, ThreadPollFails, ThreadNotified, ThreadEnds,
           ThreadFails, Notify, NotifyReturns, FrameStep, TakeCallback, TakeData, Deliver,
           CallbackReturns, AfterDelivery, ErrorStep, ErrorSetBound, ErrorDropCallback,
           ErrorDropData, OldDrops, OldDropCallback, OldDropData, OldLeaves, OldNotified,
           OldThreadEnds, OrphanEnds, vars, srcVars, notifyVars
      <4> QED BY <4>3
    <3>3. CASE tpc' # tpc
      <4>1. tpc = "loop" /\ ~capturing
        BY <2>1, <3>1, <3>3, ThreadMoves DEF Works
      <4> QED BY <4>1 DEF OwnerInv, JoinInv
    <3> QED BY <3>2, <3>3
  <2>2. ASSUME npc # "set_bound", npc' = "set_bound"
        PROVE  /\ error_status
               /\ \/ npc = "callback" /\ Call = <<client, client>>
                  \/ capture_callback = None \/ capture_data = None
    <3>1. error_status /\ (Deliver \/ npc = "callback")
      BY <2>2, ReportSteps
    <3>2. CASE npc = "callback"
      BY <3>1, <3>2, CallWorks
    <3>3. CASE Deliver
      <4>1. npc = "deliver" /\ (cap_callback = None \/ cap_data = None)
        BY <2>2, <3>1, <3>3 DEF Deliver
      <4>2. Works /\ client \in Clients
        BY <3>1, <4>1 DEF OwnerInv, WorkInv, Notifying, Works, SrcInv, RegistrationInv
      <4>3. client # None
        BY <4>2, SourceContextAssumption
      <4> QED BY <3>1, <4>1, <4>2, <4>3 DEF OwnerInv, SrcInv, RegistrationInv
    <3> QED BY <3>1, <3>2, <3>3
  <2> QED BY <2>1, <2>2
<1> QED BY <1>1, OwnerCorrect, PTL DEF Spec, EndReported
=============================================================================
