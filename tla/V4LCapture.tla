----------------------------- MODULE V4LCapture -----------------------------
(***************************************************************************)
(* Capturing with the Video4Linux backend, src/sapi_v4l.c: the capture     *)
(* thread with its two overlapped captures into the driver's ring of mmap  *)
(* buffers, its start and its stop, composed with the shared source        *)
(* context (SourceContext).  The driver is external: its buffers are       *)
(* filled in any order, and any ioctl can fail.                            *)
(***************************************************************************)
EXTENDS SourceContext

CONSTANTS
  NumFrames,   \* mbuf.frames: buffers in the driver's ring
  CounterMod   \* 2^32 for the unsigned int frame counters

\* The code checks neither against the other.
ASSUME V4LCaptureAssumption == NumFrames \in Nat \ {0} /\ CounterMod \in Nat \ {0}

VARIABLES
  capturing,             \* v4l_src_ctx->capturing
  tpc,                   \* control point of capture_thread_proc
  started_frame_count,
  capture_frame_count,
  ring,                  \* ring[i]: "free", "queued" for capture, or "filled"
  stranded               \* a thread gave up since the device was opened

v4lVars == <<capturing, tpc, started_frame_count, capture_frame_count, ring, stranded>>
vars == <<srcVars, v4lVars>>

Frame == 0..(NumFrames - 1)
ThreadPC == {"none", "mmap", "first", "loop", "kickoff", "sync", "notify", "notified",
             "last_sync", "exited"}

Init ==
  /\ SrcInit
  /\ capturing = FALSE /\ tpc = "none"
  /\ started_frame_count = 0 /\ capture_frame_count = 0
  /\ ring = [i \in Frame |-> "free"] /\ stranded = FALSE

BufferOf(n) == n % NumFrames

\* Altered form, for TypeOK: a counter that does not wrap.
Successor_unbounded(n) == n + 1

Successor(n) == (n + 1) % CounterMod

\* The thread is between its creation and its return.
Running == tpc \notin {"none", "exited"}

-----------------------------------------------------------------------------
(* source_capture_start, source_capture_stop and source_release, called by  *)
(* vidcap.c in the application's thread.                                    *)

SourceCaptureStart ==
  /\ apc = "start_capture"
  /\ capturing' = TRUE
  /\ \/ tpc' = "mmap" /\ apc' = "started"
     \/ apc' = "start_failed" /\ UNCHANGED tpc  \* no thread could be created
  /\ UNCHANGED <<ctxVars, client, notifyVars, started_frame_count, capture_frame_count,
                 ring, stranded>>

SourceCaptureStop ==
  /\ apc = "stop_capture" /\ capturing
  /\ capturing' = FALSE
  /\ UNCHANGED <<srcVars, tpc, started_frame_count, capture_frame_count, ring, stranded>>

\* Altered form, for ContractSpec: stop does not wait for the thread.
SourceCaptureJoin_early ==
  /\ apc = "stop_capture" /\ ~capturing
  /\ apc' = "stopped"
  /\ UNCHANGED <<ctxVars, client, notifyVars, v4lVars>>

\* vc_thread_join: waits for the thread's return.
SourceCaptureJoin ==
  /\ apc = "stop_capture" /\ ~capturing
  /\ tpc = "exited"
  /\ tpc' = "none" /\ apc' = "stopped"
  /\ UNCHANGED <<ctxVars, client, notifyVars, capturing, started_frame_count,
                 capture_frame_count, ring, stranded>>

\* Closing the device gives the driver its buffers back.
SourceRelease ==
  /\ apc = "release"
  /\ apc' = "released"
  /\ ring' = [i \in Frame |-> "free"] /\ stranded' = FALSE
  /\ UNCHANGED <<ctxVars, client, notifyVars, capturing, tpc, started_frame_count,
                 capture_frame_count>>

-----------------------------------------------------------------------------
(* capture_thread_proc.                                                     *)

\* Altered form, for StopReturns: a failed ioctl is tried again.
ThreadBail_retry ==
  /\ tpc \in {"mmap", "first", "kickoff", "sync", "last_sync"}
  /\ tpc' = IF tpc = "mmap" THEN "exited" ELSE tpc
  /\ stranded' = TRUE
  /\ UNCHANGED <<srcVars, capturing, started_frame_count, capture_frame_count, ring>>

\* An ioctl or mmap fails: the thread returns and tells nobody.
ThreadBail ==
  /\ tpc \in {"mmap", "first", "kickoff", "sync", "last_sync"}
  /\ tpc' = "exited"
  /\ stranded' = TRUE
  /\ UNCHANGED <<srcVars, capturing, started_frame_count, capture_frame_count, ring>>

ThreadMmap ==
  /\ tpc = "mmap"
  /\ started_frame_count' = 0 /\ capture_frame_count' = 0
  /\ tpc' = "first"
  /\ UNCHANGED <<srcVars, capturing, ring, stranded>>

\* capture_kickoff: VIDIOCMCAPTURE, which a driver refuses for a queued buffer.
Kickoff(n) ==
  /\ ring[BufferOf(n)] # "queued"
  /\ ring' = [ring EXCEPT ![BufferOf(n)] = "queued"]

ThreadFirst ==
  /\ tpc = "first"
  /\ Kickoff(started_frame_count)
  /\ tpc' = "loop"
  /\ UNCHANGED <<srcVars, capturing, started_frame_count, capture_frame_count, stranded>>

\* Altered form, for NothingLeftQueued: no sync with the last capture.
ThreadLoop_abandon ==
  /\ tpc = "loop"
  /\ tpc' = IF capturing THEN "kickoff" ELSE "exited"
  /\ UNCHANGED <<srcVars, capturing, started_frame_count, capture_frame_count, ring, stranded>>

ThreadLoop ==
  /\ tpc = "loop"
  /\ tpc' = IF capturing THEN "kickoff" ELSE "last_sync"
  /\ UNCHANGED <<srcVars, capturing, started_frame_count, capture_frame_count, ring, stranded>>

\* Altered form, for IllegalOnlyAtCollisions: the count is advanced after its use.
ThreadKickoff_post ==
  /\ tpc = "kickoff"
  /\ started_frame_count' = Successor(started_frame_count)
  /\ Kickoff(started_frame_count)
  /\ tpc' = "sync"
  /\ UNCHANGED <<srcVars, capturing, capture_frame_count, stranded>>

ThreadKickoff ==
  /\ tpc = "kickoff"
  /\ started_frame_count' = Successor(started_frame_count)
  /\ Kickoff(Successor(started_frame_count))
  /\ tpc' = "sync"
  /\ UNCHANGED <<srcVars, capturing, capture_frame_count, stranded>>

\* VIDIOCSYNC: blocks while the buffer is queued, fails on one never queued.
Sync(n) ==
  /\ ring[BufferOf(n)] = "filled"
  /\ ring' = [ring EXCEPT ![BufferOf(n)] = "free"]

\* Altered form, for DeliveredBufferIsQuiet: waits for the capture started last.
ThreadSync_newest ==
  /\ tpc = "sync"
  /\ Sync(started_frame_count)
  /\ tpc' = "notify"
  /\ UNCHANGED <<srcVars, capturing, started_frame_count, capture_frame_count, stranded>>

ThreadSync ==
  /\ tpc = "sync"
  /\ Sync(capture_frame_count)
  /\ tpc' = "notify"
  /\ UNCHANGED <<srcVars, capturing, started_frame_count, capture_frame_count, stranded>>

ThreadNotify ==
  /\ tpc = "notify"
  /\ Notify(FALSE)
  /\ tpc' = "notified"
  /\ UNCHANGED <<capturing, started_frame_count, capture_frame_count, ring, stranded>>

ThreadCount ==
  /\ tpc = "notified"
  /\ NotifyReturns
  /\ capture_frame_count' = Successor(capture_frame_count)
  /\ tpc' = "loop"
  /\ UNCHANGED <<capturing, started_frame_count, ring, stranded>>

ThreadLastSync ==
  /\ tpc = "last_sync"
  /\ Sync(capture_frame_count)
  /\ tpc' = "exited"
  /\ UNCHANGED <<srcVars, capturing, started_frame_count, capture_frame_count, stranded>>

ThreadStep ==
  \/ ThreadBail \/ ThreadMmap \/ ThreadFirst \/ ThreadLoop \/ ThreadKickoff
  \/ ThreadSync \/ ThreadNotify \/ ThreadCount \/ ThreadLastSync

\* The driver fills a queued buffer.
DriverFill(i) ==
  /\ ring[i] = "queued"
  /\ ring' = [ring EXCEPT ![i] = "filled"]
  /\ UNCHANGED <<srcVars, capturing, tpc, started_frame_count, capture_frame_count, stranded>>

-----------------------------------------------------------------------------
BackendStep == SourceCaptureStart \/ SourceCaptureStop \/ SourceCaptureJoin \/ SourceRelease

AppStep == (ApiStep /\ UNCHANGED v4lVars) \/ BackendStep

CaptureThread == ThreadStep \/ (FrameStep /\ UNCHANGED v4lVars)

Next ==
  \/ ApiCall /\ UNCHANGED v4lVars
  \/ AppStep
  \/ CaptureThread
  \/ \E i \in Frame : DriverFill(i)

Spec == Init /\ [][Next]_vars

(* A call that has begun runs on, the capture thread is scheduled and the   *)
(* application's callback returns, and the driver fills what is queued.     *)
(* The application need not make another call.                              *)
Fairness ==
  /\ WF_vars(AppStep) /\ WF_vars(CaptureThread)
  /\ \A i \in Frame : WF_vars(DriverFill(i))

FairSpec == Spec /\ Fairness

-----------------------------------------------------------------------------
TypeOK ==
  /\ SrcTypeOK
  /\ capturing \in BOOLEAN /\ tpc \in ThreadPC
  /\ started_frame_count \in 0..(CounterMod - 1)
  /\ capture_frame_count \in 0..(CounterMod - 1)
  /\ ring \in [Frame -> {"free", "queued", "filled"}]
  /\ stranded \in BOOLEAN

\* The driver never fills the buffer whose picture the application is looking
\* at, though a capture into another buffer is always under way by then.
DeliveredBufferIsQuiet ==
  Notifying => ring[BufferOf(capture_frame_count)] = "free"

\* Two successive counts fall on the same buffer: always where the driver has one
\* only, and at the wrap of the counters for some numbers of buffers.
Collides(n) == BufferOf(n) = BufferOf(Successor(n))

\* Until some ioctl has failed, the driver is asked for what it must refuse (to
\* capture into a buffer still queued, or to sync one never queued: the thread
\* would end there, and silently) only when two successive counts collide, in the
\* kickoff of the second and in the sync with it.  The thread starts a capture
\* before it syncs the one before, and has one to sync with at the end: "Sync with
\* the last frame when capture has stopped (since we have overlapped capture
\* kickoffs)" (sapi_v4l.c:619-620).
IllegalOnlyAtCollisions ==
  ~stranded =>
    /\ tpc = "first" => ring[BufferOf(0)] = "free"
    /\ tpc = "kickoff" =>
         \/ ring[BufferOf(Successor(started_frame_count))] = "free"
         \/ Collides(started_frame_count)
    /\ tpc \in {"sync", "last_sync"} =>
         \/ ring[BufferOf(capture_frame_count)] # "free"
         \/ \E n \in 0..(CounterMod - 1) :
              Successor(n) = capture_frame_count /\ Collides(n)

\* A capture that is stopped leaves no capture under way in the driver, whatever
\* the ring: the next start finds every buffer free.
NothingLeftQueued ==
  ~stranded /\ ~Running => \A i \in Frame : ring[i] = "free"

\* A call of vidcap_src_capture_stop returns: the thread sees the flag, its
\* outstanding captures complete, and the join succeeds.
StopReturns == (apc = "stop_capture") ~> (apc = "idle")

\* The V4L backend keeps the contract with the application.
ContractSpec == Contract!Spec
=============================================================================
