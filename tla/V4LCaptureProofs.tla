-------------------------- MODULE V4LCaptureProofs --------------------------
(***************************************************************************)
(* Proofs about V4LCapture for every set of clients and formats, every     *)
(* ring size and counter width.                                            *)
(*                                                                         *)
(* The argument is that one thread at a time owns the source context:      *)
(* while a capture thread exists the application's thread is between       *)
(* start_capture and the join of stop_capture, and there it touches        *)
(* nothing a notification uses.  At the end, what a stop waits for, by a   *)
(* count of the steps left, and for which rings successive counts collide. *)
(***************************************************************************)
EXTENDS V4LCapture, SourceContextProofs, TLAPS

\* The application is inside vidcap_src_capture_start, past its allocation.
Starting == apc \in {"register_callback", "register_data", "start_capture", "started",
                     "start_failed"}

\* A capture is up, as far as the application's thread knows.
Capturing == src_state = "src_capturing" /\ apc \in {"idle", "stop_capture", "stopped"}

\* Callback and user data are both in place.
Registered ==
  \/ Capturing
  \/ apc \in {"start_capture", "started", "start_failed", "free_window", "clear_window",
              "clear_callback"}

ApiInv ==
  /\ src_state = "src_capturing" => Capturing
  /\ apc \in {"stop_capture", "stopped"} => src_state = "src_capturing"
  /\ Starting \/ apc \in {"free_window", "clear_window", "clear_callback", "clear_data"}
       => src_state = "src_bound"
  /\ apc \in {"release", "released"} => src_state \in {"src_acquired", "src_bound"}
  /\ frame_times = "live" <=> Starting \/ Capturing \/ apc = "free_window"
  /\ frame_times = "dangling" <=> apc = "clear_window"

\* Who may be notifying, and when a thread may exist.
ThreadInv ==
  /\ tpc # "none" => apc = "started" \/ (Capturing /\ apc # "stopped")
  /\ Notifying <=> tpc = "notified"
  /\ ~error_status
  /\ npc \notin {"set_bound", "drop_callback", "drop_data"}

\* The registration, and what the notification has read of it.
RegistrationInv ==
  /\ Registered => capture_callback = client /\ capture_data = client /\ client \in Clients
  /\ apc = "register_callback" => client \in Clients
  /\ apc = "register_data" =>
       capture_callback = client /\ capture_data = None /\ client \in Clients
  /\ apc = "clear_data" => capture_callback = None
  /\ ~Registered /\ apc \notin {"register_data", "clear_data"} =>
       capture_callback = None /\ capture_data = None
  /\ npc \in {"take_data", "deliver", "callback"} => cap_callback = client
  /\ npc \in {"deliver", "callback"} => cap_data = client

SrcInv == SrcTypeOK /\ WindowsAccounted /\ ApiInv /\ RegistrationInv

V4LTypeOK ==
  /\ capturing \in BOOLEAN /\ tpc \in ThreadPC
  /\ started_frame_count \in 0..(CounterMod - 1)
  /\ capture_frame_count \in 0..(CounterMod - 1)
  /\ ring \in [Frame -> {"free", "queued", "filled"}]
  /\ stranded \in BOOLEAN

OwnerInv == SrcInv /\ V4LTypeOK /\ ThreadInv

-----------------------------------------------------------------------------
LEMMA InitOwner == Init => OwnerInv
<1> SUFFICES ASSUME Init PROVE OwnerInv
  OBVIOUS
<1>1. SrcInv
  BY DEF SrcInv, SrcTypeOK, WindowsAccounted, ApiInv, RegistrationInv, Starting, Capturing,
         Registered, Init, SrcInit, SrcStates, ApiPC, NotifyPC
<1>2. V4LTypeOK
  <2>1. 0 \in 0..(CounterMod - 1)
    BY V4LCaptureAssumption
  <2>2. QED
    BY <2>1 DEF V4LTypeOK, Init, ThreadPC
<1>3. ThreadInv
  BY DEF ThreadInv, Notifying, Init, SrcInit
<1>4. QED
  BY <1>1, <1>2, <1>3 DEF OwnerInv

\* What is said of the source context depends on its variables alone, and so
\* does every word of it.
LEMMA SrcInvStable ==
  ASSUME SrcInv, UNCHANGED srcVars
  PROVE  SrcInv'
<1>1. /\ UNCHANGED <<src_state, capture_callback, capture_data, fmt, frame_times, windows>>
      /\ UNCHANGED <<apc, client, npc, cap_callback, cap_data, error_status>>
  BY DEF srcVars, ctxVars, apiVars, notifyVars
<1>2. SrcTypeOK' /\ WindowsAccounted'
  BY <1>1 DEF SrcInv, SrcTypeOK, WindowsAccounted
<1>3. ApiInv'
  BY <1>1 DEF SrcInv, ApiInv, Starting, Capturing
<1>4. RegistrationInv'
  BY <1>1 DEF SrcInv, RegistrationInv, Registered, Capturing
<1>5. QED
  BY <1>2, <1>3, <1>4 DEF SrcInv

\* A call of the application keeps the invariant.
LEMMA ApiCallKeepsOwner ==
  ASSUME OwnerInv, ApiCall, UNCHANGED v4lVars
  PROVE  OwnerInv'
<1> USE DEF OwnerInv, SrcInv, SrcTypeOK, V4LTypeOK, WindowsAccounted, ApiInv, ThreadInv,
            RegistrationInv, Starting, Capturing, Registered, Notifying, SrcStates, ApiPC,
            NotifyPC, v4lVars, ThreadPC
<1>1. CASE SrcAcquire
  BY <1>1 DEF SrcAcquire, apiVars, notifyVars
<1>2. CASE FormatBind
  BY <1>2 DEF FormatBind, apiVars, notifyVars
<1>3. CASE CaptureStop \/ SrcRelease
  BY <1>3 DEF CaptureStop, SrcRelease, ctxVars, notifyVars
<1>4. ASSUME NEW c \in Clients, CaptureStart(c) PROVE OwnerInv'
  BY <1>4 DEF CaptureStart, notifyVars
<1>5. QED
  BY <1>1, <1>2, <1>3, <1>4 DEF ApiCall

\* So does a step of a call under way.
LEMMA ApiStepKeepsOwner ==
  ASSUME OwnerInv, ApiStep, UNCHANGED v4lVars
  PROVE  OwnerInv'
<1> USE SourceContextAssumption
    DEF OwnerInv, SrcInv, SrcTypeOK, V4LTypeOK, WindowsAccounted, ApiInv, ThreadInv,
        RegistrationInv, Starting, Capturing, Registered, Notifying, SrcStates, ApiPC,
        NotifyPC, v4lVars, ThreadPC, notifyVars
<1>1. CASE RegisterCallback \/ RegisterData
  BY <1>1 DEF RegisterCallback, RegisterData
<1>2. CASE CaptureStarted
  BY <1>2 DEF CaptureStarted
<1>3. CASE CaptureStartBail
  BY <1>3 DEF CaptureStartBail
<1>4. CASE CaptureStopped
  BY <1>4 DEF CaptureStopped
<1>5. CASE FreeWindow \/ ClearWindow
  BY <1>5 DEF FreeWindow, ClearWindow
<1>6. CASE ClearCallback \/ ClearData
  BY <1>6 DEF ClearCallback, ClearData
<1>7. CASE SrcFree
  BY <1>7 DEF SrcFree
<1>8. QED
  BY <1>1, <1>2, <1>3, <1>4, <1>5, <1>6, <1>7 DEF ApiStep

\* So does the backend, called by the application's thread.
LEMMA BackendKeepsOwner ==
  ASSUME OwnerInv, BackendStep
  PROVE  OwnerInv'
<1> USE DEF OwnerInv
<1>1. CASE SourceCaptureStop
  <2>1. SrcInv'
    BY <1>1, SrcInvStable DEF SourceCaptureStop
  <2>2. V4LTypeOK' /\ ThreadInv'
    BY <1>1 DEF SourceCaptureStop, srcVars, ctxVars, apiVars, notifyVars, V4LTypeOK,
                ThreadInv, Capturing, Notifying
  <2>3. QED
    BY <2>1, <2>2
<1> USE DEF SrcInv, SrcTypeOK, V4LTypeOK, WindowsAccounted, ApiInv, ThreadInv,
            RegistrationInv, Starting, Capturing, Registered, Notifying, SrcStates, ApiPC,
            NotifyPC, ThreadPC
<1>2. CASE SourceCaptureStart
  BY <1>2 DEF SourceCaptureStart, ctxVars, notifyVars
<1>3. CASE SourceCaptureJoin
  BY <1>3 DEF SourceCaptureJoin, ctxVars, notifyVars
<1>4. CASE SourceRelease
  BY <1>4 DEF SourceRelease, ctxVars, notifyVars
<1>5. QED
  BY <1>1, <1>2, <1>3, <1>4 DEF BackendStep

\* So does the capture thread, in its own steps ...
LEMMA ThreadKeepsOwner ==
  ASSUME OwnerInv, ThreadStep
  PROVE  OwnerInv'
<1> USE DEF OwnerInv
<1>a. \A n \in 0..(CounterMod - 1) : Successor(n) \in 0..(CounterMod - 1)
  BY V4LCaptureAssumption DEF Successor
<1>b. 0 \in 0..(CounterMod - 1)
  BY V4LCaptureAssumption
<1>1. CASE ThreadNotify \/ ThreadCount
  <2>1. SrcInv'
    BY <1>1 DEF ThreadNotify, ThreadCount, Notify, NotifyReturns, SrcInv, SrcTypeOK,
                WindowsAccounted, ApiInv, RegistrationInv, Starting, Capturing, Registered,
                NotifyPC, ctxVars, apiVars
  <2>2. V4LTypeOK'
    BY <1>1, <1>a DEF ThreadNotify, ThreadCount, V4LTypeOK, ThreadPC
  <2>3. ThreadInv'
    BY <1>1 DEF ThreadNotify, ThreadCount, Notify, NotifyReturns, ThreadInv, Capturing,
                Notifying, ctxVars, apiVars
  <2>4. QED
    BY <2>1, <2>2, <2>3
<1>2. ASSUME UNCHANGED srcVars, tpc # "none", tpc # "notified", tpc' # "none",
             tpc' # "notified", V4LTypeOK'
      PROVE  OwnerInv'
  BY <1>2, SrcInvStable DEF ThreadInv, Capturing, Notifying, srcVars, ctxVars, apiVars,
                            notifyVars
<1> USE DEF V4LTypeOK, ThreadPC
<1>3. CASE ThreadBail
  BY <1>2, <1>3 DEF ThreadBail
<1>4. CASE ThreadMmap \/ ThreadLoop
  BY <1>2, <1>4, <1>b DEF ThreadMmap, ThreadLoop
<1>5. CASE ThreadFirst
  BY <1>2, <1>5 DEF ThreadFirst, Kickoff
<1>6. CASE ThreadKickoff
  BY <1>2, <1>6, <1>a DEF ThreadKickoff, Kickoff
<1>7. CASE ThreadSync \/ ThreadLastSync
  BY <1>2, <1>7 DEF ThreadSync, ThreadLastSync, Sync
<1>8. QED
  BY <1>1, <1>3, <1>4, <1>5, <1>6, <1>7 DEF ThreadStep

\* ... and while it delivers a frame.
LEMMA FrameKeepsOwner ==
  ASSUME OwnerInv, FrameStep, UNCHANGED v4lVars
  PROVE  OwnerInv'
  BY DEF FrameStep, TakeCallback, TakeData, Deliver, CallbackReturns, AfterDelivery,
         v4lVars, ctxVars, apiVars, OwnerInv, SrcInv, SrcTypeOK, V4LTypeOK, ThreadPC,
         WindowsAccounted, ApiInv, ThreadInv, RegistrationInv, Starting, Capturing,
         Registered, Notifying, NotifyPC

LEMMA OtherKeepsOwner ==
  ASSUME OwnerInv, (\E i \in Frame : DriverFill(i)) \/ UNCHANGED vars
  PROVE  OwnerInv'
<1>1. UNCHANGED srcVars /\ UNCHANGED tpc
  BY DEF DriverFill, vars, v4lVars
<1>2. V4LTypeOK'
  BY DEF DriverFill, vars, v4lVars, OwnerInv, V4LTypeOK
<1>3. QED
  BY <1>1, <1>2, SrcInvStable DEF OwnerInv, ThreadInv, Capturing, Notifying, srcVars, ctxVars,
                                  apiVars, notifyVars

LEMMA NextKeepsOwner ==
  ASSUME OwnerInv, [Next]_vars
  PROVE  OwnerInv'
  BY ApiCallKeepsOwner, ApiStepKeepsOwner, BackendKeepsOwner, ThreadKeepsOwner,
     FrameKeepsOwner, OtherKeepsOwner DEF Next, AppStep, CaptureThread

LEMMA OwnerCorrect == Spec => []OwnerInv
  BY InitOwner, NextKeepsOwner, PTL DEF Spec

-----------------------------------------------------------------------------
\* Every variable keeps its type.
THEOREM TypeCorrect == Spec => []TypeOK
  BY OwnerCorrect, PTL DEF OwnerInv, SrcInv, V4LTypeOK, TypeOK

\* No sliding window is lost and none is freed twice.
THEOREM WindowsAccountedHolds == Spec => []WindowsAccounted
  BY OwnerCorrect, PTL DEF OwnerInv, SrcInv

\* The application's thread leaves alone what a notification works with.
THEOREM NotifyKeepsContextHolds == Spec => NotifyKeepsContext
<1>1. OwnerInv /\ [Next]_vars =>
        [Notifying => /\ UNCHANGED <<capture_callback, capture_data, fmt, frame_times, windows>>
                      /\ src_state' # "none"]_srcVars
  <2> SUFFICES ASSUME OwnerInv, [Next]_vars, Notifying, ~UNCHANGED srcVars
               PROVE  /\ UNCHANGED <<capture_callback, capture_data, fmt, frame_times, windows>>
                      /\ src_state' # "none"
    OBVIOUS
  <2>1. /\ tpc = "notified" /\ src_state # "none"
        /\ apc = "started" \/ (src_state = "src_capturing" /\ apc \in {"idle", "stop_capture"})
    BY DEF OwnerInv, SrcInv, ApiInv, ThreadInv, Starting, Capturing
  <2>2. CASE ApiCall
    BY <2>1, <2>2 DEF ApiCall, SrcAcquire, FormatBind, CaptureStart, CaptureStop, SrcRelease,
                      ctxVars
  <2>3. CASE ApiStep
    BY <2>1, <2>3 DEF ApiStep, RegisterCallback, RegisterData, CaptureStarted,
                      CaptureStartBail, CaptureStopped, FreeWindow, ClearWindow, ClearCallback,
                      ClearData, SrcFree
  <2>4. CASE BackendStep
    BY <2>1, <2>4 DEF BackendStep, SourceCaptureStart, SourceCaptureStop, SourceCaptureJoin,
                      SourceRelease, srcVars, ctxVars
  <2>5. CASE ThreadStep
    BY <2>1, <2>5 DEF ThreadStep, ThreadBail, ThreadMmap, ThreadFirst, ThreadLoop,
                      ThreadKickoff, ThreadSync, ThreadNotify, ThreadCount, ThreadLastSync,
                      NotifyReturns, Notify, ctxVars
  <2>6. CASE FrameStep
    BY <2>1, <2>6 DEF FrameStep, TakeCallback, TakeData, Deliver, CallbackReturns, ctxVars
  <2>7. QED
    BY <2>2, <2>3, <2>4, <2>5, <2>6
       DEF Next, AppStep, CaptureThread, DriverFill, vars
<1>2. QED
  BY <1>1, OwnerCorrect, PTL DEF Spec, NotifyKeepsContext

-----------------------------------------------------------------------------
(* The contract.  What a client is shows in the phase of the capture.       *)

LEMMA RegistrationIs ==
  ASSUME OwnerInv
  PROVE  /\ Registration = IF Registered THEN client ELSE None
         /\ Call = IF npc = "callback" THEN <<client, client>> ELSE None
         /\ Registered => client \in Clients /\ client # None
  BY SourceContextAssumption
  DEF OwnerInv, SrcInv, RegistrationInv, Registration, Call, Registered, Capturing

\* A call is made only to a registered client, and the callback pair is never None.
LEMMA CallIsRegistered ==
  ASSUME OwnerInv, npc = "callback"
  PROVE  Registered /\ apc \in {"started", "idle", "stop_capture"}
  BY DEF OwnerInv, ThreadInv, Notifying, Registered, Capturing

\* Where a step leaves the registration and the call alone the contract stutters.
LEMMA PhaseStutters ==
  ASSUME OwnerInv, OwnerInv', Registered' = Registered, Registered => client' = client,
         (npc' = "callback") = (npc = "callback")
  PROVE  UNCHANGED Contract!contractVars
<1>1. /\ Registration = IF Registered THEN client ELSE None
      /\ Call = IF npc = "callback" THEN <<client, client>> ELSE None
  BY RegistrationIs
<1>2. (/\ Registration = IF Registered THEN client ELSE None
       /\ Call = IF npc = "callback" THEN <<client, client>> ELSE None)'
  BY RegistrationIs, PTL
<1>3. npc = "callback" => Registered
  BY CallIsRegistered
<1>4. QED
  BY <1>1, <1>2, <1>3 DEF Contract!contractVars

\* No notification runs while the registration comes or goes.
LEMMA RegistrationAlone ==
  ASSUME OwnerInv, apc \notin {"started", "idle", "stop_capture"}
  PROVE  npc = "none" /\ Call = None
  BY DEF OwnerInv, ThreadInv, Capturing, Notifying, Call

LEMMA ApiKeepsContract ==
  ASSUME OwnerInv, OwnerInv', ApiCall \/ ApiStep, UNCHANGED v4lVars
  PROVE  [Contract!Next]_Contract!contractVars
<1>1. /\ Registration = IF Registered THEN client ELSE None
      /\ Registered => client \in Clients /\ client # None
  BY RegistrationIs
<1>2. (Registration = IF Registered THEN client ELSE None)'
  BY RegistrationIs, PTL
<1>3. UNCHANGED notifyVars => UNCHANGED Call
  BY DEF notifyVars, Call
<1>4. CASE RegisterData
  <2>1. ~Registered /\ Registered' /\ client' = client /\ Call = None /\ UNCHANGED Call
    BY <1>3, <1>4, RegistrationAlone DEF RegisterData, Registered, Capturing, OwnerInv, SrcInv,
                                     ApiInv
  <2>2. client \in Clients
    BY <1>4 DEF RegisterData, OwnerInv, SrcInv, RegistrationInv
  <2>3. Contract!Register(client)
    BY <1>1, <1>2, <2>1, <2>2 DEF Contract!Register
  <2>4. QED
    BY <2>2, <2>3 DEF Contract!Next
<1>5. CASE CaptureStartBail \/ ClearCallback
  <2>1. Registered /\ ~Registered' /\ Call = None /\ UNCHANGED Call
    BY <1>3, <1>5, RegistrationAlone DEF CaptureStartBail, ClearCallback, Registered, Capturing,
                                     OwnerInv, SrcInv, ApiInv, Starting
  <2>2. Contract!Unregister
    BY <1>1, <1>2, <2>1 DEF Contract!Unregister
  <2>3. QED
    BY <2>2 DEF Contract!Next
<1>6. CASE ApiCall \/ RegisterCallback \/ CaptureStarted \/ CaptureStopped \/ FreeWindow
           \/ ClearWindow \/ ClearData \/ SrcFree
  <2>1. Registered' = Registered /\ (Registered => client' = client) /\ npc' = npc
    BY <1>6 DEF ApiCall, SrcAcquire, FormatBind, CaptureStart, CaptureStop, SrcRelease,
                RegisterCallback, CaptureStarted, CaptureStopped, FreeWindow, ClearWindow,
                ClearData, SrcFree, Registered, Capturing, OwnerInv, SrcInv, ApiInv, Starting,
                notifyVars, apiVars, ctxVars
  <2>2. QED
    BY <2>1, PhaseStutters
<1>7. QED
  BY <1>4, <1>5, <1>6 DEF ApiStep

LEMMA ThreadKeepsContract ==
  ASSUME OwnerInv, OwnerInv', CaptureThread
  PROVE  [Contract!Next]_Contract!contractVars
<1>1. CASE FrameStep /\ npc' = "callback"
  <2>1. Deliver /\ npc = "deliver" /\ cap_callback # None
    BY <1>1 DEF FrameStep, TakeCallback, TakeData, Deliver, CallbackReturns, AfterDelivery
  <2>2. Registered /\ cap_callback = client /\ cap_data = client
    BY <2>1 DEF OwnerInv, SrcInv, ThreadInv, RegistrationInv, Notifying, Registered, Capturing
  <2>3. Registration = client /\ Call = None /\ client # None
    BY <2>1, <2>2, RegistrationIs
  <2>4. Registration' = Registration /\ Call' = <<client, client>>
    BY <1>1, <2>1, <2>2 DEF Deliver, Registration, Call, ctxVars
  <2>5. QED
    BY <2>3, <2>4 DEF Contract!Next, Contract!Enter
<1>2. CASE CallbackReturns
  <2>1. npc = "callback" /\ npc' # "callback" /\ UNCHANGED Registration
    BY <1>2 DEF CallbackReturns, AfterDelivery, Registration, ctxVars
  <2>2. Call = <<client, client>> /\ client \in Clients /\ Call' = None
    BY <2>1, CallIsRegistered, RegistrationIs DEF Call
  <2>3. Call # None
    BY <2>2, SourceContextAssumption
  <2>4. QED
    BY <2>1, <2>2, <2>3 DEF Contract!Next, Contract!Leave
<1>3. CASE ThreadStep \/ (FrameStep /\ npc' # "callback" /\ ~CallbackReturns)
  <2>1. UNCHANGED <<apc, src_state, client>> /\ (npc' = "callback") = (npc = "callback")
    BY <1>3 DEF ThreadStep, ThreadBail, ThreadMmap, ThreadFirst, ThreadLoop, ThreadKickoff,
                ThreadSync, ThreadNotify, ThreadCount, ThreadLastSync, NotifyReturns, Notify,
                FrameStep, TakeCallback, TakeData, Deliver, srcVars, ctxVars, apiVars,
                notifyVars
  <2>2. Registered' = Registered
    BY <2>1 DEF Registered, Capturing
  <2>3. QED
    BY <2>1, <2>2, PhaseStutters
<1>4. QED
  BY <1>1, <1>2, <1>3 DEF CaptureThread, FrameStep

\* The V4L backend implements the contract.
THEOREM ContractHolds == Spec => ContractSpec
<1>1. Init => Contract!Init
  BY DEF Init, SrcInit, Contract!Init, Registration, Call
<1>2. OwnerInv /\ OwnerInv' /\ [Next]_vars => [Contract!Next]_Contract!contractVars
  <2> SUFFICES ASSUME OwnerInv, OwnerInv', [Next]_vars
               PROVE  [Contract!Next]_Contract!contractVars
    OBVIOUS
  <2>1. CASE (ApiCall \/ ApiStep) /\ UNCHANGED v4lVars
    BY <2>1, ApiKeepsContract
  <2>2. CASE CaptureThread
    BY <2>2, ThreadKeepsContract
  <2>3. CASE BackendStep \/ (\E i \in Frame : DriverFill(i)) \/ UNCHANGED vars
    <3>1. UNCHANGED <<src_state, client, npc>> /\ Registered' = Registered
      BY <2>3 DEF BackendStep, SourceCaptureStart, SourceCaptureStop, SourceCaptureJoin,
                  SourceRelease, DriverFill, vars, srcVars, ctxVars, apiVars, notifyVars,
                  Registered, Capturing, OwnerInv, SrcInv, ApiInv
    <3>2. QED
      BY <3>1, PhaseStutters
  <2>4. QED
    BY <2>1, <2>2, <2>3 DEF Next, AppStep
<1>3. QED
  BY <1>1, <1>2, OwnerCorrect, PTL DEF Spec, ContractSpec, Contract!Spec

\* A client's callback is called with its own pair and only in its capture.
THEOREM CallsHold == Spec => [](CallIsOwn /\ CallInCapture) /\ RegistrationHeld
<1>1. OwnerInv => CallInCapture
  BY DEF OwnerInv, ThreadInv, Notifying, Capturing, CallInCapture
<1>2. Spec => Contract!Spec
  BY ContractHolds DEF ContractSpec
<1> QED BY <1>1, <1>2, OwnerCorrect, ContractMeans, PTL

-----------------------------------------------------------------------------
(* The stop.                                                                *)

\* How many steps the capture thread takes until it has been joined, at most,
\* once the flag is clear.
StepsLeft(pc) ==
  CASE pc = "none" -> 0 [] pc = "exited" -> 1 [] pc = "last_sync" -> 2 [] pc = "loop" -> 3
    [] pc = "notified" -> 4 [] pc = "notify" -> 5 [] pc = "sync" -> 6 [] pc = "kickoff" -> 7
    [] pc = "first" -> 8 [] OTHER -> 9

\* A stop finds a thread to join, whichever way its capture has gone on.
JoinHasThread == apc = "stop_capture" => tpc # "none"

\* Once vidcap_src_capture_stop has cleared the flag the thread goes forward
\* only: it delivers at most one more frame, and nothing takes it back into its
\* loop (sapi_v4l.c, capture_thread_proc).
StopsInOneRound ==
  [][apc = "stop_capture" /\ ~capturing /\ tpc' # tpc => StepsLeft(tpc') < StepsLeft(tpc)]_vars

ThreadStays == apc = "started" \/ (src_state = "src_capturing" /\ apc # "stopped") => tpc # "none"

\* What a stop waits for is near: the join has a thread, and no step of any
\* thread puts off its return.
THEOREM StopIsShort == Spec => []JoinHasThread /\ StopsInOneRound
<1>1. Init => ThreadStays
  BY DEF Init, SrcInit, ThreadStays
<1>2. OwnerInv /\ ThreadStays /\ [Next]_vars => ThreadStays'
  <2> SUFFICES ASSUME OwnerInv, ThreadStays, [Next]_vars PROVE ThreadStays'
    OBVIOUS
  <2> USE DEF ThreadStays, OwnerInv, SrcInv, ApiInv, Starting, Capturing
  <2>1. CASE (ApiCall \/ ApiStep) /\ UNCHANGED v4lVars
    BY <2>1 DEF v4lVars, ApiCall, SrcAcquire, FormatBind, CaptureStart, CaptureStop, SrcRelease,
                ApiStep, RegisterCallback, RegisterData, CaptureStarted, CaptureStartBail,
                CaptureStopped, FreeWindow, ClearWindow, ClearCallback, ClearData, SrcFree,
                ctxVars, apiVars
  <2>2. CASE BackendStep
    BY <2>2 DEF BackendStep, SourceCaptureStart, SourceCaptureStop, SourceCaptureJoin,
                SourceRelease, srcVars, ctxVars, apiVars
  <2>3. CASE CaptureThread
    BY <2>3 DEF CaptureThread, ThreadStep, ThreadBail, ThreadMmap, ThreadFirst, ThreadLoop,
                ThreadKickoff, ThreadSync, ThreadNotify, ThreadCount, ThreadLastSync, Notify,
                NotifyReturns, FrameStep, TakeCallback, TakeData, Deliver, CallbackReturns,
                v4lVars, srcVars, ctxVars, apiVars
  <2>4. CASE (\E i \in Frame : DriverFill(i)) \/ UNCHANGED vars
    BY <2>4 DEF DriverFill, vars, v4lVars, srcVars, ctxVars, apiVars
  <2> QED BY <2>1, <2>2, <2>3, <2>4 DEF Next, AppStep
<1>3. OwnerInv /\ ThreadStays => JoinHasThread
  BY DEF OwnerInv, SrcInv, ApiInv, ThreadStays, JoinHasThread
<1>4. [Next]_vars =>
        [apc = "stop_capture" /\ ~capturing /\ tpc' # tpc => StepsLeft(tpc') < StepsLeft(tpc)]_vars
  <2> SUFFICES ASSUME [Next]_vars, apc = "stop_capture", ~capturing, tpc' # tpc
               PROVE  StepsLeft(tpc') < StepsLeft(tpc)
    OBVIOUS
  <2>1. \/ tpc = "exited" /\ tpc' = "none"
        \/ ThreadStep
    BY DEF Next, AppStep, BackendStep, SourceCaptureStart, SourceCaptureStop, SourceCaptureJoin,
           SourceRelease, CaptureThread, DriverFill, vars, v4lVars
  <2>2. CASE ThreadStep
    <3>1. \/ tpc \in {"mmap", "first", "kickoff", "sync", "last_sync"} /\ tpc' = "exited"
          \/ tpc = "mmap" /\ tpc' = "first"
          \/ tpc = "first" /\ tpc' = "loop"
          \/ tpc = "loop" /\ tpc' = "last_sync"
          \/ tpc = "kickoff" /\ tpc' = "sync"
          \/ tpc = "sync" /\ tpc' = "notify"
          \/ tpc = "notify" /\ tpc' = "notified"
          \/ tpc = "notified" /\ tpc' = "loop"
      BY <2>2 DEF ThreadStep, ThreadBail, ThreadMmap, ThreadFirst, ThreadLoop, ThreadKickoff,
                  ThreadSync, ThreadNotify, ThreadCount, ThreadLastSync
    <3> QED BY <3>1 DEF StepsLeft
  <2> QED BY <2>1, <2>2 DEF StepsLeft
<1> QED BY <1>1, <1>2, <1>3, <1>4, OwnerCorrect, PTL DEF Spec, StopsInOneRound

-----------------------------------------------------------------------------
(* The ring of buffers.                                                     *)

\* None but the buffers in S are with the driver.
OnlyWithDriver(S) == \A i \in Frame : ring[i] # "free" => i \in S

WithDriver(i) == ring[i] # "free"

\* Count m falls on the buffer of the count before it.
AfterCollision(m) == \E n \in 0..(CounterMod - 1) : Successor(n) = m /\ Collides(n)

RingInv ==
  /\ tpc \in {"notify", "notified"} => ~WithDriver(BufferOf(capture_frame_count))
  /\ ~stranded =>
       /\ tpc \in {"none", "mmap", "first", "exited"} => OnlyWithDriver({})
       /\ tpc = "first" => started_frame_count = 0 /\ capture_frame_count = 0
       /\ tpc \in {"loop", "kickoff", "last_sync"} =>
            /\ started_frame_count = capture_frame_count
            /\ OnlyWithDriver({BufferOf(capture_frame_count)})
            /\ \/ WithDriver(BufferOf(capture_frame_count))
               \/ AfterCollision(capture_frame_count)
       /\ tpc = "sync" =>
            /\ started_frame_count = Successor(capture_frame_count)
            /\ OnlyWithDriver({BufferOf(capture_frame_count), BufferOf(started_frame_count)})
            /\ WithDriver(BufferOf(started_frame_count))
            /\ \/ WithDriver(BufferOf(capture_frame_count))
               \/ AfterCollision(capture_frame_count)
       /\ tpc \in {"notify", "notified"} =>
            /\ started_frame_count = Successor(capture_frame_count)
            /\ OnlyWithDriver({BufferOf(started_frame_count)})
            /\ WithDriver(BufferOf(started_frame_count)) \/ Collides(capture_frame_count)

\* Counts fall on buffers.
LEMMA CountsFallOnBuffers ==
  ASSUME NEW n \in 0..(CounterMod - 1)
  PROVE  /\ BufferOf(n) \in Frame /\ BufferOf(Successor(n)) \in Frame
         /\ BufferOf(0) \in Frame
<1>1. \A k \in Nat : k % NumFrames \in Frame
  BY V4LCaptureAssumption DEF Frame
<1>2. (n + 1) % CounterMod \in Nat /\ n \in Nat
  BY V4LCaptureAssumption
<1>3. QED
  BY <1>1, <1>2 DEF BufferOf, Successor

LEMMA RingCorrect == Spec => []RingInv
<1>1. Init => RingInv
  BY DEF Init, RingInv, OnlyWithDriver
<1>2. OwnerInv /\ RingInv /\ [Next]_vars => RingInv'
  <2> SUFFICES ASSUME OwnerInv, RingInv, [Next]_vars PROVE RingInv'
    OBVIOUS
  <2> DEFINE c == capture_frame_count
  <2>1. /\ V4LTypeOK
        /\ BufferOf(c) \in Frame /\ BufferOf(Successor(c)) \in Frame
        /\ BufferOf(0) \in Frame
    BY CountsFallOnBuffers DEF OwnerInv, V4LTypeOK
  <2> HIDE DEF c
  <2> USE <2>1 DEF RingInv, OnlyWithDriver, WithDriver, V4LTypeOK, c
  <2>2. CASE UNCHANGED v4lVars
    BY <2>2 DEF v4lVars, BufferOf, Successor
  <2>3. CASE SourceCaptureStart
    BY <2>3 DEF SourceCaptureStart, BufferOf, Successor, OwnerInv, ThreadInv, Capturing
  <2>4. CASE SourceCaptureStop
    BY <2>4 DEF SourceCaptureStop
  <2>5. CASE SourceCaptureJoin
    BY <2>5 DEF SourceCaptureJoin
  <2>6. CASE SourceRelease
    BY <2>6 DEF SourceRelease, OwnerInv, ThreadInv, Capturing, SrcInv, ApiInv
  <2>7. CASE ThreadBail
    BY <2>7 DEF ThreadBail
  <2>8. CASE ThreadMmap
    BY <2>8 DEF ThreadMmap
  <2>9. CASE ThreadFirst
    BY <2>9 DEF ThreadFirst, Kickoff
  <2>10. CASE ThreadLoop
    BY <2>10 DEF ThreadLoop
  <2>11. CASE ThreadKickoff
    BY <2>11 DEF ThreadKickoff, Kickoff
  <2>12. CASE ThreadSync
    BY <2>12 DEF ThreadSync, Sync, Collides
  <2>13. CASE ThreadNotify
    BY <2>13 DEF ThreadNotify
  <2>14. CASE ThreadCount
    <3>1. Collides(c) => AfterCollision(Successor(c))
      BY DEF AfterCollision
    <3>2. ~stranded =>
            /\ started_frame_count = Successor(c)
            /\ OnlyWithDriver({BufferOf(started_frame_count)})
            /\ WithDriver(BufferOf(started_frame_count)) \/ Collides(c)
      BY <2>14 DEF ThreadCount
    <3>3. /\ capture_frame_count' = Successor(c) /\ tpc' = "loop"
          /\ UNCHANGED <<started_frame_count, ring, stranded>>
      BY <2>14 DEF ThreadCount
    <3>4. QED
      BY <3>1, <3>2, <3>3 DEF AfterCollision, BufferOf, Collides, Successor
  <2>15. CASE ThreadLastSync
    BY <2>15 DEF ThreadLastSync, Sync
  <2>16. ASSUME NEW i \in Frame, DriverFill(i) PROVE RingInv'
    BY <2>16 DEF DriverFill
  <2>17. QED
    BY <2>2, <2>3, <2>4, <2>5, <2>6, <2>7, <2>8, <2>9, <2>10, <2>11, <2>12, <2>13, <2>14,
       <2>15, <2>16 DEF Next, AppStep, BackendStep, CaptureThread, ThreadStep, vars
<1>3. QED
  BY <1>1, <1>2, OwnerCorrect, PTL DEF Spec

\* The buffer being delivered is not with the driver.
THEOREM DeliveredBufferIsQuietHolds == Spec => []DeliveredBufferIsQuiet
<1>1. OwnerInv /\ RingInv => DeliveredBufferIsQuiet
  <2> SUFFICES ASSUME OwnerInv, RingInv, Notifying PROVE ring[BufferOf(capture_frame_count)] = "free"
    BY DEF DeliveredBufferIsQuiet
  <2>1. tpc \in {"notify", "notified"}
    BY DEF OwnerInv, ThreadInv
  <2>2. QED
    BY <2>1 DEF RingInv, WithDriver
<1>2. QED
  BY <1>1, OwnerCorrect, RingCorrect, PTL

\* For every ring: the driver is asked for what it must refuse only where two
\* successive counts fall on one buffer, and a stopped capture leaves nothing with
\* it.
THEOREM RingProtocolHolds == Spec => [](IllegalOnlyAtCollisions /\ NothingLeftQueued)
<1>1. OwnerInv /\ RingInv => IllegalOnlyAtCollisions /\ NothingLeftQueued
  <2> SUFFICES ASSUME OwnerInv, RingInv PROVE IllegalOnlyAtCollisions /\ NothingLeftQueued
    OBVIOUS
  <2>1. /\ BufferOf(capture_frame_count) \in Frame /\ BufferOf(0) \in Frame
        /\ BufferOf(Successor(capture_frame_count)) \in Frame
    BY CountsFallOnBuffers DEF OwnerInv, V4LTypeOK
  <2>2. IllegalOnlyAtCollisions
    BY <2>1 DEF IllegalOnlyAtCollisions, RingInv, OnlyWithDriver, WithDriver, AfterCollision,
                Collides
  <2>3. NothingLeftQueued
    BY DEF NothingLeftQueued, RingInv, OnlyWithDriver, Running
  <2>4. QED
    BY <2>2, <2>3
<1>2. QED
  BY <1>1, OwnerCorrect, RingCorrect, PTL

\* A capture that is stopped leaves no buffer with the driver, unless a failed
\* thread stranded some.
COROLLARY NothingLeftQueuedHolds == Spec => []NothingLeftQueued
BY RingProtocolHolds, PTL

-----------------------------------------------------------------------------
(* The rings the driver may have.                                           *)

\* The remainder of the next number.
LEMMA NextRemainder ==
  ASSUME NEW k \in Nat \ {0}, NEW n \in Nat
  PROVE  /\ n % k \in 0..(k - 1)
         /\ (n + 1) % k = IF (n % k) = k - 1 THEN 0 ELSE (n % k) + 1
<1> DEFINE q == n \div k
           r == n % k
<1>1. q \in Nat /\ r \in 0..(k - 1) /\ n = k * q + r
  OBVIOUS
<1> HIDE DEF q, r
<1>2. ASSUME NEW a \in Nat, NEW b \in 0..(k - 1)
      PROVE  (k * a + b) % k = b
  OBVIOUS
<1>3. CASE r = k - 1
  <2>1. n + 1 = k * (q + 1) + 0 /\ q + 1 \in Nat /\ 0 \in 0..(k - 1)
    BY <1>1, <1>3
  <2>2. (n + 1) % k = 0
    BY <1>2, <2>1
  <2> QED BY <1>1, <1>3, <2>2 DEF r
<1>4. CASE r # k - 1
  <2>1. n + 1 = k * q + (r + 1) /\ r + 1 \in 0..(k - 1)
    BY <1>1, <1>4
  <2>2. (n + 1) % k = r + 1
    BY <1>1, <1>2, <2>1
  <2> QED BY <1>1, <1>4, <2>2 DEF r
<1> QED BY <1>3, <1>4

\* For which rings no two successive counts collide: two buffers or more, but no
\* number of them that divides the largest frame count.  With counters of 32 bits
\* these divisors are 3, 5, 17, 257, 65537 and their products: there the count
\* before the wrap and the one after it fall on the same buffer, and
\* capture_kickoff is refused (sapi_v4l.c:554).
THEOREM RingSizes ==
  ASSUME NEW frames \in Nat \ {0}, NEW mod \in Nat \ {0}
  PROVE  (\A n \in 0..(mod - 1) : n % frames # ((n + 1) % mod) % frames)
           <=> frames > 1 /\ (mod - 1) % frames # 0
<1>1. /\ \A n \in 0..(mod - 1) : n < mod - 1 => (n + 1) % mod = n + 1
      /\ ((mod - 1) + 1) % mod = 0 /\ 0 % frames = 0
  OBVIOUS
<1>2. ASSUME \A n \in 0..(mod - 1) : n % frames # ((n + 1) % mod) % frames
      PROVE  frames > 1 /\ (mod - 1) % frames # 0
  <2>1. mod - 1 \in 0..(mod - 1)
    OBVIOUS
  <2>2. (mod - 1) % frames # 0
    BY <1>1, <1>2, <2>1
  <2>3. (mod - 1) % frames \in 0..(frames - 1)
    BY NextRemainder
  <2> QED BY <2>2, <2>3
<1>3. ASSUME frames > 1, (mod - 1) % frames # 0, NEW n \in 0..(mod - 1)
      PROVE  n % frames # ((n + 1) % mod) % frames
  <2>1. CASE n = mod - 1
    BY <1>1, <1>3, <2>1
  <2>2. CASE n < mod - 1
    <3>1. ((n + 1) % mod) % frames = (n + 1) % frames
      BY <1>1, <2>2
    <3>2. /\ n % frames \in 0..(frames - 1)
          /\ (n + 1) % frames = IF n % frames = frames - 1 THEN 0 ELSE (n % frames) + 1
      <4>1. n \in Nat
        OBVIOUS
      <4> QED BY <4>1, NextRemainder
    <3> DEFINE r == n % frames
    <3>3. r \in 0..(frames - 1) /\ (IF r = frames - 1 THEN 0 ELSE r + 1) # r
      BY <1>3, <3>2
    <3> QED BY <3>1, <3>2, <3>3
  <2> QED BY <2>1, <2>2
<1> QED BY <1>2, <1>3
=============================================================================
