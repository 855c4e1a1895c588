---------------------------- MODULE SourcesProofs ----------------------------
(***************************************************************************)
(* Proofs about Sources for every set of devices, contexts and clients and *)
(* for the three backends.                                                 *)
(*                                                                         *)
(* The invariant has two halves that hardly meet.  MonitorInv is about the *)
(* monitor thread and the call that starts or stops it: the flag or the    *)
(* mutex keeps the thread out of a call by the time vidcap_srcs_notify     *)
(* returns.  NotifyInv adds to it what the thread calls, and with what     *)
(* data.  TakenInv is about what is held: each backend has another         *)
(* record of it, V4L the driver's exclusive open, QuickTime its flags and  *)
(* DirectShow its registry, and from each follows that no unit is held     *)
(* twice, unless QuickTime was asked for it by name.                       *)
(***************************************************************************)
EXTENDS Sources, TLAPS

CallPC == {"load", "load_data", "calling"}

\* vidcap_srcs_notify is in progress and may have a monitor thread to deal with.
NotifyPC == {"set_data", "monitor", "join"}

MonitorTypes ==
  /\ backend \in Backends /\ library \in {"down", "up"} /\ ref_count \in 0..1
  /\ notify_callback \in Clients \cup {None} /\ notify_data \in Clients \cup {None}
  /\ apc \in ApiPC /\ client \in Clients \cup {None} /\ tpc \in ThreadPC
  /\ cb \in Clients \cup {None} /\ data \in Clients \cup {None}

FlagTypes ==
  destroying \in BOOLEAN /\ notifying \in BOOLEAN /\ watched \in BOOLEAN /\ last_count \in BOOLEAN

\* The thread holds a callback during the call.
HoldsInv == tpc \in CallPC <=> cb # None

\* What the application's calls find, whatever the backend.
CallInv ==
  /\ library = "down" => apc = "idle" /\ ref_count = 0
  /\ apc \in {"set_data", "monitor", "join", "unset_data", "release", "release_join"}
       => ref_count = 1
  /\ apc \in {"destroy", "destroy_join"} => ref_count = 0
  /\ apc \in {"set_data", "monitor"} => notify_callback = client

\* V4L and QuickTime: the thread by its flag, while nobody waits for its end.
FlagInv ==
  backend # "dshow" =>
    /\ apc \in {"set_data", "monitor"} => ~Alive \/ (client = None /\ notifying)
    /\ apc = "unset_data" => ~Alive
    /\ apc # "destroy_join"

V4LInv ==
  backend = "v4l" =>
    /\ tpc \in {"none", "begin", "exited"} /\ apc # "release_join"
    /\ library = "up" /\ Alive => notifying \/ apc = "join"

QtInv ==
  backend = "qt" =>
    /\ tpc # "none" => notifying \/ apc \in {"join", "release_join"}
    /\ ref_count = 0 => ~notifying
    /\ apc \in {"join", "release_join"} => ~notifying

DShowInv == backend = "dshow" => apc \notin {"join", "unset_data", "release_join"}

\* A call in progress without a registration: its end is being waited for.
QuietInv ==
  library = "up" /\ tpc \in CallPC /\ notify_callback = None => apc \in NotifyPC

MonitorInv ==
  /\ MonitorTypes /\ FlagTypes /\ HoldsInv
  /\ CallInv /\ FlagInv /\ V4LInv /\ QtInv /\ DShowInv /\ QuietInv

-----------------------------------------------------------------------------
LEMMA Constants ==
  /\ Backends \subseteq {"v4l", "qt", "dshow"}
  /\ None \notin Clients /\ None \notin Sources
  /\ \A s \in Sources : s[1] \in Devices \ NotCapture /\ s = <<s[1], s[2]>>
                        /\ <<s[1], 0>> \in Sources
<1>1. ASSUME NEW s \in Sources
      PROVE  s[1] \in Devices \ NotCapture /\ s = <<s[1], s[2]>> /\ <<s[1], 0>> \in Sources
  <2>1. CASE s \in (Devices \ NotCapture) \X {0}
    BY <2>1 DEF Sources
  <2>2. CASE s \in DualDevices \X {1}
    <3>1. s[1] \in DualDevices /\ s = <<s[1], s[2]>>
      BY <2>2
    <3>2. s[1] \in Devices \ NotCapture
      BY <3>1, SapiContextAssumption
    <3> QED BY <3>1, <3>2 DEF Sources
  <2> QED BY <2>1, <2>2 DEF Sources
<1>2. None \notin Sources
  <2>1. ASSUME NEW s \in Sources PROVE s \in Nat \X Nat
    <3>1. s[1] \in Nat /\ s = <<s[1], s[2]>>
      BY <1>1, SapiContextAssumption
    <3>2. s[2] \in {0, 1}
      BY DEF Sources
    <3> QED BY <3>1, <3>2
  <2> QED BY <2>1, SapiContextAssumption
<1> QED BY <1>1, <1>2, SapiContextAssumption

\* What a step leaves alone when it is not about the monitor.
monitorSide == <<backend, library, ref_count, notify_callback, notify_data, apc, client,
                 destroying, tpc, notifying, watched, last_count, cb, data>>

LEMMA MonitorUnchanged == MonitorInv /\ UNCHANGED monitorSide => MonitorInv'
<1> SUFFICES ASSUME MonitorInv, UNCHANGED monitorSide PROVE MonitorInv'
  OBVIOUS
<1> USE DEF monitorSide
<1>0. MonitorTypes' BY DEF MonitorInv, MonitorTypes
<1>8. FlagTypes' BY DEF MonitorInv, FlagTypes
<1>1. HoldsInv' BY DEF MonitorInv, HoldsInv
<1>2. CallInv' BY DEF MonitorInv, CallInv
<1>3. FlagInv' BY DEF MonitorInv, FlagInv, Alive
<1>4. V4LInv' BY DEF MonitorInv, V4LInv, Alive
<1>5. QtInv' BY DEF MonitorInv, QtInv
<1>6. DShowInv' BY DEF MonitorInv, DShowInv
<1>7. QuietInv' BY DEF MonitorInv, QuietInv
<1> QED BY <1>0, <1>1, <1>2, <1>3, <1>4, <1>5, <1>6, <1>7, <1>8 DEF MonitorInv

\* The steps that take sources or list them leave it alone.
LEMMA SourceStepsAside ==
  ASSUME \/ V4LScan \/ QtScan \/ DShowScan \/ \E d \in Devices : Plug(d)
         \/ \E c \in Contexts : V4LSrcRelease(c) \/ QtSrcRelease(c) \/ DShowSrcRelease(c)
         \/ \E c \in Contexts, s \in Sources \cup {None} :
              V4LSrcAcquire(c, s) \/ QtSrcAcquire(c, s) \/ DShowSrcAcquire(c, s)
  PROVE  UNCHANGED monitorSide
BY DEF V4LScan, QtScan, DShowScan, Plug, V4LSrcRelease, QtSrcRelease, DShowSrcRelease,
       V4LSrcAcquire, QtSrcAcquire, DShowSrcAcquire,
       monitorSide, libVars, regVars, apiVars, monitorVars, threadVars

LEMMA InitMonitor == Init => MonitorInv
<1> SUFFICES ASSUME Init PROVE MonitorInv
  OBVIOUS
<1> USE DEF Init, SapiInit
<1>0. MonitorTypes BY DEF MonitorTypes, ApiPC, ThreadPC
<1>8. FlagTypes BY DEF FlagTypes
<1>1. HoldsInv BY DEF HoldsInv, CallPC
<1>2. CallInv BY DEF CallInv
<1>3. FlagInv BY DEF FlagInv, Alive
<1>4. V4LInv BY DEF V4LInv, Alive
<1>5. QtInv BY DEF QtInv
<1>6. DShowInv BY DEF DShowInv
<1>7. QuietInv BY DEF QuietInv, CallPC, NotifyPC
<1> QED BY <1>0, <1>1, <1>2, <1>3, <1>4, <1>5, <1>6, <1>7, <1>8 DEF MonitorInv

-----------------------------------------------------------------------------
(* The application's calls and the steps they go on with.                   *)

\* Backends are told apart by name.
LEMMA Backend == MonitorTypes => backend \in {"v4l", "qt", "dshow"}
BY Constants DEF MonitorTypes

LEMMA CallsKeepMonitor ==
  ASSUME MonitorInv, ApiCall
  PROVE  MonitorInv'
<1> USE DEF monitorVars, threadVars, apiVars, libVars, regVars
<1>0. /\ MonitorTypes /\ FlagTypes /\ HoldsInv /\ backend \in {"v4l", "qt", "dshow"}
      /\ CallInv /\ FlagInv /\ V4LInv /\ QtInv /\ DShowInv /\ QuietInv
  BY Backend DEF MonitorInv
<1>1. CASE VidcapInitialize
  <2> USE <1>0, <1>1 DEF VidcapInitialize
  <2>1. MonitorTypes' BY DEF MonitorTypes, ApiPC, ThreadPC
  <2>2. FlagTypes' BY DEF FlagTypes
  <2>3. HoldsInv' BY DEF HoldsInv, CallPC, Alive
  <2>4. CallInv' BY DEF CallInv
  <2>5. FlagInv' BY DEF FlagInv, Alive
  <2>6. V4LInv' BY DEF V4LInv, Alive
  <2>7. QtInv' BY DEF QtInv
  <2>8. DShowInv' BY DEF DShowInv
  <2>9. QuietInv' BY DEF QuietInv, CallPC, NotifyPC
  <2> QED BY <2>1, <2>2, <2>3, <2>4, <2>5, <2>6, <2>7, <2>8, <2>9 DEF MonitorInv
<1>2. CASE SapiAcquire
  <2> USE <1>0, <1>2 DEF SapiAcquire
  <2>1. MonitorTypes' BY DEF MonitorTypes, ApiPC, ThreadPC
  <2>2. FlagTypes' BY DEF FlagTypes
  <2>3. HoldsInv' BY DEF HoldsInv, CallPC
  <2>4. CallInv' BY DEF CallInv
  <2>5. FlagInv' BY DEF FlagInv, Alive
  <2>6. V4LInv' BY DEF V4LInv, Alive
  <2>7. QtInv' BY DEF QtInv
  <2>8. DShowInv' BY DEF DShowInv
  <2>9. QuietInv' BY DEF QuietInv, CallPC, NotifyPC
  <2> QED BY <2>1, <2>2, <2>3, <2>4, <2>5, <2>6, <2>7, <2>8, <2>9 DEF MonitorInv
<1>3. CASE VidcapSapiRelease
  <2> USE <1>0, <1>3 DEF VidcapSapiRelease
  <2>1. MonitorTypes' BY DEF MonitorTypes, ApiPC, ThreadPC
  <2>2. FlagTypes' BY DEF FlagTypes
  <2>3. HoldsInv' BY DEF HoldsInv, CallPC
  <2>4. CallInv' BY DEF CallInv
  <2>5. FlagInv' BY DEF FlagInv, Alive
  <2>6. V4LInv' BY DEF V4LInv, Alive
  <2>7. QtInv' BY DEF QtInv
  <2>8. DShowInv' BY DEF DShowInv
  <2>9. QuietInv' BY DEF QuietInv, CallPC, NotifyPC
  <2> QED BY <2>1, <2>2, <2>3, <2>4, <2>5, <2>6, <2>7, <2>8, <2>9 DEF MonitorInv
<1>4. CASE VidcapDestroy
  <2> USE <1>0, <1>4 DEF VidcapDestroy
  <2>1. MonitorTypes' BY DEF MonitorTypes, ApiPC, ThreadPC
  <2>2. FlagTypes' BY DEF FlagTypes
  <2>3. HoldsInv' BY DEF HoldsInv, CallPC
  <2>4. CallInv' BY DEF CallInv, MonitorTypes
  <2>5. FlagInv' BY DEF FlagInv, Alive
  <2>6. V4LInv' BY DEF V4LInv, Alive
  <2>7. QtInv' BY DEF QtInv
  <2>8. DShowInv' BY DEF DShowInv
  <2>9. QuietInv' BY DEF QuietInv, CallPC, NotifyPC
  <2> QED BY <2>1, <2>2, <2>3, <2>4, <2>5, <2>6, <2>7, <2>8, <2>9 DEF MonitorInv
<1>5. ASSUME NEW c \in Clients \cup {None}, VidcapSrcsNotify(c) PROVE MonitorInv'
  <2> USE <1>0, <1>5 DEF VidcapSrcsNotify
  <2>1. MonitorTypes' BY DEF MonitorTypes, ApiPC, ThreadPC
  <2>2. FlagTypes' BY DEF FlagTypes
  <2>3. HoldsInv' BY DEF HoldsInv, CallPC
  <2>4. CallInv' BY DEF CallInv
  <2>5. FlagInv' BY DEF FlagInv, Alive
  <2>6. V4LInv' BY DEF V4LInv, Alive
  <2>7. QtInv' BY DEF QtInv
  <2>8. DShowInv' BY DEF DShowInv
  <2>9. QuietInv' BY DEF QuietInv, CallPC, NotifyPC
  <2> QED BY <2>1, <2>2, <2>3, <2>4, <2>5, <2>6, <2>7, <2>8, <2>9 DEF MonitorInv
<1> QED BY <1>1, <1>2, <1>3, <1>4, <1>5 DEF ApiCall

LEMMA ApiStepsKeepMonitor ==
  ASSUME MonitorInv, ApiStep
  PROVE  MonitorInv'
<1> USE DEF monitorVars, threadVars, apiVars, libVars, regVars
<1>0. /\ MonitorTypes /\ FlagTypes /\ HoldsInv /\ backend \in {"v4l", "qt", "dshow"}
      /\ CallInv /\ FlagInv /\ V4LInv /\ QtInv /\ DShowInv /\ QuietInv
  BY Backend DEF MonitorInv
<1>1. CASE SetNotifyData
  <2> USE <1>0, <1>1 DEF SetNotifyData
  <2>1. MonitorTypes' BY DEF MonitorTypes, ApiPC, ThreadPC
  <2>2. FlagTypes' BY DEF FlagTypes
  <2>3. HoldsInv' BY DEF HoldsInv, CallPC
  <2>4. CallInv' BY DEF CallInv
  <2>5. FlagInv' BY DEF FlagInv, Alive
  <2>6. V4LInv' BY DEF V4LInv, Alive
  <2>7. QtInv' BY DEF QtInv
  <2>8. DShowInv' BY DEF DShowInv
  <2>9. QuietInv' BY DEF QuietInv, CallPC, NotifyPC
  <2> QED BY <2>1, <2>2, <2>3, <2>4, <2>5, <2>6, <2>7, <2>8, <2>9 DEF MonitorInv
<1>2. CASE UnsetNotifyData
  <2> USE <1>0, <1>2 DEF UnsetNotifyData
  <2>1. MonitorTypes' BY DEF MonitorTypes, ApiPC, ThreadPC
  <2>2. FlagTypes' BY DEF FlagTypes
  <2>3. HoldsInv' BY DEF HoldsInv, CallPC
  <2>4. CallInv' BY DEF CallInv
  <2>5. FlagInv' BY DEF FlagInv, Alive
  <2>6. V4LInv' BY DEF V4LInv, Alive
  <2>7. QtInv' BY DEF QtInv
  <2>8. DShowInv' BY DEF DShowInv
  <2>9. QuietInv' BY DEF QuietInv, CallPC, NotifyPC, FlagInv, DShowInv, Alive
  <2> QED BY <2>1, <2>2, <2>3, <2>4, <2>5, <2>6, <2>7, <2>8, <2>9 DEF MonitorInv
<1> QED BY <1>1, <1>2 DEF ApiStep

LEMMA CallStepsKeepMonitor ==
  ASSUME MonitorInv, CallStep
  PROVE  MonitorInv'
<1> USE DEF monitorVars, threadVars, apiVars, libVars, regVars
<1>0. /\ MonitorTypes /\ FlagTypes /\ HoldsInv /\ backend \in {"v4l", "qt", "dshow"}
      /\ CallInv /\ FlagInv /\ V4LInv /\ QtInv /\ DShowInv /\ QuietInv
  BY Backend DEF MonitorInv
<1>1. CASE LoadCallback
  <2> USE <1>0, <1>1 DEF LoadCallback
  <2>1. MonitorTypes' BY DEF MonitorTypes, ApiPC, ThreadPC
  <2>2. FlagTypes' BY DEF FlagTypes
  <2>3. HoldsInv' BY DEF HoldsInv, CallPC
  <2>4. CallInv' BY DEF CallInv
  <2>5. FlagInv' BY DEF FlagInv, Alive
  <2>6. V4LInv' BY DEF V4LInv, Alive
  <2>7. QtInv' BY DEF QtInv
  <2>8. DShowInv' BY DEF DShowInv
  <2>9. QuietInv' BY DEF QuietInv, CallPC, NotifyPC
  <2> QED BY <2>1, <2>2, <2>3, <2>4, <2>5, <2>6, <2>7, <2>8, <2>9 DEF MonitorInv
<1>2. CASE LoadData
  <2> USE <1>0, <1>2 DEF LoadData
  <2>1. MonitorTypes' BY DEF MonitorTypes, ApiPC, ThreadPC
  <2>2. FlagTypes' BY DEF FlagTypes
  <2>3. HoldsInv' BY DEF HoldsInv, CallPC
  <2>4. CallInv' BY DEF CallInv
  <2>5. FlagInv' BY DEF FlagInv, Alive
  <2>6. V4LInv' BY DEF V4LInv, Alive
  <2>7. QtInv' BY DEF QtInv
  <2>8. DShowInv' BY DEF DShowInv
  <2>9. QuietInv' BY DEF QuietInv, CallPC, NotifyPC
  <2> QED BY <2>1, <2>2, <2>3, <2>4, <2>5, <2>6, <2>7, <2>8, <2>9 DEF MonitorInv
<1>3. CASE CallReturns
  <2> USE <1>0, <1>3 DEF CallReturns
  <2>1. MonitorTypes' BY DEF MonitorTypes, ApiPC, ThreadPC
  <2>2. FlagTypes' BY DEF FlagTypes
  <2>3. HoldsInv' BY DEF HoldsInv, CallPC
  <2>4. CallInv' BY DEF CallInv
  <2>5. FlagInv' BY DEF FlagInv, Alive
  <2>6. V4LInv' BY DEF V4LInv, Alive
  <2>7. QtInv' BY DEF QtInv
  <2>8. DShowInv' BY DEF DShowInv
  <2>9. QuietInv' BY DEF QuietInv, CallPC, NotifyPC
  <2> QED BY <2>1, <2>2, <2>3, <2>4, <2>5, <2>6, <2>7, <2>8, <2>9 DEF MonitorInv
<1> QED BY <1>1, <1>2, <1>3 DEF CallStep

-----------------------------------------------------------------------------
(* The backends.                                                            *)

LEMMA FlagStepsKeepMonitor ==
  ASSUME MonitorInv, backend # "dshow", MonitorSources \/ NotifyThreadStop
  PROVE  MonitorInv'
<1> USE DEF monitorVars, threadVars, apiVars, libVars, regVars
<1>0. /\ MonitorTypes /\ FlagTypes /\ HoldsInv /\ backend \in {"v4l", "qt", "dshow"}
      /\ CallInv /\ FlagInv /\ V4LInv /\ QtInv /\ DShowInv /\ QuietInv
  BY Backend DEF MonitorInv
<1>1. CASE MonitorSources
  <2> USE <1>0, <1>1 DEF MonitorSources
  <2>1. MonitorTypes' BY DEF MonitorTypes, ApiPC, ThreadPC
  <2>2. FlagTypes' BY DEF FlagTypes
  <2>3. HoldsInv' BY DEF HoldsInv, CallPC, Alive, FlagInv, CallInv
  <2>4. CallInv' BY DEF CallInv
  <2>5. FlagInv' BY DEF FlagInv, Alive, CallInv
  <2>6. V4LInv' BY DEF V4LInv, Alive
  <2>7. QtInv' BY DEF QtInv, CallInv
  <2>8. DShowInv' BY DEF DShowInv
  <2>9. QuietInv' BY DEF QuietInv, CallPC, NotifyPC, FlagInv, Alive
  <2> QED BY <2>1, <2>2, <2>3, <2>4, <2>5, <2>6, <2>7, <2>8, <2>9 DEF MonitorInv
<1>2. CASE NotifyThreadStop
  <2> USE <1>0, <1>2 DEF NotifyThreadStop
  <2>1. MonitorTypes' BY DEF MonitorTypes, ApiPC, ThreadPC
  <2>2. FlagTypes' BY DEF FlagTypes
  <2>3. HoldsInv' BY DEF HoldsInv, CallPC, Alive
  <2>4. CallInv' BY DEF CallInv
  <2>5. FlagInv' BY DEF FlagInv, Alive
  <2>6. V4LInv' BY DEF V4LInv, Alive
  <2>7. QtInv' BY DEF QtInv
  <2>8. DShowInv' BY DEF DShowInv
  <2>9. QuietInv' BY DEF QuietInv, CallPC, NotifyPC
  <2> QED BY <2>1, <2>2, <2>3, <2>4, <2>5, <2>6, <2>7, <2>8, <2>9 DEF MonitorInv
<1> QED BY <1>1, <1>2 DEF MonitorSources

LEMMA V4LKeepsMonitor ==
  ASSUME MonitorInv, backend = "v4l", V4LSapiRelease \/ V4LDestroy \/ V4LNotifyThread
  PROVE  MonitorInv'
<1> USE DEF monitorVars, threadVars, apiVars, libVars, regVars
<1>0. /\ MonitorTypes /\ FlagTypes /\ HoldsInv /\ backend \in {"v4l", "qt", "dshow"}
      /\ CallInv /\ FlagInv /\ V4LInv /\ QtInv /\ DShowInv /\ QuietInv
  BY Backend DEF MonitorInv
<1>1. CASE V4LSapiRelease
  <2> USE <1>0, <1>1 DEF V4LSapiRelease, Released
  <2>1. MonitorTypes' BY DEF MonitorTypes, ApiPC, ThreadPC
  <2>2. FlagTypes' BY DEF FlagTypes
  <2>3. HoldsInv' BY DEF HoldsInv, CallPC
  <2>4. CallInv' BY DEF CallInv
  <2>5. FlagInv' BY DEF FlagInv, Alive
  <2>6. V4LInv' BY DEF V4LInv, Alive
  <2>7. QtInv' BY DEF QtInv
  <2>8. DShowInv' BY DEF DShowInv
  <2>9. QuietInv' BY DEF QuietInv, CallPC, NotifyPC
  <2> QED BY <2>1, <2>2, <2>3, <2>4, <2>5, <2>6, <2>7, <2>8, <2>9 DEF MonitorInv
<1>2. CASE V4LDestroy
  <2> USE <1>0, <1>2 DEF V4LDestroy, Destroyed
  <2>1. MonitorTypes' BY DEF MonitorTypes, ApiPC, ThreadPC
  <2>2. FlagTypes' BY DEF FlagTypes
  <2>3. HoldsInv' BY DEF HoldsInv, CallPC
  <2>4. CallInv' BY DEF CallInv
  <2>5. FlagInv' BY DEF FlagInv, Alive
  <2>6. V4LInv' BY DEF V4LInv, Alive
  <2>7. QtInv' BY DEF QtInv
  <2>8. DShowInv' BY DEF DShowInv
  <2>9. QuietInv' BY DEF QuietInv, CallPC, NotifyPC, V4LInv
  <2> QED BY <2>1, <2>2, <2>3, <2>4, <2>5, <2>6, <2>7, <2>8, <2>9 DEF MonitorInv
<1>3. CASE V4LNotifyThread
  <2> USE <1>0, <1>3 DEF V4LNotifyThread
  <2>1. MonitorTypes' BY DEF MonitorTypes, ApiPC, ThreadPC
  <2>2. FlagTypes' BY DEF FlagTypes
  <2>3. HoldsInv' BY DEF HoldsInv, CallPC
  <2>4. CallInv' BY DEF CallInv
  <2>5. FlagInv' BY DEF FlagInv, Alive
  <2>6. V4LInv' BY DEF V4LInv, Alive
  <2>7. QtInv' BY DEF QtInv
  <2>8. DShowInv' BY DEF DShowInv
  <2>9. QuietInv' BY DEF QuietInv, CallPC, NotifyPC
  <2> QED BY <2>1, <2>2, <2>3, <2>4, <2>5, <2>6, <2>7, <2>8, <2>9 DEF MonitorInv
<1> QED BY <1>1, <1>2, <1>3 DEF V4LNotifyThread

LEMMA QtCallsKeepMonitor ==
  ASSUME MonitorInv, backend = "qt", SapiQtRelease \/ SapiQtReleaseJoin \/ SapiQtDestroy
  PROVE  MonitorInv'
<1> USE DEF monitorVars, threadVars, apiVars, libVars, regVars
<1>0. /\ MonitorTypes /\ FlagTypes /\ HoldsInv /\ backend \in {"v4l", "qt", "dshow"}
      /\ CallInv /\ FlagInv /\ V4LInv /\ QtInv /\ DShowInv /\ QuietInv
  BY Backend DEF MonitorInv
<1>1. CASE SapiQtRelease
  <2> USE <1>0, <1>1 DEF SapiQtRelease, Released
  <2>1. MonitorTypes' BY DEF MonitorTypes, ApiPC, ThreadPC
  <2>2. FlagTypes' BY DEF FlagTypes
  <2>3. HoldsInv' BY DEF HoldsInv, CallPC
  <2>4. CallInv' BY DEF CallInv
  <2>5. FlagInv' BY DEF FlagInv, Alive
  <2>6. V4LInv' BY DEF V4LInv, Alive
  <2>7. QtInv' BY DEF QtInv
  <2>8. DShowInv' BY DEF DShowInv
  <2>9. QuietInv' BY DEF QuietInv, CallPC, NotifyPC
  <2> QED BY <2>1, <2>2, <2>3, <2>4, <2>5, <2>6, <2>7, <2>8, <2>9 DEF MonitorInv
<1>2. CASE SapiQtReleaseJoin
  <2> USE <1>0, <1>2 DEF SapiQtReleaseJoin, Released
  <2>1. MonitorTypes' BY DEF MonitorTypes, ApiPC, ThreadPC
  <2>2. FlagTypes' BY DEF FlagTypes
  <2>3. HoldsInv' BY DEF HoldsInv, CallPC, Alive
  <2>4. CallInv' BY DEF CallInv
  <2>5. FlagInv' BY DEF FlagInv, Alive
  <2>6. V4LInv' BY DEF V4LInv, Alive
  <2>7. QtInv' BY DEF QtInv
  <2>8. DShowInv' BY DEF DShowInv
  <2>9. QuietInv' BY DEF QuietInv, CallPC, NotifyPC
  <2> QED BY <2>1, <2>2, <2>3, <2>4, <2>5, <2>6, <2>7, <2>8, <2>9 DEF MonitorInv
<1>3. CASE SapiQtDestroy
  <2> USE <1>0, <1>3 DEF SapiQtDestroy, Destroyed
  <2>1. MonitorTypes' BY DEF MonitorTypes, ApiPC, ThreadPC
  <2>2. FlagTypes' BY DEF FlagTypes
  <2>3. HoldsInv' BY DEF HoldsInv, CallPC
  <2>4. CallInv' BY DEF CallInv
  <2>5. FlagInv' BY DEF FlagInv, Alive
  <2>6. V4LInv' BY DEF V4LInv, Alive
  <2>7. QtInv' BY DEF QtInv, CallInv
  <2>8. DShowInv' BY DEF DShowInv
  <2>9. QuietInv' BY DEF QuietInv, CallPC, NotifyPC, CallInv, QtInv
  <2> QED BY <2>1, <2>2, <2>3, <2>4, <2>5, <2>6, <2>7, <2>8, <2>9 DEF MonitorInv
<1> QED BY <1>1, <1>2, <1>3 DEF SapiQtRelease

LEMMA QtThreadKeepsMonitor ==
  ASSUME MonitorInv, backend = "qt", QtNotifyThreadBegins \/ QtNotifyThread \/ QtTestCallback
  PROVE  MonitorInv'
<1> USE DEF monitorVars, threadVars, apiVars, libVars, regVars
<1>0. /\ MonitorTypes /\ FlagTypes /\ HoldsInv /\ backend \in {"v4l", "qt", "dshow"}
      /\ CallInv /\ FlagInv /\ V4LInv /\ QtInv /\ DShowInv /\ QuietInv
  BY Backend DEF MonitorInv
<1>1. CASE QtNotifyThreadBegins
  <2> USE <1>0, <1>1 DEF QtNotifyThreadBegins
  <2>1. MonitorTypes' BY DEF MonitorTypes, ApiPC, ThreadPC
  <2>2. FlagTypes' BY DEF FlagTypes
  <2>3. HoldsInv' BY DEF HoldsInv, CallPC
  <2>4. CallInv' BY DEF CallInv
  <2>5. FlagInv' BY DEF FlagInv, Alive
  <2>6. V4LInv' BY DEF V4LInv, Alive
  <2>7. QtInv' BY DEF QtInv
  <2>8. DShowInv' BY DEF DShowInv
  <2>9. QuietInv' BY DEF QuietInv, CallPC, NotifyPC
  <2> QED BY <2>1, <2>2, <2>3, <2>4, <2>5, <2>6, <2>7, <2>8, <2>9 DEF MonitorInv
<1>2. CASE QtNotifyThread
  <2> USE <1>0, <1>2 DEF QtNotifyThread
  <2>1. MonitorTypes' BY DEF MonitorTypes, ApiPC, ThreadPC
  <2>2. FlagTypes' BY DEF FlagTypes
  <2>3. HoldsInv' BY DEF HoldsInv, CallPC
  <2>4. CallInv' BY DEF CallInv
  <2>5. FlagInv' BY DEF FlagInv, Alive
  <2>6. V4LInv' BY DEF V4LInv, Alive
  <2>7. QtInv' BY DEF QtInv
  <2>8. DShowInv' BY DEF DShowInv
  <2>9. QuietInv' BY DEF QuietInv, CallPC, NotifyPC
  <2> QED BY <2>1, <2>2, <2>3, <2>4, <2>5, <2>6, <2>7, <2>8, <2>9 DEF MonitorInv
<1>3. CASE QtTestCallback
  <2> USE <1>0, <1>3 DEF QtTestCallback, Tested
  <2>1. MonitorTypes' BY DEF MonitorTypes, ApiPC, ThreadPC
  <2>2. FlagTypes' BY DEF FlagTypes
  <2>3. HoldsInv' BY DEF HoldsInv, CallPC
  <2>4. CallInv' BY DEF CallInv
  <2>5. FlagInv' BY DEF FlagInv, Alive
  <2>6. V4LInv' BY DEF V4LInv, Alive
  <2>7. QtInv' BY DEF QtInv
  <2>8. DShowInv' BY DEF DShowInv
  <2>9. QuietInv' BY DEF QuietInv, CallPC, NotifyPC
  <2> QED BY <2>1, <2>2, <2>3, <2>4, <2>5, <2>6, <2>7, <2>8, <2>9 DEF MonitorInv
<1> QED BY <1>1, <1>2, <1>3 DEF QtNotifyThread

LEMMA DShowCallsKeepMonitor ==
  ASSUME MonitorInv, backend = "dshow",
         \/ RegisterCallback \/ DShowSapiRelease \/ SapiDShowDestroy
         \/ PostMessageFails \/ DevMonitorJoin
  PROVE  MonitorInv'
<1> USE DEF monitorVars, threadVars, apiVars, libVars, regVars
<1>0. /\ MonitorTypes /\ FlagTypes /\ HoldsInv /\ backend \in {"v4l", "qt", "dshow"}
      /\ CallInv /\ FlagInv /\ V4LInv /\ QtInv /\ DShowInv /\ QuietInv
  BY Backend DEF MonitorInv
<1>1. CASE RegisterCallback
  <2> USE <1>0, <1>1 DEF RegisterCallback
  <2>1. MonitorTypes' BY DEF MonitorTypes, ApiPC, ThreadPC
  <2>2. FlagTypes' BY DEF FlagTypes
  <2>3. HoldsInv' BY DEF HoldsInv, CallPC
  <2>4. CallInv' BY DEF CallInv
  <2>5. FlagInv' BY DEF FlagInv, Alive
  <2>6. V4LInv' BY DEF V4LInv, Alive
  <2>7. QtInv' BY DEF QtInv
  <2>8. DShowInv' BY DEF DShowInv
  <2>9. QuietInv' BY DEF QuietInv, CallPC, NotifyPC
  <2> QED BY <2>1, <2>2, <2>3, <2>4, <2>5, <2>6, <2>7, <2>8, <2>9 DEF MonitorInv
<1>2. CASE DShowSapiRelease
  <2> USE <1>0, <1>2 DEF DShowSapiRelease, Released
  <2>1. MonitorTypes' BY DEF MonitorTypes, ApiPC, ThreadPC
  <2>2. FlagTypes' BY DEF FlagTypes
  <2>3. HoldsInv' BY DEF HoldsInv, CallPC
  <2>4. CallInv' BY DEF CallInv
  <2>5. FlagInv' BY DEF FlagInv, Alive
  <2>6. V4LInv' BY DEF V4LInv, Alive
  <2>7. QtInv' BY DEF QtInv
  <2>8. DShowInv' BY DEF DShowInv
  <2>9. QuietInv' BY DEF QuietInv, CallPC, NotifyPC
  <2> QED BY <2>1, <2>2, <2>3, <2>4, <2>5, <2>6, <2>7, <2>8, <2>9 DEF MonitorInv
<1>3. CASE SapiDShowDestroy
  <2> USE <1>0, <1>3 DEF SapiDShowDestroy
  <2>1. MonitorTypes' BY DEF MonitorTypes, ApiPC, ThreadPC
  <2>2. FlagTypes' BY DEF FlagTypes
  <2>3. HoldsInv' BY DEF HoldsInv, CallPC
  <2>4. CallInv' BY DEF CallInv
  <2>5. FlagInv' BY DEF FlagInv, Alive
  <2>6. V4LInv' BY DEF V4LInv, Alive
  <2>7. QtInv' BY DEF QtInv
  <2>8. DShowInv' BY DEF DShowInv
  <2>9. QuietInv' BY DEF QuietInv, CallPC, NotifyPC
  <2> QED BY <2>1, <2>2, <2>3, <2>4, <2>5, <2>6, <2>7, <2>8, <2>9 DEF MonitorInv
<1>4. CASE DevMonitorJoin
  <2> USE <1>0, <1>4 DEF DevMonitorJoin, Destroyed
  <2>1. MonitorTypes' BY DEF MonitorTypes, ApiPC, ThreadPC
  <2>2. FlagTypes' BY DEF FlagTypes
  <2>3. HoldsInv' BY DEF HoldsInv, CallPC
  <2>4. CallInv' BY DEF CallInv
  <2>5. FlagInv' BY DEF FlagInv, Alive
  <2>6. V4LInv' BY DEF V4LInv, Alive
  <2>7. QtInv' BY DEF QtInv
  <2>8. DShowInv' BY DEF DShowInv
  <2>9. QuietInv' BY DEF QuietInv, CallPC, NotifyPC
  <2> QED BY <2>1, <2>2, <2>3, <2>4, <2>5, <2>6, <2>7, <2>8, <2>9 DEF MonitorInv
<1>5. CASE PostMessageFails
  <2> USE <1>0, <1>5 DEF PostMessageFails, Destroyed
  <2>1. MonitorTypes' BY DEF MonitorTypes, ApiPC, ThreadPC
  <2>2. FlagTypes' BY DEF FlagTypes
  <2>3. HoldsInv' BY DEF HoldsInv, CallPC
  <2>4. CallInv' BY DEF CallInv
  <2>5. FlagInv' BY DEF FlagInv, Alive
  <2>6. V4LInv' BY DEF V4LInv, Alive
  <2>7. QtInv' BY DEF QtInv
  <2>8. DShowInv' BY DEF DShowInv
  <2>9. QuietInv' BY DEF QuietInv, CallPC, NotifyPC
  <2> QED BY <2>1, <2>2, <2>3, <2>4, <2>5, <2>6, <2>7, <2>8, <2>9 DEF MonitorInv
<1> QED BY <1>1, <1>2, <1>3, <1>4, <1>5 DEF RegisterCallback

LEMMA DShowThreadKeepsMonitor ==
  ASSUME MonitorInv, backend = "dshow",
         HandleDeviceChange \/ MonitorDevicesEnds \/ MonitorDevicesFails \/ DShowTestCallback
  PROVE  MonitorInv'
<1> USE DEF monitorVars, threadVars, apiVars, libVars, regVars
<1>0. /\ MonitorTypes /\ FlagTypes /\ HoldsInv /\ backend \in {"v4l", "qt", "dshow"}
      /\ CallInv /\ FlagInv /\ V4LInv /\ QtInv /\ DShowInv /\ QuietInv
  BY Backend DEF MonitorInv
<1>1. CASE HandleDeviceChange
  <2> USE <1>0, <1>1 DEF HandleDeviceChange
  <2>1. MonitorTypes' BY DEF MonitorTypes, ApiPC, ThreadPC
  <2>2. FlagTypes' BY DEF FlagTypes
  <2>3. HoldsInv' BY DEF HoldsInv, CallPC
  <2>4. CallInv' BY DEF CallInv
  <2>5. FlagInv' BY DEF FlagInv, Alive
  <2>6. V4LInv' BY DEF V4LInv, Alive
  <2>7. QtInv' BY DEF QtInv
  <2>8. DShowInv' BY DEF DShowInv
  <2>9. QuietInv' BY DEF QuietInv, CallPC, NotifyPC
  <2> QED BY <2>1, <2>2, <2>3, <2>4, <2>5, <2>6, <2>7, <2>8, <2>9 DEF MonitorInv
<1>2. CASE MonitorDevicesEnds \/ MonitorDevicesFails
  <2> USE <1>0, <1>2 DEF MonitorDevicesEnds, MonitorDevicesFails
  <2>1. MonitorTypes' BY DEF MonitorTypes, ApiPC, ThreadPC
  <2>2. FlagTypes' BY DEF FlagTypes
  <2>3. HoldsInv' BY DEF HoldsInv, CallPC
  <2>4. CallInv' BY DEF CallInv
  <2>5. FlagInv' BY DEF FlagInv, Alive
  <2>6. V4LInv' BY DEF V4LInv, Alive
  <2>7. QtInv' BY DEF QtInv
  <2>8. DShowInv' BY DEF DShowInv
  <2>9. QuietInv' BY DEF QuietInv, CallPC, NotifyPC
  <2> QED BY <2>1, <2>2, <2>3, <2>4, <2>5, <2>6, <2>7, <2>8, <2>9 DEF MonitorInv
<1>3. CASE DShowTestCallback
  <2> USE <1>0, <1>3 DEF DShowTestCallback, Tested
  <2>1. MonitorTypes' BY DEF MonitorTypes, ApiPC, ThreadPC
  <2>2. FlagTypes' BY DEF FlagTypes
  <2>3. HoldsInv' BY DEF HoldsInv, CallPC
  <2>4. CallInv' BY DEF CallInv
  <2>5. FlagInv' BY DEF FlagInv, Alive
  <2>6. V4LInv' BY DEF V4LInv, Alive
  <2>7. QtInv' BY DEF QtInv
  <2>8. DShowInv' BY DEF DShowInv
  <2>9. QuietInv' BY DEF QuietInv, CallPC, NotifyPC
  <2> QED BY <2>1, <2>2, <2>3, <2>4, <2>5, <2>6, <2>7, <2>8, <2>9 DEF MonitorInv
<1> QED BY <1>1, <1>2, <1>3 DEF HandleDeviceChange

LEMMA NextKeepsMonitor == MonitorInv /\ [Next]_sapiVars => MonitorInv'
<1> SUFFICES ASSUME MonitorInv, [Next]_sapiVars PROVE MonitorInv'
  OBVIOUS
<1>1. CASE UNCHANGED sapiVars
  <2>1. UNCHANGED monitorSide
    BY <1>1 DEF sapiVars, monitorSide, libVars, regVars, apiVars, monitorVars, threadVars
  <2> QED BY <2>1, MonitorUnchanged
<1>2. CASE ApiCall \/ ApiStep
  BY <1>2, CallsKeepMonitor, ApiStepsKeepMonitor
<1>3. CASE \E d \in Devices : Plug(d)
  BY <1>3, SourceStepsAside, MonitorUnchanged
<1>4. CASE backend = "v4l" /\ V4LNext
  BY <1>4, SourceStepsAside, MonitorUnchanged, FlagStepsKeepMonitor, V4LKeepsMonitor
     DEF V4LNext, V4LApiStep, V4LMonitorSources, V4LNotifyThreadStop
<1>5. CASE backend = "qt" /\ QtNext
  BY <1>5, SourceStepsAside, MonitorUnchanged, FlagStepsKeepMonitor, QtCallsKeepMonitor,
     QtThreadKeepsMonitor, CallStepsKeepMonitor
     DEF QtNext, QtApiStep, QtThread, QtMonitorSources, QtNotifyThreadStop
<1>6. CASE backend = "dshow" /\ DShowNext
  <2>1. DShowSourcesOf(Devices) \subseteq Sources
    BY DEF DShowSourcesOf
  <2> QED
    BY <1>6, <2>1, SourceStepsAside, MonitorUnchanged, DShowCallsKeepMonitor, DShowThreadKeepsMonitor,
       CallStepsKeepMonitor DEF DShowNext, DShowApiStep, DShowThread
<1> QED BY <1>1, <1>2, <1>3, <1>4, <1>5, <1>6 DEF Next

LEMMA MonitorCorrect == Spec => []MonitorInv
BY InitMonitor, NextKeepsMonitor, PTL DEF Spec

-----------------------------------------------------------------------------
\* Once a registration is taken away no call is in progress and none begins,
\* whatever the backend: vidcap_srcs_notify has waited for the thread's end or
\* for the mutex.
THEOREM UnregisteredIsQuietHolds == Spec => []UnregisteredIsQuiet
<1>1. MonitorInv => UnregisteredIsQuiet
  BY DEF MonitorInv, QuietInv, CallPC, NotifyPC, UnregisteredIsQuiet
<1> QED BY <1>1, MonitorCorrect, PTL

\* The steps that free the library: what QuickTime's thread and DirectShow's use
\* goes when they have ended, if only the message to the latter could be posted.
LEMMA FreeingSteps ==
  ASSUME MonitorInv, [Next]_sapiVars, library = "up", library' = "down"
  PROVE  \/ backend = "v4l" /\ V4LDestroy
         \/ backend = "qt" /\ SapiQtDestroy
         \/ backend = "dshow" /\ (PostMessageFails \/ DevMonitorJoin)
<1> USE DEF libVars
<1>1. CASE UNCHANGED sapiVars
  BY <1>1 DEF sapiVars
<1>2. CASE ApiCall \/ ApiStep
  BY <1>2 DEF ApiCall, ApiStep, VidcapInitialize, SapiAcquire, VidcapSapiRelease, VidcapDestroy,
     VidcapSrcsNotify, SetNotifyData, UnsetNotifyData
<1>3. ASSUME \/ V4LScan \/ QtScan \/ DShowScan \/ \E d \in Devices : Plug(d)
             \/ \E c \in Contexts : V4LSrcRelease(c) \/ QtSrcRelease(c) \/ DShowSrcRelease(c)
             \/ \E c \in Contexts, s \in Sources \cup {None} :
                  V4LSrcAcquire(c, s) \/ QtSrcAcquire(c, s) \/ DShowSrcAcquire(c, s)
      PROVE  FALSE
  <2>1. UNCHANGED monitorSide
    BY <1>3, SourceStepsAside
  <2> QED BY <2>1 DEF monitorSide
<1>4. ASSUME \/ MonitorSources \/ NotifyThreadStop \/ CallStep
             \/ V4LSapiRelease \/ V4LNotifyThread
             \/ SapiQtRelease \/ SapiQtReleaseJoin \/ QtThread
             \/ RegisterCallback \/ DShowSapiRelease \/ SapiDShowDestroy
             \/ HandleDeviceChange \/ MonitorDevicesEnds \/ MonitorDevicesFails
             \/ DShowTestCallback
      PROVE  FALSE
  BY <1>4 DEF MonitorSources, NotifyThreadStop, CallStep, LoadCallback, LoadData, CallReturns,
     V4LSapiRelease, V4LNotifyThread, SapiQtRelease, SapiQtReleaseJoin, QtThread,
     QtNotifyThreadBegins, QtNotifyThread, QtTestCallback, RegisterCallback, DShowSapiRelease,
     SapiDShowDestroy, HandleDeviceChange, MonitorDevicesEnds, MonitorDevicesFails,
     DShowTestCallback
<1>5. CASE backend = "v4l" /\ V4LNext
  BY <1>3, <1>4, <1>5 DEF V4LNext, V4LApiStep, V4LMonitorSources, V4LNotifyThreadStop
<1>6. CASE backend = "qt" /\ QtNext
  BY <1>3, <1>4, <1>6 DEF QtNext, QtApiStep, QtMonitorSources, QtNotifyThreadStop
<1>7. CASE backend = "dshow" /\ DShowNext
  <2>1. DShowSourcesOf(Devices) \subseteq Sources
    BY DEF DShowSourcesOf
  <2> QED BY <1>3, <1>4, <1>7, <2>1 DEF DShowNext, DShowApiStep, DShowThread
<1>8. CASE \E d \in Devices : Plug(d)
  BY <1>3, <1>8
<1> QED BY <1>1, <1>2, <1>5, <1>6, <1>7, <1>8 DEF Next

\* A monitor thread outlives the library in the two cases that the property names,
\* and QuickTime's never.
THEOREM JoinedAtDestroyHolds == Spec => JoinedAtDestroy
<1> DEFINE Left == library = "up" /\ library' = "down" /\ Alive'
                     => \/ backend = "v4l" /\ notifying
                        \/ backend = "dshow" /\ PostMessageFails
<1>1. MonitorInv /\ [Next]_sapiVars => [Left]_sapiVars
  <2> SUFFICES ASSUME MonitorInv, [Next]_sapiVars, library = "up", library' = "down", Alive'
               PROVE  \/ backend = "v4l" /\ notifying
                      \/ backend = "dshow" /\ PostMessageFails
    OBVIOUS
  <2>1. CASE backend = "v4l" /\ V4LDestroy
    BY <2>1 DEF V4LDestroy, threadVars, Alive, MonitorInv, V4LInv
  <2>2. CASE backend = "qt" /\ SapiQtDestroy
    BY <2>2 DEF SapiQtDestroy, threadVars, Alive, MonitorInv, CallInv, QtInv
  <2>3. CASE backend = "dshow" /\ DevMonitorJoin
    BY <2>3 DEF DevMonitorJoin, Alive
  <2> QED BY <2>1, <2>2, <2>3, FreeingSteps
<1>2. Spec => [][Left]_sapiVars
  BY <1>1, MonitorCorrect, PTL DEF Spec
<1> QED BY <1>2 DEF JoinedAtDestroy

-----------------------------------------------------------------------------
(* What the monitor thread calls, and with what.                            *)

\* Callback and user data are those of one client, but for the time between their
\* two assignments.
RegInv == apc # "set_data" => notify_callback = notify_data

\* Outside an unfinished vidcap_srcs_notify the thread calls what is registered.
PairInv ==
  library = "up" /\ apc \notin NotifyPC =>
    /\ tpc \in CallPC => cb = notify_callback
    /\ tpc = "calling" => data = notify_callback

\* A registration is being taken away by a call that has not returned.
Unregistering == notify_callback = None /\ client = None /\ apc \in NotifyPC

PendingInv ==
  /\ apc = "join" => client = None
  /\ Faulted => Unregistering \/ library = "down"

NotifyInv == RegInv /\ PairInv /\ PendingInv

\* Only taking the registration away can make the process call through a null
\* pointer, and it happens before that vidcap_srcs_notify returns; or else
\* vidcap_destroy has freed the registration under DirectShow's thread.
FaultsUnregistering ==
  Faulted => \/ Unregistering /\ backend # "v4l"
             \/ library = "down" /\ backend = "dshow"

\* The source lists have no part in it.
LEMMA SourceStepsKeepNotify ==
  ASSUME NotifyInv, UNCHANGED monitorSide
  PROVE  NotifyInv'
BY DEF NotifyInv, RegInv, PairInv, PendingInv, Unregistering, Faulted, monitorSide

\* The application's calls: one that deals with the registration has begun, or
\* leaves it alone.
LEMMA CallsKeepNotify ==
  ASSUME MonitorInv, NotifyInv, ~Faulted, ApiCall \/ ApiStep
  PROVE  NotifyInv'
<1> USE DEF NotifyInv, RegInv, PairInv, PendingInv, Unregistering, Faulted, CallPC, NotifyPC,
            monitorVars, threadVars, apiVars, libVars, regVars
<1>1. CASE VidcapInitialize
  BY <1>1 DEF VidcapInitialize
<1>2. CASE SapiAcquire
  BY <1>2 DEF SapiAcquire
<1>3. CASE VidcapSapiRelease \/ VidcapDestroy
  BY <1>3 DEF VidcapSapiRelease, VidcapDestroy
<1>4. ASSUME NEW c \in Clients \cup {None}, VidcapSrcsNotify(c) PROVE NotifyInv'
  BY <1>4 DEF VidcapSrcsNotify
<1>5. CASE SetNotifyData
  BY <1>5 DEF SetNotifyData, MonitorInv, CallInv
<1>6. CASE UnsetNotifyData
  <2>1. tpc \notin CallPC
    BY <1>6, Backend DEF UnsetNotifyData, MonitorInv, FlagInv, DShowInv, Alive
  <2> QED BY <1>6, <2>1 DEF UnsetNotifyData
<1> QED BY <1>1, <1>2, <1>3, <1>4, <1>5, <1>6 DEF ApiCall, ApiStep

\* Starting and ending the thread, and the sapi's release: no call is in
\* progress where vidcap_srcs_notify returns.
LEMMA BackendsKeepNotify ==
  ASSUME MonitorInv, NotifyInv, ~Faulted,
         \/ backend # "dshow" /\ (MonitorSources \/ NotifyThreadStop)
         \/ backend = "v4l" /\ (V4LSapiRelease \/ V4LDestroy)
         \/ backend = "qt" /\ (SapiQtRelease \/ SapiQtReleaseJoin \/ SapiQtDestroy)
         \/ backend = "dshow" /\ (\/ RegisterCallback \/ DShowSapiRelease \/ SapiDShowDestroy
                                  \/ PostMessageFails \/ DevMonitorJoin)
  PROVE  NotifyInv'
<1> USE DEF NotifyInv, RegInv, PairInv, PendingInv, Unregistering, Faulted, CallPC, NotifyPC,
            monitorVars, threadVars, apiVars, libVars, regVars
<1>1. CASE backend # "dshow" /\ MonitorSources
  <2>1. notify_callback = client
    BY <1>1 DEF MonitorSources, MonitorInv, CallInv
  <2>2. (notify_callback = None /\ notifying) \/ tpc \notin CallPC
    BY <1>1, <2>1 DEF MonitorSources, MonitorInv, FlagInv, Alive
  <2> QED BY <1>1, <2>1, <2>2 DEF MonitorSources
<1>2. CASE backend # "dshow" /\ NotifyThreadStop
  BY <1>2 DEF NotifyThreadStop
<1>3. CASE backend = "v4l" /\ V4LSapiRelease
  BY <1>3 DEF V4LSapiRelease, Released
<1>4. CASE backend = "v4l" /\ V4LDestroy
  BY <1>4 DEF V4LDestroy, Destroyed
<1>5. CASE backend = "qt" /\ (SapiQtRelease \/ SapiQtReleaseJoin)
  BY <1>5 DEF SapiQtRelease, SapiQtReleaseJoin, Released
<1>6. CASE backend = "qt" /\ SapiQtDestroy
  BY <1>6 DEF SapiQtDestroy, Destroyed
<1>7. CASE backend = "dshow" /\ (RegisterCallback \/ DShowSapiRelease \/ SapiDShowDestroy)
  BY <1>7 DEF RegisterCallback, DShowSapiRelease, SapiDShowDestroy, Released
<1>8. CASE backend = "dshow" /\ (PostMessageFails \/ DevMonitorJoin)
  BY <1>8 DEF PostMessageFails, DevMonitorJoin, Destroyed
<1> QED BY <1>1, <1>2, <1>3, <1>4, <1>5, <1>6, <1>7, <1>8

\* The monitor thread: what it loads is the registered client's, unless that is
\* being changed, and a call goes wrong only when the registration is gone.
LEMMA ThreadKeepsNotify ==
  ASSUME MonitorInv, NotifyInv, ~Faulted,
         \/ V4LNotifyThread \/ QtThread \/ DShowThread
         \/ HandleDeviceChange \/ MonitorDevicesEnds \/ MonitorDevicesFails
  PROVE  NotifyInv'
<1> USE DEF NotifyInv, RegInv, PairInv, PendingInv, Unregistering, Faulted, CallPC,
            monitorVars, threadVars, apiVars, libVars, regVars
<1>1. CASE \/ V4LNotifyThread \/ QtNotifyThreadBegins \/ HandleDeviceChange
           \/ MonitorDevicesEnds \/ MonitorDevicesFails
  BY <1>1 DEF V4LNotifyThread, QtNotifyThreadBegins, HandleDeviceChange, MonitorDevicesEnds,
     MonitorDevicesFails
<1>2. CASE QtNotifyThread
  BY <1>2 DEF QtNotifyThread
<1>3. ASSUME Tested, UNCHANGED <<libVars, regVars, apiVars>> PROVE NotifyInv'
  BY <1>3 DEF Tested
<1>4. CASE QtTestCallback
  <2>1. CASE Tested
    BY <1>3, <1>4, <2>1 DEF QtTestCallback
  <2>2. CASE ~Tested
    BY <1>4, <2>2 DEF QtTestCallback
  <2> QED BY <2>1, <2>2
<1>5. CASE DShowTestCallback
  <2>1. CASE Tested
    BY <1>3, <1>5, <2>1 DEF DShowTestCallback
  <2>2. CASE ~Tested
    BY <1>5, <2>2 DEF DShowTestCallback
  <2> QED BY <2>1, <2>2
<1>6. CASE LoadCallback
  <2>1. /\ tpc = "load" /\ cb' \in {cb, notify_callback}
        /\ tpc' = IF cb' = None THEN "null_call" ELSE "load_data"
        /\ UNCHANGED <<libVars, regVars, apiVars, data>>
    BY <1>6 DEF LoadCallback
  <2>2. cb # None
    BY <2>1 DEF MonitorInv, HoldsInv
  <2>3. CASE cb' = None
    <3>1. notify_callback = None
      BY <2>1, <2>2, <2>3
    <3>2. CASE library = "up"
      <4>1. apc \in NotifyPC
        BY <2>1, <3>1, <3>2 DEF MonitorInv, QuietInv
      <4>2. client = None
        BY <3>1, <4>1 DEF MonitorInv, CallInv, NotifyPC
      <4> QED BY <2>1, <2>3, <3>1, <4>1, <4>2
    <3>3. CASE library # "up"
      BY <2>1, <2>3, <3>3 DEF MonitorInv, MonitorTypes
    <3> QED BY <3>2, <3>3
  <2>4. CASE cb' # None
    BY <2>1, <2>4
  <2> QED BY <2>3, <2>4
<1>7. CASE LoadData
  BY <1>7 DEF LoadData, NotifyPC
<1>8. CASE CallReturns
  BY <1>8 DEF CallReturns
<1> QED
  BY <1>1, <1>2, <1>4, <1>5, <1>6, <1>7, <1>8 DEF QtThread, DShowThread, CallStep

LEMMA NextKeepsNotify == MonitorInv /\ NotifyInv /\ [Next]_sapiVars => NotifyInv'
<1> SUFFICES ASSUME MonitorInv, NotifyInv, [Next]_sapiVars PROVE NotifyInv'
  OBVIOUS
<1>1. CASE UNCHANGED sapiVars
  <2>1. UNCHANGED monitorSide
    BY <1>1 DEF sapiVars, monitorSide, libVars, regVars, apiVars, monitorVars, threadVars
  <2> QED BY <2>1, SourceStepsKeepNotify
<1>2. CASE ~Faulted /\ (ApiCall \/ ApiStep)
  BY <1>2, CallsKeepNotify
<1>3. CASE \E d \in Devices : Plug(d)
  BY <1>3, SourceStepsAside, SourceStepsKeepNotify
<1>4. CASE ~Faulted /\ backend = "v4l" /\ V4LNext
  BY <1>4, SourceStepsAside, SourceStepsKeepNotify, BackendsKeepNotify, ThreadKeepsNotify
     DEF V4LNext, V4LApiStep, V4LMonitorSources, V4LNotifyThreadStop
<1>5. CASE ~Faulted /\ backend = "qt" /\ QtNext
  BY <1>5, SourceStepsAside, SourceStepsKeepNotify, BackendsKeepNotify, ThreadKeepsNotify
     DEF QtNext, QtApiStep, QtMonitorSources, QtNotifyThreadStop
<1>6. CASE ~Faulted /\ backend = "dshow" /\ DShowNext
  <2>1. DShowSourcesOf(Devices) \subseteq Sources
    BY DEF DShowSourcesOf
  <2> QED
    BY <1>6, <2>1, SourceStepsAside, SourceStepsKeepNotify, BackendsKeepNotify,
       ThreadKeepsNotify DEF DShowNext, DShowApiStep
<1> QED BY <1>1, <1>2, <1>3, <1>4, <1>5, <1>6 DEF Next

LEMMA NotifyCorrect == Spec => []NotifyInv
<1>1. Init => NotifyInv
  BY DEF Init, SapiInit, NotifyInv, RegInv, PairInv, PendingInv, Faulted
<1> QED BY <1>1, NextKeepsNotify, MonitorCorrect, PTL DEF Spec

\* vidcap_srcs_notify assigns callback and user data one after the other while
\* the monitor thread may be reading them, and may replace one client by another:
\* once it has returned, a call is the registered client's and passes its data.
THEOREM CallsAreOwnHolds == Spec => []CallsAreOwn
<1>1. MonitorInv /\ NotifyInv => CallsAreOwn
  BY DEF MonitorInv, CallInv, NotifyInv, PairInv, CallPC, NotifyPC, CallsAreOwn
<1> QED BY <1>1, MonitorCorrect, NotifyCorrect, PTL

\* The registration is tested and then called without a lock; the null pointer
\* in between can only come from a vidcap_srcs_notify that takes it away and is
\* still in progress, or from vidcap_destroy under a DirectShow thread that could
\* not be told to end.
THEOREM FaultsUnregisteringHolds == Spec => []FaultsUnregistering
<1>1. MonitorInv /\ NotifyInv => FaultsUnregistering
  BY Backend DEF MonitorInv, V4LInv, QtInv, CallInv, NotifyInv, PendingInv, Faulted,
     FaultsUnregistering
<1> QED BY <1>1, MonitorCorrect, NotifyCorrect, PTL

-----------------------------------------------------------------------------
(* What is held.                                                            *)

TakenTypes ==
  /\ backend \in Backends
  /\ user_src_list \subseteq Sources /\ mgr_list \subseteq Sources
  /\ src_info \in [Contexts -> Sources \cup {None}]
  /\ lost \subseteq Sources /\ acquired \subseteq Sources
  /\ entries \subseteq Contexts /\ present \subseteq Devices

\* No unit is held twice that is not shared; and the backend's own record of what
\* is held, which QuickTime loses of what is shared.
HeldInv ==
  /\ \A c, d \in Contexts :
       src_info[c] # None /\ src_info[d] # None /\ c # d /\ Unit(src_info[c]) = Unit(src_info[d])
         => src_info[c] \in shared
  /\ backend = "qt" =>
       \A c \in Contexts : src_info[c] # None => src_info[c] \in acquired \cup shared
  /\ backend = "dshow" =>
       \A c \in Contexts : src_info[c] # None => c \in entries /\ src_info[c][2] = 0
  /\ backend # "qt" => shared = {}
  /\ shared \subseteq Held

\* Nothing is held from the time vidcap_destroy is called.
DestroyInv ==
  apc \in {"destroy", "destroy_join"} \/ (apc \in {"release", "release_join"} /\ destroying)
    => \A c \in Contexts : src_info[c] = None

TakenInv == TakenTypes /\ HeldInv /\ DestroyInv

\* The lists after a step.
Listed == user_src_list' \subseteq Sources /\ mgr_list' \subseteq Sources

\* Lists and devices change, or a context is entered in the registry.
LEMMA ListsKeepTaken ==
  ASSUME TakenInv, DestroyInv', Listed, present' \subseteq Devices,
         UNCHANGED <<backend, src_info, lost, acquired, shared>>,
         entries \subseteq entries', entries' \subseteq Contexts
  PROVE  TakenInv'
<1>1. TakenTypes' BY DEF TakenInv, TakenTypes, Listed
<1>2. HeldInv' BY DEF TakenInv, HeldInv, Unit, Held
<1> QED BY <1>1, <1>2 DEF TakenInv

\* What is shared once the source s has been asked for: it, if it is held.
Sharing(s) ==
  /\ shared \subseteq shared' /\ shared' \subseteq shared \cup (Held \cap {s})
  /\ backend # "qt" => shared' = shared
  /\ \A d \in Contexts :
       src_info[d] # None /\ Unit(src_info[d]) = Unit(s) => {s, src_info[d]} \subseteq shared'

\* What a new record may be, whether a context gets the source or it is lost.
Recorded(c, s) ==
  /\ acquired \subseteq acquired' /\ acquired' \subseteq Sources
  /\ backend = "qt" => s \in acquired'
  /\ backend = "dshow" => c \in entries' /\ s[2] = 0
  /\ entries \subseteq entries' /\ entries' \subseteq Contexts

\* No context gets the source.  It is lost, or a flag is taken back.
LEMMA LosingKeepsTaken ==
  ASSUME TakenInv, NEW s \in Sources, lost' \subseteq Sources, apc = "idle", Listed, Sharing(s),
         UNCHANGED <<src_info, backend, present, apc>>,
         acquired \ {s} \subseteq acquired', acquired' \subseteq Sources,
         entries \subseteq entries', entries' \subseteq Contexts
  PROVE  TakenInv'
<1>0. \A e : Unit(e)' = Unit(e)
  BY DEF Unit
<1>1. TakenTypes' BY DEF TakenInv, TakenTypes, Listed
<1>2. HeldInv'
  <2>1. ASSUME NEW c \in Contexts, NEW d \in Contexts, src_info[c] # None, src_info[d] # None,
               c # d, Unit(src_info[c]) = Unit(src_info[d])
        PROVE  src_info[c] \in shared'
    BY <2>1 DEF TakenInv, HeldInv, Sharing
  <2>2. ASSUME NEW c \in Contexts, backend = "qt", src_info[c] # None
        PROVE  src_info[c] \in acquired' \cup shared'
    <3>1. CASE src_info[c] = s
      BY <2>2, <3>1 DEF Sharing
    <3>2. CASE src_info[c] # s
      BY <2>2, <3>2 DEF TakenInv, HeldInv, Sharing
    <3> QED BY <3>1, <3>2
  <2>3. shared' \subseteq Held'
    BY DEF TakenInv, HeldInv, Sharing, Held
  <2> QED BY <1>0, <2>1, <2>2, <2>3 DEF TakenInv, HeldInv, Sharing
<1>3. DestroyInv' BY DEF DestroyInv
<1> QED BY <1>1, <1>2, <1>3 DEF TakenInv

\* A source goes to a context, or is lost.
LEMMA TakingKeepsTaken ==
  ASSUME TakenInv, NEW c \in Contexts, NEW s \in Sources, KeepOrLose(c, s),
         apc = "idle", UNCHANGED <<backend, present, apc>>, src_info[c] = None,
         Recorded(c, s), Sharing(s), Listed
  PROVE  TakenInv'
<1>0. \A e : Unit(e)' = Unit(e)
  BY DEF Unit
<1>1. CASE Lose(s) /\ UNCHANGED src_info
  <2>1. lost' \subseteq Sources
    BY <1>1 DEF Lose, TakenInv, TakenTypes
  <2> QED BY <1>1, <2>1, LosingKeepsTaken DEF Recorded
<1>2. CASE src_info' = [src_info EXCEPT ![c] = s] /\ UNCHANGED lost
  <2>0. (\A d \in Contexts : src_info'[d] = IF d = c THEN s ELSE src_info[d]) /\ s # None
    BY <1>2, Constants DEF TakenInv, TakenTypes
  <2>1. TakenTypes' BY <1>2 DEF TakenInv, TakenTypes, Recorded, Listed
  <2>2. ASSUME NEW a \in Contexts, NEW b \in Contexts, a # b, src_info'[a] # None,
               src_info'[b] # None, Unit(src_info'[a]) = Unit(src_info'[b])
        PROVE  src_info'[a] \in shared'
    <3>1. CASE a = c
      BY <2>0, <2>2, <3>1 DEF Sharing
    <3>2. CASE b = c
      BY <2>0, <2>2, <3>2 DEF Sharing
    <3>3. CASE a # c /\ b # c
      BY <2>0, <2>2, <3>3 DEF Sharing, TakenInv, HeldInv
    <3> QED BY <3>1, <3>2, <3>3
  <2>3. ASSUME NEW a \in Contexts, backend = "qt", src_info'[a] # None
        PROVE  src_info'[a] \in acquired' \cup shared'
    BY <2>0, <2>3 DEF Recorded, Sharing, TakenInv, HeldInv
  <2>4. ASSUME NEW a \in Contexts, backend = "dshow", src_info'[a] # None
        PROVE  a \in entries' /\ src_info'[a][2] = 0
    BY <2>0, <2>4 DEF Recorded, TakenInv, HeldInv
  <2>5. shared' \subseteq Held'
    <3>1. ASSUME NEW t \in shared' PROVE t \in Held'
      <4>1. PICK d \in Contexts : src_info[d] = t /\ t # None
        BY DEF Sharing, TakenInv, HeldInv, Held
      <4> QED BY <2>0, <4>1 DEF Held
    <3> QED BY <3>1
  <2>6. HeldInv'
    BY <1>0, <2>2, <2>3, <2>4, <2>5 DEF Sharing, TakenInv, HeldInv
  <2>7. DestroyInv' BY DEF DestroyInv
  <2> QED BY <2>1, <2>6, <2>7 DEF TakenInv
<1> QED BY <1>1, <1>2 DEF KeepOrLose

\* Releasing a source removes its record, and its sharing with the last holder.
LEMMA ReleasingKeepsTaken ==
  ASSUME TakenInv, NEW c \in Contexts, src_info[c] # None, FreeContext(c),
         apc = "idle", UNCHANGED <<backend, present, apc, lost, user_src_list, mgr_list>>,
         acquired' \subseteq acquired, backend = "qt" => acquired' = acquired \ {src_info[c]},
         entries \ {c} \subseteq entries', entries' \subseteq Contexts
  PROVE  TakenInv'
<1>0. /\ \A e : Unit(e)' = Unit(e)
      /\ \A d \in Contexts : src_info'[d] = IF d = c THEN None ELSE src_info[d]
  BY DEF Unit, FreeContext, TakenInv, TakenTypes
<1>1. TakenTypes'
  BY DEF FreeContext, TakenInv, TakenTypes
<1>2. ASSUME NEW d \in Contexts, d # c, src_info[d] \in shared
      PROVE  src_info[d] \in shared'
  BY <1>2 DEF FreeContext
<1>3. ASSUME NEW a \in Contexts, NEW b \in Contexts, a # b, src_info'[a] # None,
             src_info'[b] # None, Unit(src_info'[a]) = Unit(src_info'[b])
      PROVE  src_info'[a] \in shared'
  BY <1>0, <1>2, <1>3 DEF TakenInv, HeldInv
<1>4. ASSUME NEW a \in Contexts, backend = "qt", src_info'[a] # None
      PROVE  src_info'[a] \in acquired' \cup shared'
  <2>1. a # c /\ src_info'[a] = src_info[a]
    BY <1>0, <1>4
  <2>2. CASE src_info[a] = src_info[c]
    BY <1>2, <1>4, <2>1, <2>2 DEF TakenInv, HeldInv
  <2>3. CASE src_info[a] # src_info[c]
    BY <1>2, <1>4, <2>1, <2>3 DEF TakenInv, HeldInv
  <2> QED BY <2>2, <2>3
<1>5. ASSUME NEW a \in Contexts, backend = "dshow", src_info'[a] # None
      PROVE  a \in entries' /\ src_info'[a][2] = 0
  BY <1>0, <1>5 DEF TakenInv, HeldInv
<1>6. shared' \subseteq Held' /\ (backend # "qt" => shared' = {})
  <2>1. ASSUME NEW t \in shared' PROVE t \in Held'
    <3>1. t \in shared /\ \E d \in Contexts \ {c} : src_info[d] = t
      BY DEF FreeContext
    <3>2. t # None
      BY <3>1 DEF TakenInv, HeldInv, Held
    <3> QED BY <1>0, <3>1, <3>2 DEF Held
  <2> QED BY <2>1 DEF FreeContext, TakenInv, HeldInv
<1>7. HeldInv' BY <1>0, <1>3, <1>4, <1>5, <1>6 DEF HeldInv
<1>8. DestroyInv' BY DEF DestroyInv
<1> QED BY <1>1, <1>7, <1>8 DEF TakenInv

-----------------------------------------------------------------------------
LEMMA V4LKeepsTaken ==
  ASSUME TakenInv, backend = "v4l",
         \/ V4LScan
         \/ \E c \in Contexts :
              V4LSrcRelease(c) \/ \E s \in Sources \cup {None} : V4LSrcAcquire(c, s)
  PROVE  TakenInv'
<1>0. V4LScanned \subseteq Sources
  BY DEF V4LScanned, V4LListing, TakenInv, TakenTypes
<1>1. CASE V4LScan
  <2> USE <1>1 DEF V4LScan, takenVars, apiVars, libVars
  <2>1. DestroyInv' BY DEF TakenInv, DestroyInv
  <2>2. Listed BY <1>0 DEF Listed, TakenInv, TakenTypes
  <2>3. present' \subseteq Devices /\ entries \subseteq Contexts BY DEF TakenInv, TakenTypes
  <2> QED BY <2>1, <2>2, <2>3, ListsKeepTaken
<1>2. ASSUME NEW c \in Contexts, V4LSrcRelease(c)
      PROVE  TakenInv'
  <2> USE <1>2 DEF V4LSrcRelease, V4LUnrecord, libVars, listVars, apiVars
  <2>1. entries \subseteq Contexts
    BY DEF TakenInv, TakenTypes
  <2> QED BY <2>1, ReleasingKeepsTaken
<1>3. ASSUME NEW c \in Contexts, NEW req \in Sources \cup {None}, V4LSrcAcquire(c, req)
      PROVE  TakenInv'
  <2>0. /\ apc = "idle" /\ src_info[c] = None
        /\ UNCHANGED <<backend, mgr_list, present, apc, destroying>>
    BY <1>3 DEF V4LSrcAcquire, libVars, apiVars
  <2>1. Listed
    BY <1>0, <1>3, <2>0 DEF V4LSrcAcquire, Listed, TakenInv, TakenTypes
  <2>2. DestroyInv'
    BY <2>0 DEF DestroyInv
  <2>3. CASE UNCHANGED takenVars
    BY <2>0, <2>1, <2>2, <2>3, ListsKeepTaken DEF takenVars, TakenInv, TakenTypes
  <2>4. ASSUME NEW s \in Sources, V4LOpen(c, s), UNCHANGED <<entries, shared>>
        PROVE  TakenInv'
    <3>1. Sharing(s)
      <4>1. s[1] \notin V4LInUse
        BY <2>4 DEF V4LOpen
      <4>2. \A d \in Contexts : src_info[d] # None => src_info[d][1] # s[1]
        BY <4>1 DEF V4LInUse, Held
      <4> QED BY <2>4, <4>2 DEF Unit, Sharing
    <3>2. CASE Lose(s) /\ UNCHANGED <<src_info, acquired>>
      <4>1. acquired' \subseteq Sources /\ entries' \subseteq Contexts /\ lost' \subseteq Sources
        BY <2>4, <3>2 DEF Lose, TakenInv, TakenTypes
      <4> QED BY <2>0, <2>1, <2>4, <3>1, <3>2, <4>1, LosingKeepsTaken
    <3>3. CASE V4LRecord(s) /\ KeepOrLose(c, s)
      <4>1. Recorded(c, s)
        BY <2>1, <2>4, <3>3 DEF Recorded, V4LRecord, Listed, TakenInv, TakenTypes
      <4> QED BY <2>0, <2>1, <3>1, <3>3, <4>1, TakingKeepsTaken
    <3> QED BY <2>4, <3>2, <3>3 DEF V4LOpen
  <2>5. FirstOf({e \in user_src_list' : e[1] \notin V4LRecorded}) \subseteq Sources
    BY <2>1 DEF FirstOf, Listed
  <2> QED BY <1>3, <2>3, <2>4, <2>5 DEF V4LSrcAcquire
<1> QED BY <1>1, <1>2, <1>3

-----------------------------------------------------------------------------
LEMMA QtScansListed ==
  ASSUME TakenInv, QtScanSources
  PROVE  Listed
BY DEF QtScanSources, SgManagerUpdate, SgManagerUpdateFails, Listed, TakenInv, TakenTypes

LEMMA QtKeepsTaken ==
  ASSUME TakenInv, backend = "qt",
         \/ QtScan
         \/ \E c \in Contexts :
              QtSrcRelease(c) \/ \E s \in Sources \cup {None} : QtSrcAcquire(c, s)
  PROVE  TakenInv'
<1>1. CASE QtScan
  <2> USE <1>1 DEF QtScan, takenVars, apiVars, libVars
  <2>1. DestroyInv' BY DEF TakenInv, DestroyInv
  <2>2. Listed BY QtScansListed
  <2>3. present' \subseteq Devices /\ entries \subseteq Contexts BY DEF TakenInv, TakenTypes
  <2> QED BY <2>1, <2>2, <2>3, ListsKeepTaken
<1>2. ASSUME NEW c \in Contexts, QtSrcRelease(c)
      PROVE  TakenInv'
  <2> USE <1>2 DEF QtSrcRelease, libVars, listVars, apiVars
  <2>1. entries \subseteq Contexts
    BY DEF TakenInv, TakenTypes
  <2> QED BY <2>1, ReleasingKeepsTaken
<1>3. ASSUME NEW c \in Contexts, NEW req \in Sources \cup {None}, QtSrcAcquire(c, req)
      PROVE  TakenInv'
  <2>0. /\ apc = "idle" /\ src_info[c] = None /\ QtScanSources
        /\ UNCHANGED <<backend, present, apc, destroying>>
    BY <1>3 DEF QtSrcAcquire, libVars, apiVars
  <2>1. Listed
    BY <2>0, QtScansListed
  <2>2. DestroyInv'
    BY <2>0 DEF DestroyInv
  <2>3. CASE UNCHANGED takenVars
    BY <2>0, <2>1, <2>2, <2>3, ListsKeepTaken DEF takenVars, TakenInv, TakenTypes
  <2>4. ASSUME NEW s \in SgManagerFind(req), SgSourceAcquire(c, s), UNCHANGED entries,
               shared' = shared \cup (Held \cap {req})
        PROVE  TakenInv'
    <3>1. s \in Sources /\ Sharing(s)
      <4>1. CASE req = None
        <5>1. s \in mgr_list' \ acquired /\ shared' = shared
          BY <2>4, <4>1 DEF SgManagerFind, FirstOf, Held
        <5>2. s \in Sources
          BY <2>1, <5>1 DEF Listed
        <5>3. \A d \in Contexts : src_info[d] # None /\ src_info[d] = s => s \in shared
          BY <5>1 DEF TakenInv, HeldInv
        <5> QED BY <5>1, <5>2, <5>3 DEF Sharing, Unit
      <4>2. CASE req # None
        <5>1. s = req /\ s \in Sources
          BY <2>1, <2>4, <4>2 DEF SgManagerFind, Listed
        <5> QED BY <2>4, <4>2, <5>1 DEF Sharing, Unit, Held
      <4> QED BY <4>1, <4>2
    <3>2. entries \subseteq Contexts /\ acquired \subseteq Sources /\ lost \subseteq Sources
      BY DEF TakenInv, TakenTypes
    <3>3. CASE acquired' \in {acquired, acquired \ {s}} /\ UNCHANGED <<src_info, lost>>
      BY <2>0, <2>1, <2>4, <3>1, <3>2, <3>3, LosingKeepsTaken
    <3>4. CASE acquired' = acquired \cup {s} /\ KeepOrLose(c, s)
      <4>1. Recorded(c, s)
        BY <2>4, <3>1, <3>2, <3>4 DEF Recorded
      <4> QED BY <2>0, <2>1, <3>1, <3>4, <4>1, TakingKeepsTaken
    <3> QED BY <2>4, <3>3, <3>4 DEF SgSourceAcquire
  <2> QED BY <1>3, <2>3, <2>4 DEF QtSrcAcquire
<1> QED BY <1>1, <1>2, <1>3

-----------------------------------------------------------------------------
LEMMA DShowScansListed ==
  ASSUME NEW S \in DShowScans
  PROVE  S \subseteq Sources /\ \A s \in S : s[2] = 0
BY DEF DShowScans, DShowSourcesOf

LEMMA DShowKeepsTaken ==
  ASSUME TakenInv, backend = "dshow",
         \/ DShowScan
         \/ \E c \in Contexts :
              \/ DShowSrcRelease(c)
              \/ \E s \in DShowSourcesOf(Devices) \cup {None} : DShowSrcAcquire(c, s)
  PROVE  TakenInv'
<1>1. CASE DShowScan
  <2> USE <1>1 DEF DShowScan, takenVars, apiVars, libVars
  <2>1. DestroyInv' BY DEF TakenInv, DestroyInv
  <2>2. Listed BY DShowScansListed DEF Listed, TakenInv, TakenTypes
  <2>3. present' \subseteq Devices /\ entries \subseteq Contexts BY DEF TakenInv, TakenTypes
  <2> QED BY <2>1, <2>2, <2>3, ListsKeepTaken
<1>2. ASSUME NEW c \in Contexts, DShowSrcRelease(c)
      PROVE  TakenInv'
  <2> USE <1>2 DEF DShowSrcRelease, libVars, listVars, apiVars
  <2>1. entries' \subseteq Contexts
    BY DEF TakenInv, TakenTypes
  <2> QED BY <2>1, ReleasingKeepsTaken
<1>3. ASSUME NEW c \in Contexts, NEW req \in DShowSourcesOf(Devices) \cup {None},
             DShowSrcAcquire(c, req)
      PROVE  TakenInv'
  <2> DEFINE wanted == IF req = None THEN FirstOf(user_src_list') ELSE {req}
  <2>0. /\ apc = "idle" /\ src_info[c] = None
        /\ UNCHANGED <<backend, mgr_list, present, apc, destroying>>
        /\ IF req = None THEN user_src_list' \in DShowScans ELSE UNCHANGED user_src_list
    BY <1>3 DEF DShowSrcAcquire, libVars, apiVars
  <2>1. Listed
    BY <2>0, DShowScansListed DEF Listed, TakenInv, TakenTypes
  <2>1a. \A s \in wanted : s \in Sources /\ s[2] = 0
    BY <2>0, DShowScansListed DEF FirstOf, DShowSourcesOf
  <2>2. DestroyInv'
    BY <2>0 DEF DestroyInv
  <2>3. CASE UNCHANGED takenVars
    BY <2>0, <2>1, <2>2, <2>3, ListsKeepTaken DEF takenVars, TakenInv, TakenTypes
  <2>4. ASSUME NEW s \in wanted, OkayToBuildSource(c, s), Construct(c, s),
               UNCHANGED <<acquired, shared>>
        PROVE  TakenInv'
    <3>0. /\ s \in Sources /\ s[2] = 0 /\ c \notin entries /\ \A e \in entries : src_info[e] # s
          /\ entries' = entries \cup {c} /\ entries' \subseteq Contexts
      BY <2>1a, <2>4 DEF OkayToBuildSource, Registered, TakenInv, TakenTypes
    <3>1. Sharing(s)
      <4>1. ASSUME NEW d \in Contexts, src_info[d] # None
            PROVE  Unit(src_info[d]) # Unit(s)
        <5>1. d \in entries /\ src_info[d][2] = 0 /\ src_info[d] # s
          BY <3>0, <4>1 DEF TakenInv, HeldInv
        <5>2. src_info[d] \in Sources
          BY <4>1 DEF TakenInv, TakenTypes
        <5>3. s = <<s[1], s[2]>> /\ src_info[d] = <<src_info[d][1], src_info[d][2]>>
          BY <3>0, <5>2, Constants
        <5>4. src_info[d][1] # s[1]
          BY <3>0, <5>1, <5>3
        <5> QED BY <5>4 DEF Unit
      <4> QED BY <2>4, <4>1 DEF Sharing
    <3>2. CASE UNCHANGED <<src_info, lost>>
      BY <2>0, <2>1, <2>2, <2>4, <3>0, <3>2, ListsKeepTaken DEF TakenInv, TakenTypes
    <3>3. CASE KeepOrLose(c, s)
      <4>1. Recorded(c, s)
        BY <2>4, <3>0 DEF Recorded, TakenInv, TakenTypes
      <4> QED BY <2>0, <2>1, <3>0, <3>1, <3>3, <4>1, TakingKeepsTaken
    <3> QED BY <2>4, <3>2, <3>3 DEF Construct
  <2> QED BY <1>3, <2>3, <2>4 DEF DShowSrcAcquire
<1> QED BY <1>1, <1>2, <1>3

-----------------------------------------------------------------------------
\* Nobody holds a source when the sapi has gone, and its records with it.
LEMMA DestroyedKeepsTaken ==
  ASSUME TakenInv, apc \in {"destroy", "destroy_join"}, Destroyed, UNCHANGED <<backend, present>>
  PROVE  TakenInv'
<1> USE DEF Destroyed
<1>0. (\A c \in Contexts : src_info[c] = None) /\ shared = {}
  BY DEF TakenInv, DestroyInv, HeldInv, Held
<1>1. TakenTypes' BY DEF TakenInv, TakenTypes
<1>2. HeldInv' BY <1>0 DEF HeldInv
<1>3. DestroyInv' BY DEF DestroyInv
<1> QED BY <1>1, <1>2, <1>3 DEF TakenInv

\* The application's other calls, the monitor thread and the devices.
LEMMA QuietStepsKeepTaken ==
  ASSUME TakenInv,
         UNCHANGED <<backend, takenVars, user_src_list>>,
         mgr_list' \subseteq Sources, present' \subseteq Devices, DestroyInv'
  PROVE  TakenInv'
BY ListsKeepTaken DEF takenVars, TakenInv, TakenTypes, Listed

OtherStep ==
  \/ UNCHANGED sapiVars \/ ApiCall \/ ApiStep \/ \E d \in Devices : Plug(d)
  \/ MonitorSources \/ NotifyThreadStop \/ CallStep
  \/ V4LSapiRelease \/ V4LNotifyThread
  \/ SapiQtRelease \/ SapiQtReleaseJoin \/ QtThread
  \/ RegisterCallback \/ DShowSapiRelease \/ SapiDShowDestroy
  \/ HandleDeviceChange \/ MonitorDevicesEnds \/ MonitorDevicesFails \/ DShowTestCallback

LEMMA OtherStepsAreQuiet ==
  ASSUME TakenInv, OtherStep
  PROVE  /\ UNCHANGED <<backend, takenVars, user_src_list>>
         /\ mgr_list' \subseteq Sources /\ present' \subseteq Devices /\ DestroyInv'
<1> USE DEF libVars, regVars, takenVars, listVars, apiVars, threadVars, monitorVars,
            TakenInv, TakenTypes, DestroyInv
<1>1. CASE UNCHANGED sapiVars
  BY <1>1 DEF sapiVars
<1>2. CASE ApiCall
  <2>1. CASE VidcapDestroy
    <3>1. \A c \in Contexts : src_info[c] = None
      BY <2>1 DEF VidcapDestroy, Held
    <3> QED BY <2>1, <3>1 DEF VidcapDestroy
  <2>2. CASE VidcapInitialize \/ SapiAcquire \/ VidcapSapiRelease
    BY <2>2 DEF VidcapInitialize, SapiAcquire, VidcapSapiRelease
  <2>3. CASE \E c \in Clients \cup {None} : VidcapSrcsNotify(c)
    BY <2>3 DEF VidcapSrcsNotify
  <2> QED BY <1>2, <2>1, <2>2, <2>3 DEF ApiCall
<1>3. CASE ApiStep
  BY <1>3 DEF ApiStep, SetNotifyData, UnsetNotifyData
<1>4. CASE \E d \in Devices : Plug(d)
  <2>1. PICK d \in Devices : Plug(d)
    BY <1>4
  <2>2. present' \subseteq Devices
    BY <2>1 DEF Plug
  <2> QED BY <2>1, <2>2 DEF Plug
<1>5. CASE MonitorSources \/ NotifyThreadStop
  BY <1>5 DEF MonitorSources, NotifyThreadStop
<1>6. CASE CallStep
  BY <1>6 DEF CallStep, LoadCallback, LoadData, CallReturns
<1>7. CASE V4LSapiRelease \/ V4LNotifyThread
  BY <1>7 DEF V4LSapiRelease, V4LNotifyThread, Released
<1>8. CASE SapiQtRelease \/ SapiQtReleaseJoin
  BY <1>8 DEF SapiQtRelease, SapiQtReleaseJoin, Released
<1>9. CASE QtNotifyThread
  <2>1. mgr_list' \subseteq Sources
    BY <1>9 DEF QtNotifyThread, SgManagerUpdate, SgManagerUpdateFails
  <2> QED BY <1>9, <2>1 DEF QtNotifyThread
<1>10. CASE QtNotifyThreadBegins \/ QtTestCallback
  BY <1>10 DEF QtNotifyThreadBegins, QtTestCallback
<1>11. CASE RegisterCallback \/ DShowSapiRelease \/ SapiDShowDestroy
  BY <1>11 DEF RegisterCallback, DShowSapiRelease, SapiDShowDestroy, Released
<1>12. CASE HandleDeviceChange \/ MonitorDevicesEnds \/ MonitorDevicesFails \/ DShowTestCallback
  BY <1>12 DEF HandleDeviceChange, MonitorDevicesEnds, MonitorDevicesFails, DShowTestCallback
<1> QED
  BY <1>1, <1>2, <1>3, <1>4, <1>5, <1>6, <1>7, <1>8, <1>9, <1>10, <1>11, <1>12
     DEF QtThread, OtherStep

LEMMA NextKeepsTaken == TakenInv /\ [Next]_sapiVars => TakenInv'
<1> SUFFICES ASSUME TakenInv, [Next]_sapiVars PROVE TakenInv'
  OBVIOUS
<1>1. CASE OtherStep
  BY <1>1, OtherStepsAreQuiet, QuietStepsKeepTaken
<1>2. CASE V4LDestroy \/ SapiQtDestroy \/ PostMessageFails \/ DevMonitorJoin
  BY <1>2, DestroyedKeepsTaken DEF V4LDestroy, SapiQtDestroy, PostMessageFails, DevMonitorJoin
<1>3. CASE backend = "v4l" /\ V4LNext
  BY <1>1, <1>2, <1>3, V4LKeepsTaken
     DEF V4LNext, V4LApiStep, V4LMonitorSources, V4LNotifyThreadStop, OtherStep
<1>4. CASE backend = "qt" /\ QtNext
  BY <1>1, <1>2, <1>4, QtKeepsTaken
     DEF QtNext, QtApiStep, QtMonitorSources, QtNotifyThreadStop, OtherStep
<1>5. CASE backend = "dshow" /\ DShowNext
  BY <1>1, <1>2, <1>5, DShowKeepsTaken
     DEF DShowNext, DShowApiStep, DShowThread, OtherStep
<1> QED BY <1>1, <1>3, <1>4, <1>5 DEF Next, OtherStep

LEMMA InitTaken == Init => TakenInv
<1> SUFFICES ASSUME Init PROVE TakenInv
  OBVIOUS
<1> USE DEF Init, SapiInit
<1>1. TakenTypes BY DEF TakenTypes
<1>2. HeldInv BY DEF HeldInv
<1>3. DestroyInv BY DEF DestroyInv
<1> QED BY <1>1, <1>2, <1>3 DEF TakenInv

LEMMA TakenCorrect == Spec => []TakenInv
BY InitTaken, NextKeepsTaken, PTL DEF Spec

-----------------------------------------------------------------------------
\* Every variable keeps its type, for every backend.
THEOREM TypeCorrect == Spec => []TypeOK
<1>1. MonitorInv /\ TakenInv => TypeOK
  <2> SUFFICES ASSUME MonitorInv, TakenInv PROVE TypeOK
    OBVIOUS
  <2>1. (tpc \in {"load", "load_data", "calling"}) = (cb # None)
    BY DEF MonitorInv, HoldsInv, CallPC
  <2>2. destroying \in BOOLEAN /\ notifying \in BOOLEAN /\ watched \in BOOLEAN
        /\ last_count \in BOOLEAN
    BY DEF MonitorInv, FlagTypes
  <2> QED BY <2>1, <2>2 DEF MonitorInv, MonitorTypes, TakenInv, TakenTypes, HeldInv, TypeOK
<1> QED BY <1>1, MonitorCorrect, TakenCorrect, PTL

-----------------------------------------------------------------------------
(* Acquire and release implement DeviceLeases.                              *)

Leased == {h \in Contexts : src_info[h] # None /\ src_info[h] \notin shared}

TheLeases == {<<Unit(src_info[c]), c>> : c \in Leased}

\* The lease of c is gone, or stays; those of the others stay.
LEMMA LeaseEnded ==
  ASSUME UNCHANGED backend, NEW c \in Contexts, c \in Leased,
         Leased' = Leased \ {c}, \A d \in Leased \ {c} : src_info'[d] = src_info[d]
  PROVE  Leases!Return(Unit(src_info[c]), c)
<1>1. \A d \in Leased \ {c} : Unit(src_info[d])' = Unit(src_info[d])
  BY DEF Unit
<1>2. <<Unit(src_info[c]), c>> \in TheLeases
  BY DEF TheLeases
<1>3. TheLeases' = TheLeases \ {<<Unit(src_info[c]), c>>}
  BY <1>1 DEF TheLeases
<1> QED BY <1>2, <1>3 DEF TheLeases, Leased, Leases!Return

LEMMA LeasesStay ==
  ASSUME UNCHANGED backend, Leased' = Leased, \A d \in Leased : src_info'[d] = src_info[d]
  PROVE  UNCHANGED TheLeases
<1>1. \A d \in Leased : Unit(src_info[d])' = Unit(src_info[d])
  BY DEF Unit
<1> QED BY <1>1 DEF TheLeases

LEMMA LeaseTaken ==
  ASSUME TakenInv, TakenInv', NEW c \in Contexts, NEW s \in Sources,
         UNCHANGED <<backend, shared>>, s \notin shared,
         src_info[c] = None, src_info' = [src_info EXCEPT ![c] = s]
  PROVE  Leases!Take(Unit(s), c)
<1>1. /\ \A d \in Contexts : src_info'[d] = IF d = c THEN s ELSE src_info[d]
      /\ s # None
  BY Constants DEF TakenInv, TakenTypes
<1>2. /\ \A d \in Contexts \ {c} : Unit(src_info[d])' = Unit(src_info[d])
      /\ Unit(src_info[c])' = Unit(s)
  BY <1>1 DEF Unit
<1>3. Leased' = Leased \cup {c} /\ c \notin Leased /\ Leased \subseteq Contexts
  BY <1>1 DEF Leased
<1>4. TheLeases' = TheLeases \cup {<<Unit(s), c>>}
  BY <1>2, <1>3 DEF TheLeases
<1>5. \A l \in TheLeases : l[1] # Unit(s) /\ l[2] # c
  <2>1. ASSUME NEW d \in Leased PROVE Unit(src_info[d]) # Unit(s)
    <3>1. d \in Contexts /\ d # c /\ src_info'[d] # None /\ src_info'[c] = s
      BY <1>1, <1>3 DEF Leased
    <3>2. Unit(src_info[c])' # Unit(src_info[d])'
      BY <1>1, <3>1 DEF TakenInv, HeldInv
    <3> QED BY <1>2, <3>1, <3>2
  <2> QED BY <1>3, <2>1 DEF TheLeases
<1> QED BY <1>4, <1>5 DEF TheLeases, Leased, Leases!Take

\* A step gives a source to a context without one, takes one away, lets a
\* second context ask QuickTime for one that is held, or does nothing of it.
Gives(c, s) == src_info[c] = None /\ src_info' = [src_info EXCEPT ![c] = s]

LeaseStep ==
  \/ UNCHANGED <<src_info, shared>>
  \/ \E c \in Contexts : src_info[c] # None /\ FreeContext(c)
  \/ \E c \in Contexts, s \in Sources : Gives(c, s) /\ UNCHANGED shared
  \/ /\ backend = "qt"
     /\ \E s \in Held : /\ shared' = shared \cup {s}
                        /\ UNCHANGED src_info \/ \E c \in Contexts : Gives(c, s)

LEMMA StepsLease ==
  ASSUME TakenInv, [Next]_sapiVars
  PROVE  UNCHANGED backend /\ LeaseStep
<1> DEFINE Goal == UNCHANGED backend /\ LeaseStep
<1> USE DEF libVars, takenVars
<1>1. CASE OtherStep
  <2>1. UNCHANGED <<backend, takenVars>>
    BY <1>1, OtherStepsAreQuiet
  <2> QED BY <2>1 DEF LeaseStep
<1>2. CASE V4LDestroy \/ SapiQtDestroy \/ PostMessageFails \/ DevMonitorJoin
  BY <1>2 DEF V4LDestroy, SapiQtDestroy, PostMessageFails, DevMonitorJoin, Destroyed, LeaseStep
<1>3. CASE V4LScan \/ QtScan \/ DShowScan
  BY <1>3 DEF V4LScan, QtScan, DShowScan, LeaseStep
<1>4. ASSUME NEW c \in Contexts, V4LSrcRelease(c) \/ QtSrcRelease(c) \/ DShowSrcRelease(c)
      PROVE  Goal
  BY <1>4 DEF V4LSrcRelease, QtSrcRelease, DShowSrcRelease, LeaseStep
<1>5. ASSUME NEW c \in Contexts, NEW s \in Sources, src_info[c] = None,
             UNCHANGED <<backend, shared>>, KeepOrLose(c, s) \/ UNCHANGED src_info
      PROVE  Goal
  BY <1>5 DEF KeepOrLose, LeaseStep, Gives
<1>6. ASSUME NEW c \in Contexts, NEW req \in Sources \cup {None}, backend = "v4l",
             V4LSrcAcquire(c, req)
      PROVE  Goal
  <2>1. src_info[c] = None /\ UNCHANGED backend
    BY <1>6 DEF V4LSrcAcquire
  <2>2. user_src_list' \subseteq Sources
    BY <1>6 DEF V4LSrcAcquire, V4LScanned, V4LListing, TakenInv, TakenTypes
  <2>3. ASSUME NEW s \in Sources, V4LOpen(c, s), UNCHANGED shared PROVE Goal
    BY <1>5, <2>1, <2>3 DEF V4LOpen
  <2>4. CASE UNCHANGED takenVars
    BY <2>1, <2>4 DEF LeaseStep
  <2>5. FirstOf({e \in user_src_list' : e[1] \notin V4LRecorded}) \subseteq Sources
    BY <2>2 DEF FirstOf
  <2> QED BY <1>6, <2>3, <2>4, <2>5 DEF V4LSrcAcquire
<1>7. ASSUME NEW c \in Contexts, NEW req \in Sources \cup {None}, backend = "qt",
             QtSrcAcquire(c, req)
      PROVE  Goal
  <2>1. src_info[c] = None /\ UNCHANGED backend /\ mgr_list' \subseteq Sources
    BY <1>7, QtScansListed DEF QtSrcAcquire, Listed
  <2>2. SgManagerFind(req) \subseteq Sources
    BY <2>1 DEF SgManagerFind, FirstOf
  <2>3. ASSUME NEW s \in SgManagerFind(req), SgSourceAcquire(c, s),
               shared' = shared \cup (Held \cap {req})
        PROVE  Goal
    <3>1. s \in Sources
      BY <2>2
    <3>2. CASE req \notin Held
      <4>1. UNCHANGED shared
        BY <2>3, <3>2
      <4> QED BY <1>5, <2>1, <2>3, <3>1, <4>1 DEF SgSourceAcquire
    <3>3. CASE req \in Held
      <4>1. s = req /\ shared' = shared \cup {s}
        BY <2>3, <3>3 DEF SgManagerFind, Held
      <4>2. UNCHANGED src_info \/ Gives(c, s)
        BY <2>1, <2>3 DEF SgSourceAcquire, KeepOrLose, Gives
      <4> QED BY <1>7, <2>1, <3>3, <4>1, <4>2 DEF LeaseStep
    <3> QED BY <3>2, <3>3
  <2>4. CASE UNCHANGED takenVars
    BY <2>1, <2>4 DEF LeaseStep
  <2> QED BY <1>7, <2>3, <2>4 DEF QtSrcAcquire
<1>8. ASSUME NEW c \in Contexts, NEW req \in DShowSourcesOf(Devices) \cup {None},
             DShowSrcAcquire(c, req)
      PROVE  Goal
  <2> DEFINE wanted == IF req = None THEN FirstOf(user_src_list') ELSE {req}
  <2>1. src_info[c] = None /\ UNCHANGED backend
    BY <1>8 DEF DShowSrcAcquire
  <2>2. wanted \subseteq Sources
    BY <1>8, DShowScansListed DEF DShowSrcAcquire, FirstOf, DShowSourcesOf
  <2>3. ASSUME NEW s \in wanted, Construct(c, s), UNCHANGED shared PROVE Goal
    BY <1>5, <2>1, <2>2, <2>3 DEF Construct
  <2>4. CASE UNCHANGED takenVars
    BY <2>1, <2>4 DEF LeaseStep
  <2> QED BY <1>8, <2>3, <2>4 DEF DShowSrcAcquire
<1> HIDE DEF Goal
<1>9. CASE backend = "v4l" /\ V4LNext
  BY <1>1, <1>2, <1>3, <1>4, <1>6, <1>9
     DEF V4LNext, V4LApiStep, V4LMonitorSources, V4LNotifyThreadStop, OtherStep, Goal
<1>10. CASE backend = "qt" /\ QtNext
  BY <1>1, <1>2, <1>3, <1>4, <1>7, <1>10
     DEF QtNext, QtApiStep, QtMonitorSources, QtNotifyThreadStop, OtherStep, Goal
<1>11. CASE backend = "dshow" /\ DShowNext
  BY <1>1, <1>2, <1>3, <1>4, <1>8, <1>11
     DEF DShowNext, DShowApiStep, DShowThread, OtherStep, Goal
<1> QED BY <1>1, <1>9, <1>10, <1>11 DEF Next, OtherStep, Goal

\* A unit has one holder at a time, whatever is listed, asked for, acquired
\* half way, lost or released: every backend implements DeviceLeases, QuickTime
\* for the inputs that are not asked for by name while they are held.
THEOREM LeaseHolds == Spec => LeaseSpec
<1>1. Init => Leases!Init
  BY DEF Init, SapiInit, Leases!Init
<1>2. TakenInv /\ TakenInv' /\ [Next]_sapiVars => [Leases!Next]_TheLeases
  <2> SUFFICES ASSUME TakenInv, TakenInv', [Next]_sapiVars PROVE [Leases!Next]_TheLeases
    OBVIOUS
  <2>0. UNCHANGED backend
    BY StepsLease
  <2>u. ASSUME NEW c \in Contexts, src_info[c] # None PROVE Unit(src_info[c]) \in Sources
    <3>1. src_info[c] \in Sources
      BY <2>u DEF TakenInv, TakenTypes
    <3> QED BY <3>1, Constants DEF Unit
  <2>1. CASE UNCHANGED <<src_info, shared>>
    BY <2>0, <2>1, LeasesStay DEF Leased
  <2>2. ASSUME NEW c \in Contexts, src_info[c] # None, FreeContext(c)
        PROVE  [Leases!Next]_TheLeases
    <3>1. \A d \in Contexts : src_info'[d] = IF d = c THEN None ELSE src_info[d]
      BY <2>2 DEF FreeContext, TakenInv, TakenTypes
    <3>2. \A d \in Contexts \ {c} : src_info[d] \in shared' <=> src_info[d] \in shared
      BY <2>2 DEF FreeContext
    <3>3. Leased' = Leased \ {c}
      BY <3>1, <3>2 DEF Leased
    <3>4. CASE c \in Leased
      <4>1. \A d \in Leased \ {c} : src_info'[d] = src_info[d]
        BY <3>1 DEF Leased
      <4>2. Leases!Return(Unit(src_info[c]), c)
        BY <2>0, <3>3, <3>4, <4>1, LeaseEnded
      <4> QED BY <2>2, <2>u, <4>2 DEF Leases!Next
    <3>5. CASE c \notin Leased
      <4>1. Leased' = Leased /\ \A d \in Leased : src_info'[d] = src_info[d]
        BY <3>1, <3>3, <3>5 DEF Leased
      <4> QED BY <2>0, <4>1, LeasesStay
    <3> QED BY <3>4, <3>5
  <2>3. ASSUME NEW c \in Contexts, NEW s \in Sources, Gives(c, s), UNCHANGED shared
        PROVE  [Leases!Next]_TheLeases
    <3>1. \A d \in Contexts : src_info'[d] = IF d = c THEN s ELSE src_info[d]
      BY <2>3 DEF Gives, TakenInv, TakenTypes
    <3>2. CASE s \in shared
      <4>1. Leased' = Leased /\ \A d \in Leased : src_info'[d] = src_info[d]
        BY <2>3, <3>1, <3>2 DEF Leased, Gives
      <4> QED BY <2>0, <4>1, LeasesStay
    <3>3. CASE s \notin shared
      <4>1. Unit(s) \in Sources
        BY Constants DEF Unit
      <4> QED BY <2>0, <2>3, <3>3, <4>1, LeaseTaken DEF Leases!Next, Gives
    <3> QED BY <3>2, <3>3
  <2>4. ASSUME NEW s \in Held, shared' = shared \cup {s}, backend = "qt",
               UNCHANGED src_info \/ \E c \in Contexts : Gives(c, s)
        PROVE  [Leases!Next]_TheLeases
    <3>1. PICK d \in Contexts : src_info[d] = s /\ s # None
      BY DEF Held
    <3>2. \A b \in Contexts : src_info'[b] = src_info[b] \/ (src_info[b] = None /\ src_info'[b] = s)
      BY <2>4 DEF Gives, TakenInv, TakenTypes
    <3>3. CASE s \in shared
      <4>1. Leased' = Leased /\ \A b \in Leased : src_info'[b] = src_info[b]
        BY <2>4, <3>2, <3>3 DEF Leased
      <4> QED BY <2>0, <4>1, LeasesStay
    <3>4. CASE s \notin shared
      <4>1. \A b \in Contexts \ {d} : src_info[b] # s
        BY <3>1, <3>4 DEF TakenInv, HeldInv
      <4>2. d \in Leased
        BY <3>1, <3>4 DEF Leased
      <4>3. Leased' = Leased \ {d}
        BY <2>4, <3>1, <3>2, <4>1 DEF Leased
      <4>4. \A b \in Leased \ {d} : src_info'[b] = src_info[b]
        BY <3>2 DEF Leased
      <4>5. Leases!Return(Unit(src_info[d]), d)
        BY <2>0, <4>2, <4>3, <4>4, LeaseEnded
      <4> QED BY <2>u, <3>1, <4>5 DEF Leases!Next
    <3> QED BY <3>3, <3>4
  <2> QED BY <2>1, <2>2, <2>3, <2>4, StepsLease DEF LeaseStep
<1> QED BY <1>1, <1>2, TakenCorrect, PTL DEF Spec, LeaseSpec, Leases!Spec, TheLeases, Leased
=============================================================================
