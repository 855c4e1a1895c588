----------------------------- MODULE SapiContext ----------------------------
(***************************************************************************)
(* The library, its one backend ("sapi") and the source contexts acquired  *)
(* from it: vidcap_initialize to vidcap_src_release of src/vidcap.c, as    *)
(* far as they are the same for every backend, called by one application   *)
(* thread.  Which backend a build registers is chosen in Init.             *)
(*                                                                         *)
(* A call that is interleaved with the backend's monitor thread is split   *)
(* into steps, with control point apc; scanning, acquiring and releasing   *)
(* a source are one step each, since no other thread changes what they     *)
(* use (QuickTime's list is guarded by its mutex).  A source is a pair     *)
(* <<device, channel>>.  Capturing is the subject of SourceContext.        *)
(***************************************************************************)
EXTENDS Integers, FiniteSets

CONSTANTS
  Backends,     \* "v4l", "qt", "dshow"
  Devices,      \* numbered in the order in which a scan finds them
  DualDevices,  \* those with a second channel or input
  NotCapture,   \* video devices that are not (only) capture devices
  Contexts,     \* memory blocks for a struct sapi_src_context
  Clients,      \* callback and user data pairs for the source notification
  MaxLost,      \* bound: sources lost by acquisitions that fail late
  None          \* a null pointer

ASSUME SapiContextAssumption ==
  /\ Backends \subseteq {"v4l", "qt", "dshow"}
  /\ Devices \subseteq Nat /\ NotCapture \subseteq Devices
  /\ DualDevices \subseteq Devices \ NotCapture
  /\ None \notin Clients /\ None \notin Nat \X Nat

VARIABLES
  backend, library,  \* the sapi compiled in; "down" or "up"
  ref_count,         \* of the sapi
  notify_callback, notify_data,
  user_src_list,     \* the sources last listed, a set
  src_info,          \* [Contexts -> source held, or None for a free block]
  lost,              \* sources the backend still has open though nobody holds them
  acquired,          \* V4L: acquired_src_list; QuickTime: sources with the flag set
  mgr_list,          \* QuickTime: sg_manager's source list
  entries,           \* DirectShow: blocks srcGraphList_ points into
  shared,            \* history: held sources a second context asked for by name
  present,           \* devices plugged in
  apc, client,       \* application: control point, argument of vidcap_srcs_notify
  destroying,        \* the sapi is released by vidcap_destroy
  tpc,               \* monitor thread: control point
  notifying,         \* V4L, QuickTime: the flag its loop tests
  watched,           \* DirectShow: sapiCtx_ is set
  last_count,        \* QuickTime: the thread's last_source_count, as "is not 0"
  cb, data           \* what the thread has loaded for the call

libVars == <<backend, library, ref_count>>
regVars == <<notify_callback, notify_data>>
takenVars == <<src_info, lost, acquired, entries, shared>>
listVars == <<user_src_list, mgr_list>>
apiVars == <<apc, client, destroying>>
threadVars == <<tpc, last_count, cb, data>>
monitorVars == <<notifying, watched, threadVars>>
sapiVars == <<libVars, regVars, takenVars, listVars, present, apiVars, monitorVars>>

Sources == ((Devices \ NotCapture) \X {0}) \cup (DualDevices \X {1})

\* The order of a list: by device, then by channel.
Before(s, t) == s[1] < t[1] \/ (s[1] = t[1] /\ s[2] < t[2])

\* The first source of a list, as a set: empty for an empty list.
FirstOf(S) == {s \in S : \A t \in S \ {s} : Before(s, t)}

Held == {src_info[c] : c \in Contexts} \ {None}

ApiPC == {"idle", "set_data", "monitor", "join", "unset_data", "release", "release_join",
          "destroy", "destroy_join"}
ThreadPC == {"none", "begin", "wait", "test", "load", "load_data", "calling", "null_call", "exited"}

Alive == tpc \notin {"none", "exited"}

SapiInit ==
  /\ backend \in Backends /\ library = "down"
  /\ ref_count = 0 /\ notify_callback = None /\ notify_data = None
  /\ user_src_list = {}
  /\ acquired = {} /\ mgr_list = {} /\ entries = {}
  /\ notifying = FALSE /\ watched = FALSE
  /\ src_info = [c \in Contexts |-> None] /\ lost = {} /\ shared = {}
  /\ present \in SUBSET Devices
  /\ apc = "idle" /\ client = None /\ destroying = FALSE
  /\ tpc = "none" /\ last_count = FALSE /\ cb = None /\ data = None

-----------------------------------------------------------------------------
(* The application's calls.                                                 *)

\* The DirectShow backend creates its monitor thread here, with DevMonitor.  An
\* application does not initialize the library again beside a thread that the
\* last vidcap_destroy left behind.
VidcapInitialize ==
  /\ apc = "idle" /\ library = "down" /\ ~Alive
  /\ library' = "up"
  /\ tpc' = IF backend = "dshow" THEN "wait" ELSE "none"
  /\ UNCHANGED <<backend, ref_count, regVars, takenVars, listVars, present, apiVars,
                 notifying, watched, last_count, cb, data>>

\* Altered form, for TypeOK: a sapi already acquired is acquired again.
SapiAcquire_again ==
  /\ apc = "idle" /\ library = "up"
  /\ ref_count' = ref_count + 1
  /\ UNCHANGED <<backend, library, regVars, takenVars, listVars, present, apiVars, monitorVars>>

SapiAcquire ==
  /\ apc = "idle" /\ library = "up" /\ ref_count = 0
  /\ ref_count' = 1
  /\ UNCHANGED <<backend, library, regVars, takenVars, listVars, present, apiVars, monitorVars>>

\* A client may be registered over another one, or taken away when none is there.
\* Only, an application leaves V4L and QuickTime one monitor thread at a time: a
\* call beside a thread that runs would start another one and forget the handle
\* of the first.
VidcapSrcsNotify(c) ==
  /\ apc = "idle" /\ ref_count = 1
  /\ backend = "dshow" \/ ~Alive \/ (c = None /\ notifying)
  /\ client' = c
  /\ notify_callback' = c
  /\ apc' = "set_data"
  /\ UNCHANGED <<libVars, notify_data, takenVars, listVars, present, destroying, monitorVars>>

SetNotifyData ==
  /\ apc = "set_data"
  /\ notify_data' = client
  /\ apc' = "monitor"
  /\ UNCHANGED <<libVars, notify_callback, takenVars, listVars, present, client, destroying,
                 monitorVars>>

\* monitor_sources failed: the registration is taken back (lines 267-271).
UnsetNotifyData ==
  /\ apc = "unset_data"
  /\ notify_callback' = None /\ notify_data' = None
  /\ apc' = "idle"
  /\ UNCHANGED <<libVars, takenVars, listVars, present, client, destroying, monitorVars>>

VidcapSapiRelease ==
  /\ apc = "idle" /\ ref_count = 1
  /\ apc' = "release" /\ destroying' = FALSE
  /\ UNCHANGED <<libVars, regVars, takenVars, listVars, present, client, monitorVars>>

\* Called once the application has released its sources.
VidcapDestroy ==
  /\ apc = "idle" /\ library = "up" /\ Held = {}
  /\ apc' = IF ref_count = 1 THEN "release" ELSE "destroy"
  /\ destroying' = TRUE
  /\ UNCHANGED <<libVars, regVars, takenVars, listVars, present, client, monitorVars>>

\* sapi_release, and back to vidcap_destroy or to the application.
Released ==
  /\ ref_count' = 0
  /\ apc' = IF destroying THEN "destroy" ELSE "idle"

\* The sapi's destroy has returned: everything of the library is freed, and the
\* next vidcap_initialize finds what calloc leaves.  What the backend did not
\* close stays open.
Destroyed ==
  /\ library' = "down"
  /\ ref_count' = 0 /\ notify_callback' = None /\ notify_data' = None
  /\ user_src_list' = {}
  /\ acquired' = {} /\ mgr_list' = {} /\ entries' = {}
  /\ notifying' = FALSE /\ watched' = FALSE
  /\ apc' = "idle" /\ destroying' = FALSE
  /\ UNCHANGED <<src_info, lost, shared>>

\* A source stays open in the backend with nobody to release it.
Lose(s) ==
  /\ Cardinality(lost) < MaxLost
  /\ lost' = lost \cup {s}

\* vidcap_src_acquire once the backend has the source: it belongs to the
\* context, or the format list cannot be built and the context alone is freed.
KeepOrLose(c, s) ==
  \/ src_info' = [src_info EXCEPT ![c] = s] /\ UNCHANGED lost
  \/ Lose(s) /\ UNCHANGED src_info

\* vidcap_src_release once the backend has closed the source.
FreeContext(c) ==
  /\ src_info' = [src_info EXCEPT ![c] = None]
  /\ shared' = {s \in shared : \E d \in Contexts \ {c} : src_info[d] = s}

ApiStep == SetNotifyData \/ UnsetNotifyData

ApiCall ==
  \/ VidcapInitialize \/ SapiAcquire \/ VidcapSapiRelease \/ VidcapDestroy
  \/ \E c \in Clients \cup {None} : VidcapSrcsNotify(c)

\* A device is plugged in or out.
Plug(d) ==
  /\ present' = IF d \in present THEN present \ {d} ELSE present \cup {d}
  /\ UNCHANGED <<libVars, regVars, takenVars, listVars, apiVars, monitorVars>>
=============================================================================
