---------------------------- MODULE DShowSources ----------------------------
(***************************************************************************)
(* The source registry and the device monitor of the DirectShow backend:   *)
(* src/sapi_dshow.cpp, DShowSrcManager, the constructions of               *)
(* SourceStateMachine and DirectShowSource with their failures, and        *)
(* DevMonitor.  DirectShow is external.  The registry srcGraphList_ keeps  *)
(* pointers to the identifiers inside the source contexts, entered before  *)
(* a source is constructed; entries is the set of the contexts pointed     *)
(* into.  A pointer into a freed context is compared with whatever is      *)
(* there.                                                                  *)
(***************************************************************************)
EXTENDS SourceMonitor

\* One source per device.
DShowSourcesOf(D) == {s \in Sources : s[1] \in D /\ s[2] = 0}

\* An enumeration may end early.
DShowScans ==
  {DShowSourcesOf({d \in present : d < n}) : n \in Devices} \cup {DShowSourcesOf(present)}

DShowScan ==
  /\ apc = "idle" /\ ref_count = 1
  /\ user_src_list' \in DShowScans
  /\ UNCHANGED <<libVars, regVars, takenVars, mgr_list, present, apiVars, monitorVars>>

\* The identifier of s is found in the registry.  When c itself is entered the
\* pointer leads to the identifier just copied into c.
Registered(c, s) == c \in entries \/ \E e \in entries : src_info[e] = s

MayMatchFreed == \E e \in entries : src_info[e] = None

OkayToBuildSource(c, s) == ~Registered(c, s) /\ entries' = entries \cup {c}

\* The constructors of SourceStateMachine and DirectShowSource: finding the
\* device, binding it and the calls of createCapGraphFoo, the graph monitor, the
\* events and the thread.  Where one fails the source is taken down again, but
\* stays in the registry.
Construct(c, s) ==
  \/ UNCHANGED <<src_info, lost>>
  \/ s[1] \in present /\ KeepOrLose(c, s)

\* vidcap_src_acquire.  The default is the first source of a new scan, in use
\* or not.
DShowSrcAcquire(c, req) ==
  /\ apc = "idle" /\ ref_count = 1 /\ src_info[c] = None
  /\ IF req = None THEN user_src_list' \in DShowScans ELSE UNCHANGED user_src_list
  /\ LET wanted == IF req = None THEN FirstOf(user_src_list') ELSE {req} IN
       \/ /\ MayMatchFreed \/ \A s \in wanted : Registered(c, s)
          /\ UNCHANGED takenVars
       \/ \E s \in wanted :
            OkayToBuildSource(c, s) /\ Construct(c, s) /\ UNCHANGED <<acquired, shared>>
  /\ UNCHANGED <<libVars, regVars, mgr_list, present, apiVars, monitorVars>>

\* sourceReleased compares pointers, and finds the context's own entry.
DShowSrcRelease(c) ==
  /\ apc = "idle" /\ src_info[c] # None
  /\ entries' = entries \ {c}
  /\ FreeContext(c)
  /\ UNCHANGED <<libVars, regVars, lost, acquired, listVars, present, apiVars, monitorVars>>

-----------------------------------------------------------------------------
\* Altered form, for UnregisteredIsQuiet and CallsAreOwn: without
\* registrationMutex_.
RegisterCallback_unlocked ==
  /\ apc = "monitor"
  /\ watched' = TRUE
  /\ apc' = "idle"
  /\ UNCHANGED <<libVars, regVars, takenVars, listVars, present, client, destroying, notifying,
                 threadVars>>

\* Waits for registrationMutex_, which the monitor thread holds while it
\* handles a device change.
RegisterCallback ==
  /\ apc = "monitor" /\ tpc \in {"none", "wait", "exited"}
  /\ watched' = TRUE
  /\ apc' = "idle"
  /\ UNCHANGED <<libVars, regVars, takenVars, listVars, present, client, destroying, notifying,
                 threadVars>>

\* WM_DEVICECHANGE; the mutex is held until the handler is done.
HandleDeviceChange ==
  /\ tpc = "wait"
  /\ tpc' = "test"
  /\ UNCHANGED <<libVars, regVars, takenVars, listVars, present, apiVars, notifying, watched,
                 last_count, cb, data>>

\* A thread left behind looks into freed memory.
DShowTestCallback ==
  /\ tpc = "test"
  /\ \/ watched /\ Tested
     \/ (~watched \/ notify_callback = None) /\ tpc' = "wait" /\ UNCHANGED cb
     \/ library = "down" /\ tpc' = "null_call" /\ UNCHANGED cb
  /\ UNCHANGED <<libVars, regVars, takenVars, listVars, present, apiVars, notifying, watched,
                 last_count, data>>

\* WM_CLOSE, posted by ~DevMonitor: it is taken from the queue in its turn.
MonitorDevicesEnds ==
  /\ tpc = "wait" /\ apc = "destroy_join"
  /\ tpc' = "exited"
  /\ UNCHANGED <<libVars, regVars, takenVars, listVars, present, apiVars, notifying, watched,
                 last_count, cb, data>>

\* GetMessage returns an error: the thread ends, and its window with it.
MonitorDevicesFails ==
  /\ tpc = "wait"
  /\ tpc' = "exited"
  /\ UNCHANGED <<libVars, regVars, takenVars, listVars, present, apiVars, notifying, watched,
                 last_count, cb, data>>

DShowSapiRelease ==
  /\ apc = "release"
  /\ Released
  /\ UNCHANGED <<backend, library, regVars, takenVars, listVars, present, client, destroying,
                 monitorVars>>

\* sapi_dshow_destroy: the last reference to the manager deletes it, and the
\* device monitor with it, which posts WM_CLOSE to its thread's window.
SapiDShowDestroy ==
  /\ apc = "destroy" /\ Alive
  /\ apc' = "destroy_join"
  /\ UNCHANGED <<libVars, regVars, takenVars, listVars, present, client, destroying, monitorVars>>

\* The message cannot be posted, because the queue is full or the window has gone:
\* ~DevMonitor returns, and what the thread uses is freed.
PostMessageFails ==
  /\ apc = "destroy"
  /\ Destroyed
  /\ UNCHANGED <<backend, present, client, threadVars>>

\* WaitForSingleObject on the thread.
DevMonitorJoin ==
  /\ apc = "destroy_join" /\ tpc = "exited"
  /\ tpc' = "none"
  /\ Destroyed
  /\ UNCHANGED <<backend, present, client, last_count, cb, data>>

DShowThread == DShowTestCallback \/ CallStep

DShowApiStep ==
  RegisterCallback \/ DShowSapiRelease \/ SapiDShowDestroy \/ PostMessageFails \/ DevMonitorJoin

DShowNext ==
  \/ DShowApiStep \/ DShowThread \/ HandleDeviceChange \/ MonitorDevicesEnds \/ MonitorDevicesFails
  \/ DShowScan
  \/ \E c \in Contexts :
       \/ DShowSrcRelease(c)
       \/ \E s \in DShowSourcesOf(Devices) \cup {None} : DShowSrcAcquire(c, s)
=============================================================================
