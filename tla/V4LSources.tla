----------------------------- MODULE V4LSources -----------------------------
(***************************************************************************)
(* The source lists of the Video4Linux backend, src/sapi_v4l.c: scan,      *)
(* acquisition and release with the list of acquired sources, and the      *)
(* monitor thread's life.  A device has several channels, each a source,   *)
(* but is opened exclusively (the driver is external): a scan cannot open  *)
(* a device in use and lists what was recorded when it was acquired.       *)
(* A channel whose ioctl fails is left out of a list; the model's channels *)
(* answer, and no list runs out of memory.                                 *)
(***************************************************************************)
EXTENDS SourceMonitor

V4LInUse == {s[1] : s \in Held \cup lost}

V4LRecorded == {s[1] : s \in acquired}

\* What opening each device in turn and looking in the acquired list yields.
V4LListing ==
  {s \in Sources : s[1] \in present \ V4LInUse} \cup acquired

\* A device that is not purely a capture device ends the scan with an error.
V4LObstacles == present \cap NotCapture

V4LScanned == {s \in V4LListing : \A d \in V4LObstacles : s[1] < d}

\* vidcap_src_list_update.
V4LScan ==
  /\ apc = "idle" /\ ref_count = 1
  /\ user_src_list' = V4LScanned
  /\ UNCHANGED <<libVars, regVars, takenVars, mgr_list, present, apiVars, monitorVars>>

\* All channels of the device, as far as the last list shows them.
V4LRecord(s) == acquired' = acquired \cup {e \in user_src_list' : e[1] = s[1]}

\* The device is opened and asked.  An ioctl that fails leaves it open.
V4LOpen(c, s) ==
  /\ s[1] \in present \ V4LInUse /\ s[1] \notin V4LRecorded
  /\ \/ Lose(s) /\ UNCHANGED <<src_info, acquired>>
     \/ V4LRecord(s) /\ KeepOrLose(c, s)

\* vidcap_src_acquire for the source req, or for the default source: the first
\* one a new scan lists of a device that is not recorded as acquired.  The call
\* fails when there is none and when the device cannot be opened.
V4LSrcAcquire(c, req) ==
  /\ apc = "idle" /\ ref_count = 1 /\ src_info[c] = None
  /\ IF req = None THEN user_src_list' = V4LScanned ELSE UNCHANGED user_src_list
  /\ \/ UNCHANGED takenVars
     \/ /\ \/ req # None /\ V4LOpen(c, req)
           \/ /\ req = None /\ V4LObstacles = {}
              /\ \E s \in FirstOf({e \in user_src_list' : e[1] \notin V4LRecorded}) :
                   V4LOpen(c, s)
        /\ UNCHANGED <<entries, shared>>
  /\ UNCHANGED <<libVars, regVars, mgr_list, present, apiVars, monitorVars>>

\* Every recorded channel of the device.
V4LUnrecord(s) == acquired' = {e \in acquired : e[1] # s[1]}

V4LSrcRelease(c) ==
  /\ apc = "idle" /\ src_info[c] # None
  /\ V4LUnrecord(src_info[c])
  /\ FreeContext(c)
  /\ UNCHANGED <<libVars, regVars, lost, entries, listVars, present, apiVars, monitorVars>>

-----------------------------------------------------------------------------
V4LMonitorSources == MonitorSources

V4LNotifyThreadStop == NotifyThreadStop

\* The thread sleeps for a second at a time.  It ends when it sees the flag
\* cleared, and when a signal ends its sleep: errno is compared with -EINTR.
\* With the library gone it reads freed memory.
V4LNotifyThread ==
  /\ tpc = "begin"
  /\ tpc' = "exited"
  /\ UNCHANGED <<libVars, regVars, takenVars, listVars, present, apiVars, notifying, watched,
                 last_count, cb, data>>

\* The plain sapi_release: a monitor thread runs on.
V4LSapiRelease ==
  /\ apc = "release"
  /\ Released
  /\ UNCHANGED <<backend, library, regVars, takenVars, listVars, present, client, destroying,
                 monitorVars>>

\* Nor is it stopped here, where its context and mutex are freed.
V4LDestroy ==
  /\ apc = "destroy"
  /\ Destroyed
  /\ UNCHANGED <<backend, present, client, threadVars>>

\* What the thread does without a signal.
V4LThread == ~notifying /\ V4LNotifyThread

V4LApiStep == V4LMonitorSources \/ V4LNotifyThreadStop \/ V4LSapiRelease \/ V4LDestroy

V4LNext ==
  \/ V4LApiStep \/ V4LNotifyThread \/ V4LScan
  \/ \E c \in Contexts :
       V4LSrcRelease(c) \/ \E s \in Sources \cup {None} : V4LSrcAcquire(c, s)
=============================================================================
