------------------------------ MODULE QtSources -----------------------------
(***************************************************************************)
(* The source lists of the QuickTime backend: src/sapi_qt.c with the       *)
(* sequence grabber's manager and sources (src/quicktime/sg_manager.c,     *)
(* sg_source.c).  QuickTime is external: composing the device list and     *)
(* acquiring a source may fail.  The list is composed once, when the first *)
(* device is there, and stays; each source in it has an acquired flag.     *)
(***************************************************************************)
EXTENDS SourceMonitor

\* SGGetChannelDeviceList with the inputs of each device; nothing is allocated
\* while there is no device.
SgManagerUpdate ==
  mgr_list' = IF mgr_list # {} THEN mgr_list ELSE {s \in Sources : s[1] \in present}

\* An error before the list is composed, or after, when the anonymous source is
\* released again.
SgManagerUpdateFails ==
  mgr_list = {} /\ mgr_list' \in {{}, {s \in Sources : s[1] \in present}}

\* scan_sources, and vidcap_src_list_update.
QtScanSources ==
  \/ SgManagerUpdateFails /\ UNCHANGED user_src_list
  \/ SgManagerUpdate /\ user_src_list' = mgr_list'

QtScan ==
  /\ apc = "idle" /\ ref_count = 1
  /\ QtScanSources
  /\ UNCHANGED <<libVars, regVars, takenVars, present, apiVars, monitorVars>>

\* Altered form, for LeaseSpec: the default is the first source of the list.
SgManagerFind_any(req) ==
  IF req = None THEN FirstOf(mgr_list') ELSE mgr_list' \cap {req}

\* The default is the first source without the flag; a source asked for is
\* found with or without.
SgManagerFind(req) ==
  IF req = None THEN FirstOf(mgr_list' \ acquired) ELSE mgr_list' \cap {req}

\* sg_source_acquire sets the flag once a grabber is open and releases the
\* source again, flag included, when a later call fails; also where the flag was
\* another context's.
SgSourceAcquire(c, s) ==
  \/ acquired' \in {acquired, acquired \ {s}} /\ UNCHANGED <<src_info, lost>>
  \/ s[1] \in present /\ acquired' = acquired \cup {s} /\ KeepOrLose(c, s)

\* vidcap_src_acquire.  Two contexts share the sg_source that is asked for by name
\* while it is held.
QtSrcAcquire(c, req) ==
  /\ apc = "idle" /\ ref_count = 1 /\ src_info[c] = None
  /\ QtScanSources
  /\ \/ UNCHANGED takenVars
     \/ /\ user_src_list' = mgr_list'
        /\ \E s \in SgManagerFind(req) : SgSourceAcquire(c, s)
        /\ shared' = shared \cup (Held \cap {req})
        /\ UNCHANGED entries
  /\ UNCHANGED <<libVars, regVars, present, apiVars, monitorVars>>

QtSrcRelease(c) ==
  /\ apc = "idle" /\ src_info[c] # None
  /\ acquired' = acquired \ {src_info[c]}
  /\ FreeContext(c)
  /\ UNCHANGED <<libVars, regVars, lost, entries, listVars, present, apiVars, monitorVars>>

-----------------------------------------------------------------------------
QtMonitorSources == MonitorSources

QtNotifyThreadStop == NotifyThreadStop

\* The first count is read when the thread runs, without the mutex.
QtNotifyThreadBegins ==
  /\ tpc = "begin"
  /\ last_count' = (mgr_list # {})
  /\ tpc' = "wait"
  /\ UNCHANGED <<libVars, regVars, takenVars, listVars, present, apiVars, notifying, watched,
                 cb, data>>

\* A round of the loop: the flag, then the list under the mutex; an error ends
\* the thread.  The count differs from the thread's last one only when the
\* list was empty and now is not.
QtNotifyThread ==
  /\ tpc = "wait"
  /\ \/ ~notifying /\ tpc' = "exited" /\ UNCHANGED mgr_list
     \/ notifying /\ SgManagerUpdateFails /\ tpc' = "exited"
     \/ /\ notifying /\ SgManagerUpdate
        /\ tpc' = IF mgr_list' # {} /\ ~last_count THEN "test" ELSE "wait"
  /\ UNCHANGED <<libVars, regVars, takenVars, user_src_list, present, apiVars,
                 notifying, watched, last_count, cb, data>>

\* Without a callback the new count is not taken for the last one.
QtTestCallback ==
  /\ tpc = "test"
  /\ \/ Tested /\ last_count' = TRUE
     \/ notify_callback = None /\ tpc' \in {"wait", "exited"} /\ UNCHANGED <<cb, last_count>>
  /\ UNCHANGED <<libVars, regVars, takenVars, listVars, present, apiVars, notifying, watched,
                 data>>

\* Altered form, for JoinedAtDestroy: the plain sapi_release.
SapiQtRelease_plain ==
  /\ apc = "release"
  /\ Released
  /\ UNCHANGED <<backend, library, regVars, takenVars, listVars, present, client, destroying,
                 monitorVars>>

SapiQtRelease ==
  /\ apc = "release"
  /\ IF notifying
       THEN notifying' = FALSE /\ apc' = "release_join" /\ UNCHANGED ref_count
       ELSE Released /\ UNCHANGED notifying
  /\ UNCHANGED <<backend, library, regVars, takenVars, listVars, present, client, destroying,
                 watched, threadVars>>

SapiQtReleaseJoin ==
  /\ apc = "release_join" /\ ~Alive
  /\ tpc' = "none"
  /\ Released
  /\ UNCHANGED <<backend, library, regVars, takenVars, listVars, present, client, destroying,
                 notifying, watched, last_count, cb, data>>

SapiQtDestroy ==
  /\ apc = "destroy"
  /\ Destroyed
  /\ UNCHANGED <<backend, present, client, threadVars>>

QtThread == QtNotifyThreadBegins \/ QtNotifyThread \/ QtTestCallback \/ CallStep

QtApiStep ==
  QtMonitorSources \/ QtNotifyThreadStop \/ SapiQtRelease \/ SapiQtReleaseJoin \/ SapiQtDestroy

QtNext ==
  \/ QtApiStep \/ QtThread \/ QtScan
  \/ \E c \in Contexts :
       QtSrcRelease(c) \/ \E s \in Sources \cup {None} : QtSrcAcquire(c, s)
=============================================================================
