---------------------------- MODULE SourceMonitor ---------------------------
(***************************************************************************)
(* The thread that watches for devices and notifies the application:       *)
(* monitor_sources and notify_thread_stop, the same in src/sapi_v4l.c and  *)
(* src/sapi_qt.c, the loops of their threads, and DevMonitor of the        *)
(* DirectShow backend with its window's messages.  Only V4L's loop never   *)
(* looks for a device.                                                     *)
(*                                                                         *)
(* Callback and user data are read without a lock while vidcap_srcs_notify *)
(* writes them.  The callback is tested and then called: a compiler may    *)
(* read it once or twice, so the call may go through a null pointer.       *)
(***************************************************************************)
EXTENDS SapiContext

-----------------------------------------------------------------------------
(* In the application's thread.                                             *)

\* Altered form, for CallsReturn: the thread is not told to stop.
MonitorSources_untold ==
  /\ apc = "monitor"
  /\ IF notify_callback = None /\ notifying
       THEN apc' = "join" /\ UNCHANGED <<notifying, tpc>>
       ELSE notifying' = TRUE /\ tpc' = "begin" /\ apc' = "idle"
  /\ UNCHANGED <<libVars, regVars, takenVars, listVars, present, client, destroying,
                 watched, last_count, cb, data>>

\* No callback and a thread: stop it.  Anything else starts a thread, which may
\* fail with notifying already set.
MonitorSources ==
  /\ apc = "monitor"
  /\ IF notify_callback = None /\ notifying
       THEN notifying' = FALSE /\ apc' = "join" /\ UNCHANGED tpc
       ELSE /\ notifying' = TRUE
            /\ \/ tpc' = "begin" /\ apc' = "idle"
               \/ apc' = "unset_data" /\ UNCHANGED tpc
  /\ UNCHANGED <<libVars, regVars, takenVars, listVars, present, client, destroying,
                 watched, last_count, cb, data>>

\* vc_thread_join: at once with an error when no thread was ever created.
NotifyThreadStop ==
  /\ apc = "join" /\ ~Alive
  /\ tpc' = "none" /\ apc' = "idle"
  /\ UNCHANGED <<libVars, regVars, takenVars, listVars, present, client, destroying,
                 notifying, watched, last_count, cb, data>>

-----------------------------------------------------------------------------
(* In the monitor thread: the call, in all backends that make it.           *)

\* The callback was found not null.
Tested ==
  /\ notify_callback # None
  /\ cb' = notify_callback /\ tpc' = "load"

\* It is called with the value tested or with the value it has now.
LoadCallback ==
  /\ tpc = "load"
  /\ cb' \in {cb, notify_callback}
  /\ tpc' = IF cb' = None THEN "null_call" ELSE "load_data"
  /\ UNCHANGED <<libVars, regVars, takenVars, listVars, present, apiVars, notifying, watched,
                 last_count, data>>

LoadData ==
  /\ tpc = "load_data"
  /\ data' = notify_data
  /\ tpc' = "calling"
  /\ UNCHANGED <<libVars, regVars, takenVars, listVars, present, apiVars, notifying, watched,
                 last_count, cb>>

\* The application's callback returns and the thread sleeps; QuickTime's
\* sleep may fail, which ends the thread.
CallReturns ==
  /\ tpc = "calling"
  /\ cb' = None /\ data' = None
  /\ tpc' \in IF backend = "qt" THEN {"wait", "exited"} ELSE {"wait"}
  /\ UNCHANGED <<libVars, regVars, takenVars, listVars, present, apiVars, notifying, watched,
                 last_count>>

CallStep == LoadCallback \/ LoadData \/ CallReturns
=============================================================================
