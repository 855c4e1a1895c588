------------------------------- MODULE Sources ------------------------------
(***************************************************************************)
(* The library with the backend it was built with: source lists,           *)
(* acquisition and release, and the notification of the application when   *)
(* devices come and go.                                                    *)
(***************************************************************************)
EXTENDS V4LSources, QtSources, DShowSources

Init == SapiInit

\* The process does not survive a call through a null pointer.
Faulted == tpc = "null_call"

Next ==
  /\ ~Faulted
  /\ \/ ApiCall \/ ApiStep
     \/ \E d \in Devices : Plug(d)
     \/ backend = "v4l" /\ V4LNext
     \/ backend = "qt" /\ QtNext
     \/ backend = "dshow" /\ DShowNext

V4LRuns == backend = "v4l" /\ (V4LApiStep \/ V4LThread)
QtRuns == backend = "qt" /\ QtThread
QtAnswers == backend = "qt" /\ QtApiStep
DShowRuns == backend = "dshow" /\ DShowThread
DShowAnswers == backend = "dshow" /\ DShowApiStep
DShowEnds == backend = "dshow" /\ MonitorDevicesEnds

\* Threads run on, the application's callback returns, and a call under way is
\* carried on.  DirectShow's registration mutex and its thread's message queue
\* are shared with device changes, which may go on for ever: neither keeps the
\* application's call or the message that ends the thread waiting for ever.
Fairness ==
  /\ WF_sapiVars(~Faulted /\ ApiStep) /\ WF_sapiVars(~Faulted /\ V4LRuns)
  /\ WF_sapiVars(~Faulted /\ QtRuns) /\ WF_sapiVars(~Faulted /\ QtAnswers)
  /\ WF_sapiVars(~Faulted /\ DShowRuns)
  /\ SF_sapiVars(~Faulted /\ DShowAnswers) /\ SF_sapiVars(~Faulted /\ DShowEnds)

Spec == Init /\ [][Next]_sapiVars /\ Fairness

-----------------------------------------------------------------------------
\* The type invariant; callback and data are those of a client, and the thread
\* holds a callback exactly from the test to the end of the call.
TypeOK ==
  /\ backend \in Backends /\ library \in {"down", "up"} /\ ref_count \in 0..1
  /\ notify_callback \in Clients \cup {None} /\ notify_data \in Clients \cup {None}
  /\ user_src_list \subseteq Sources /\ src_info \in [Contexts -> Sources \cup {None}]
  /\ lost \subseteq Sources /\ acquired \subseteq Sources /\ mgr_list \subseteq Sources
  /\ entries \subseteq Contexts /\ shared \subseteq Held /\ present \subseteq Devices
  /\ apc \in ApiPC /\ client \in Clients \cup {None} /\ destroying \in BOOLEAN
  /\ tpc \in ThreadPC /\ notifying \in BOOLEAN /\ watched \in BOOLEAN /\ last_count \in BOOLEAN
  /\ cb \in Clients \cup {None} /\ data \in Clients \cup {None}
  /\ (tpc \in {"load", "load_data", "calling"}) = (cb # None)

\* What is used only once: a V4L or DirectShow device, a QuickTime input.
Unit(s) == IF backend = "qt" THEN s ELSE <<s[1], 0>>

Leases == INSTANCE DeviceLeases WITH
  Units <- Sources, Holders <- Contexts,
  leases <- {<<Unit(src_info[c]), c>> :
               c \in {h \in Contexts : src_info[h] # None /\ src_info[h] \notin shared}}

\* Acquire and release implement DeviceLeases: two contexts never hold the same
\* device (V4L, DirectShow) or input (QuickTime), in whatever order sources are
\* listed, acquired by name or by default, fail half way and are released.  The
\* exception is a QuickTime input a context holds and another one asks for by
\* name, until nobody holds it: the code warns and shares it (sg_manager.c:177).
LeaseSpec == Leases!Spec

\* Once vidcap_srcs_notify has taken the registration away, no call of the
\* callback is in progress and none begins.
UnregisteredIsQuiet ==
  library = "up" /\ apc = "idle" /\ notify_callback = None
    => tpc \notin {"load", "load_data", "calling"}

\* Callback and user data are stored and loaded one after the other without a
\* lock, also where one client replaces another: the callback of one may be called
\* with the data of the other, but only while that vidcap_srcs_notify has not
\* returned.  From then on every call is the registered client's, with its data.
CallsAreOwn ==
  library = "up" /\ apc \notin {"set_data", "monitor", "join"} /\ tpc = "calling"
    => cb = notify_callback /\ data = notify_callback

\* vidcap_destroy frees what a monitor thread uses under such a thread in two cases
\* only: V4L's, told to watch and not told to stop, which sapi_v4l_destroy leaves
\* alone (sapi_v4l.c:1040), and DirectShow's when the message that should end it
\* cannot be posted (DevMonitor.cpp:128).
JoinedAtDestroy ==
  [][library = "up" /\ library' = "down" /\ Alive'
       => \/ backend = "v4l" /\ notifying
          \/ backend = "dshow" /\ PostMessageFails]_sapiVars

\* Every call of the application returns, whatever the monitor thread is doing,
\* unless the process faults.
CallsReturn == apc # "idle" ~> apc = "idle" \/ Faulted

\* DirectShow's registry holds sources that "already exist and were acquired"
\* (DShowSrcManager.cpp:209): no entry is left of an acquisition that failed.
EntriesAreAcquired == \A e \in entries : src_info[e] # None
=============================================================================
