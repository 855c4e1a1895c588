--------------------------- MODULE CaptureContract --------------------------
(***************************************************************************)
(* What a capturing source promises its application, whatever backend runs *)
(* it: a registered client is called back with its own pair of callback    *)
(* and user data, one call at a time, and once the registration is gone    *)
(* (vidcap_src_capture_stop has returned) no call is in progress and none  *)
(* will begin.                                                             *)
(***************************************************************************)
CONSTANTS
  Clients,  \* what the application passes to vidcap_src_capture_start
  None      \* no client

VARIABLES
  registered,  \* the client whose registration is complete, or None
  call         \* the call in progress: <<callback, user data>>, or None

contractVars == <<registered, call>>

Init == registered = None /\ call = None

Register(c) == registered = None /\ call = None /\ registered' = c /\ UNCHANGED call

Unregister == registered # None /\ call = None /\ registered' = None /\ UNCHANGED call

Enter ==
  /\ registered # None /\ call = None
  /\ call' = <<registered, registered>>
  /\ UNCHANGED registered

Leave == call # None /\ call' = None /\ UNCHANGED registered

Next == (\E c \in Clients : Register(c)) \/ Unregister \/ Enter \/ Leave

Spec == Init /\ [][Next]_contractVars
=============================================================================
