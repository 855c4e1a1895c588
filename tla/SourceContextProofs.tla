------------------------- MODULE SourceContextProofs ------------------------
(***************************************************************************)
(* What the steps of any backend mean for the contract, in terms of the    *)
(* source context alone.  A registration may be taken away half by half by *)
(* an error while the next start puts its own halves in place.  And what   *)
(* the contract, once implemented, means for the application's callback.   *)
(***************************************************************************)
EXTENDS SourceContext, TLAPS

\* Whatever one thread does to one half of the registration, or to both by
\* taking it away, the contract allows while no call is in progress.
LEMMA HalvesKeepContract ==
  ASSUME SrcTypeOK, SrcTypeOK', Call = None, Call' = None,
         \/ capture_callback' = capture_callback
         \/ capture_data' = capture_data
         \/ capture_callback' = None /\ capture_data' = None
  PROVE  [Contract!Next]_Contract!contractVars
<1>1. /\ capture_callback \in Clients \cup {None} /\ capture_data \in Clients \cup {None}
      /\ (capture_callback \in Clients \cup {None} /\ capture_data \in Clients \cup {None})'
  BY DEF SrcTypeOK
<1>2. CASE Registration = None
  <2>1. Registration' = None \/ Registration' \in Clients
    BY <1>1 DEF Registration
  <2>2. CASE Registration' = None
    BY <1>2, <2>2 DEF Contract!contractVars
  <2>3. ASSUME Registration' \in Clients PROVE Contract!Next
    <3>1. Contract!Register(Registration')
      BY <1>2, <2>3 DEF Contract!Register
    <3> QED BY <2>3, <3>1 DEF Contract!Next
  <2> QED BY <2>1, <2>2, <2>3
<1>3. CASE Registration # None
  <2>1. Registration' = Registration \/ Registration' = None
    BY <1>1, <1>3 DEF Registration
  <2>2. CASE Registration' = Registration
    BY <2>2 DEF Contract!contractVars
  <2>3. CASE Registration' = None
    BY <1>3, <2>3 DEF Contract!Next, Contract!Unregister
  <2> QED BY <2>1, <2>2, <2>3
<1> QED BY <1>2, <1>3

\* A step that leaves the registration alone and neither begins nor ends a call.
LEMMA ContractStutters ==
  ASSUME UNCHANGED <<capture_callback, capture_data, cap_callback, cap_data>>,
         (npc' = "callback") = (npc = "callback")
  PROVE  UNCHANGED Contract!contractVars
<1>1. UNCHANGED Registration
  BY DEF Registration
<1>2. UNCHANGED Call
  BY DEF Call
<1> QED BY <1>1, <1>2 DEF Contract!contractVars

-----------------------------------------------------------------------------
(* What the contract says, for whichever backend implements it.             *)

\* A call in progress is made to the client that is registered, with its own
\* callback and its own user data (deliver_frame reads the two one after the
\* other, sapi.c:228-229, and nothing locks them).
CallIsOwn == Call # None => Registration # None /\ Call = <<Registration, Registration>>

\* The registration stays while a call is in progress, and where one begins or
\* ends: vidcap_src_capture_stop never returns, nor does the next start
\* register its client, with the last one's callback running.
RegistrationHeld ==
  [][Call # None \/ Call' # None => UNCHANGED Registration]_Contract!contractVars

\* A call is in progress only between the start of a capture in the backend and
\* the end of its stop_capture: the client of vidcap_src_capture_start is not
\* called before everything its capture needs is in place (vidcap.c:598-648),
\* nor while the capture is taken apart (vidcap.c:694-722).
CallInCapture ==
  npc = "callback" =>
    apc = "started" \/ (src_state = "src_capturing" /\ apc \in {"idle", "stop_capture"})

\* What is proved of the contract holds of every backend that implements it.
THEOREM ContractMeans == Contract!Spec => []CallIsOwn /\ RegistrationHeld
<1>1. Contract!Init => CallIsOwn
  BY DEF Contract!Init, CallIsOwn
<1>2. CallIsOwn /\ [Contract!Next]_Contract!contractVars => CallIsOwn'
  BY DEF CallIsOwn, Contract!Next, Contract!Register, Contract!Unregister, Contract!Enter,
         Contract!Leave, Contract!contractVars
<1>3. [Contract!Next]_Contract!contractVars =>
        [Call # None \/ Call' # None => UNCHANGED Registration]_Contract!contractVars
  BY DEF Contract!Next, Contract!Register, Contract!Unregister, Contract!Enter, Contract!Leave,
         Contract!contractVars
<1> QED BY <1>1, <1>2, <1>3, PTL DEF Contract!Spec, RegistrationHeld
=============================================================================
