---------------------------- MODULE DeviceLeases ----------------------------
(***************************************************************************)
(* What acquiring and releasing sources promises, whatever backend does    *)
(* it: a unit, the thing that can be used only once (a V4L device, a       *)
(* QuickTime input, a DirectShow device), is held by one source context at *)
(* a time, and a context holds one unit.                                   *)
(***************************************************************************)
CONSTANTS
  Units,    \* what is leased
  Holders   \* who leases it

VARIABLE leases  \* set of pairs <<unit, holder>>

Init == leases = {}

Take(u, h) ==
  /\ \A l \in leases : l[1] # u /\ l[2] # h
  /\ leases' = leases \cup {<<u, h>>}

Return(u, h) ==
  /\ <<u, h>> \in leases
  /\ leases' = leases \ {<<u, h>>}

Next == \E u \in Units, h \in Holders : Take(u, h) \/ Return(u, h)

Spec == Init /\ [][Next]_leases
=============================================================================
