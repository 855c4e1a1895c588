---------------------------- MODULE RecentFrames ----------------------------
(***************************************************************************)
(* What enforce_framerate needs of its sliding window: the times of the    *)
(* last Length frames let through, oldest first.                           *)
(***************************************************************************)
EXTENDS Integers, Sequences

CONSTANTS
  Length,  \* length of the window, in frames
  Times    \* what the clock may say

VARIABLES recent

Init == recent = << >>

\* A frame passes; the oldest time makes room once the window is full.
Pass(t) ==
  recent' = IF Len(recent) < Length THEN Append(recent, t) ELSE Append(Tail(recent), t)

Next == \E t \in Times : Pass(t)

Spec == Init /\ [][Next]_recent
=============================================================================
