----------------------------- MODULE FrameWindow ----------------------------
(***************************************************************************)
(* The frame rate of a capture: enforce_framerate of src/sapi.c and the    *)
(* ring of src/sliding_window.c that it keeps the times of recent frames   *)
(* in.  The capture thread alone calls it, once for each frame the camera  *)
(* delivers, and it lets the frame through to the application or not.      *)
(*                                                                         *)
(* A struct timeval is its number of microseconds, here ticks.  That is    *)
(* what tv_add_usecs and tv_greater_or_equal compute with as long as the   *)
(* microseconds added are not negative; they are when the product in the   *)
(* call at sapi.c:95-99 overflows, and a tv_usec left negative then delays *)
(* the next frame by less than a second.                                   *)
(*                                                                         *)
(* The clock is the wall clock; it is not set back during the capture.     *)
(***************************************************************************)
EXTENDS Integers, Sequences

CONSTANTS
  fps_numerator, fps_denominator,  \* the nominal frame rate
  Second,         \* ticks in a second (1000000)
  WindowSeconds,  \* sliding_window_seconds (4)
  IntRange,       \* number of values of an int (2^32)
  Gaps,           \* times between two frames of the camera
  MaxTime         \* bound: the time of the last frame

ASSUME FrameWindowAssumption ==
  /\ fps_numerator \in Nat \ {0} /\ fps_denominator \in Nat \ {0}
  /\ Second \in Nat \ {0} /\ WindowSeconds \in Nat \ {0}
  /\ IntRange \in Nat \ {0} /\ Gaps \subseteq Nat /\ MaxTime \in Nat

VARIABLES
  objects,          \* the slots of the ring; the code allocates one more, unused
  head, tail, count,
  frame_time_next,  \* no frame passes before this time, the first excepted
  now,              \* time of the newest frame
  sent              \* history: times of the newest frames that passed, oldest first

winVars == <<objects, head, tail, count>>
vars == <<winVars, frame_time_next, now, sent>>

-----------------------------------------------------------------------------
\* C's division truncates towards zero; its int wraps around on overflow.
Quotient(a, b) == IF a >= 0 THEN a \div b ELSE -((-a) \div b)
Int32(a) == LET r == a % IntRange IN IF 2 * r < IntRange THEN r ELSE r - IntRange

\* vidcap.c:638-640.  Less than one frame in WindowSeconds makes a window that
\* sliding_window_slide cannot reduce an index to.
window_len == (WindowSeconds * fps_numerator) \div fps_denominator

\* The time the last n frames should take.
Span(n) == Quotient(Int32(n * Second * fps_denominator), fps_numerator)

\* The least time between two frames.
Spacing == Quotient(Int32(((9 * Second) \div 10) * fps_denominator), fps_numerator)

Slot == 0..(window_len - 1)

\* sliding_window_create.
Init ==
  /\ objects = [i \in Slot |-> 0]
  /\ head = -1 /\ tail = 0 /\ count = 0
  /\ frame_time_next = 0
  /\ now = 0 /\ sent = << >>

-----------------------------------------------------------------------------
\* Altered form, for TypeOK: reduced by the number of slots allocated.
Slide_oneMore(t) ==
  /\ head' = (head + 1) % (window_len + 1)
  /\ objects' = [objects EXCEPT ![head'] = t]
  /\ IF count < window_len
       THEN count' = count + 1 /\ UNCHANGED tail
       ELSE tail' = (tail + 1) % window_len /\ UNCHANGED count

\* Altered form, for KeepsRecentFrames: the oldest time is not dropped.
Slide_stuck(t) ==
  /\ head' = (head + 1) % window_len
  /\ objects' = [objects EXCEPT ![head'] = t]
  /\ count' = IF count < window_len THEN count + 1 ELSE count
  /\ UNCHANGED tail

\* sliding_window_slide.
Slide(t) ==
  /\ head' = (head + 1) % window_len
  /\ objects' = [objects EXCEPT ![head'] = t]
  /\ IF count < window_len
       THEN count' = count + 1 /\ UNCHANGED tail
       ELSE tail' = (tail + 1) % window_len /\ UNCHANGED count

\* sliding_window_peek_front, or the frame's own time.
Oldest(t) == IF count = 0 THEN t ELSE objects[tail]

Later(a, b) == IF a >= b THEN a ELSE b

\* Altered form, for SpacingKept: no minimal spacing.
NextTime_unspaced(t) == Oldest(t) + Span(count)

\* Altered form, for RateBounded: only the minimal spacing.
NextTime_spaced(t) == t + Spacing

\* Lines 89-112.
NextTime(t) == Later(t + Spacing, Oldest(t) + Span(count))

\* The history keeps the times RateBounded looks at.
Newest(s) == IF Len(s) <= window_len + 2 THEN s ELSE Tail(s)

PassFrame(t) ==
  /\ count = 0 \/ t >= frame_time_next
  /\ frame_time_next' = NextTime(t)
  /\ Slide(t)
  /\ sent' = Newest(Append(sent, t))

HoldFrame(t) ==
  /\ count # 0 /\ t < frame_time_next
  /\ UNCHANGED <<winVars, frame_time_next, sent>>

Next ==
  \E gap \in Gaps :
    LET t == now + gap IN
    /\ t <= MaxTime
    /\ now' = t
    /\ PassFrame(t) \/ HoldFrame(t)

Spec == Init /\ [][Next]_vars

-----------------------------------------------------------------------------
\* Types, and the indices of a ring: head is the newest slot once it is used.
TypeOK ==
  /\ objects \in [Slot -> Nat]
  /\ head \in Slot \cup {-1} /\ tail \in Slot /\ count \in 0..window_len
  /\ frame_time_next \in Int /\ now \in Nat /\ sent \in Seq(Nat)

\* No two frames that pass are closer than nine tenths of a period, also after
\* a stall ("if there's been a stall, pace ourselves", sapi.c:109).
SpacingKept == \A i \in 2..Len(sent) : sent[i] >= sent[i - 1] + Spacing

\* The rate, averaged over the window, is kept: the frames between two that
\* pass, window_len + 1 apart, take the time of window_len frames at least
\* ("calculate next frame time based on sliding window", sapi.c:94).
RateBounded ==
  Len(sent) = window_len + 2 =>
    (sent[Len(sent)] - sent[1]) * fps_numerator
       > window_len * Second * fps_denominator - fps_numerator

\* The ring holds the times of the last window_len frames that passed.
Recent == INSTANCE RecentFrames WITH
  Length <- window_len,
  Times <- 0..MaxTime,
  recent <- [i \in 1..count |-> objects[(tail + i - 1) % window_len]]

KeepsRecentFrames == Recent!Spec
=============================================================================
