-------------------------- MODULE FrameWindowProofs --------------------------
(***************************************************************************)
(* Proofs about FrameWindow for every frame rate, window and camera, as    *)
(* long as the window is not empty: of a rate below one frame in           *)
(* WindowSeconds the code takes a remainder by zero.                       *)
(*                                                                         *)
(* RingInv places head and tail; with it a slide is a step of              *)
(* RecentFrames.  HistoryInv relates the ring to the history: what the     *)
(* ring holds are the newest frames that passed, so that the time before   *)
(* which no frame passes keeps both distances, that to the last frame and  *)
(* that to the frame a window ago.                                         *)
(*                                                                         *)
(* That is the upper half, how often frames pass.  The lower half, that    *)
(* they do pass, rests on Spread: frames that have passed are so far apart *)
(* that the oldest in the window cannot put the next one off by much       *)
(* (PauseInv) nor, from a camera no faster than the rate, at all           *)
(* (SteadyInv).                                                            *)
(***************************************************************************)
EXTENDS FrameWindow, SequenceTheorems, TLAPS

NotEmpty == window_len \in Nat \ {0}

\* The i-th oldest time in the ring.
At(i) == objects[(tail + i - 1) % window_len]

RingInv ==
  /\ objects \in [Slot -> Nat] /\ count \in 0..window_len /\ tail \in Slot /\ head \in Int
  /\ count < window_len => tail = 0 /\ head = count - 1
  /\ count = window_len => head = IF tail = 0 THEN window_len - 1 ELSE tail - 1

\* How far the history goes back, and that the ring is its newest part.
HistoryInv ==
  /\ sent \in Seq(Nat) /\ Len(sent) <= window_len + 2
  /\ count = IF Len(sent) < window_len THEN Len(sent) ELSE window_len
  /\ \A i \in 1..count : At(i) = sent[Len(sent) - count + i]

TimeInv ==
  /\ now \in Nat /\ frame_time_next \in Int
  /\ Len(sent) > 0 => frame_time_next >= sent[Len(sent)] + Spacing
  /\ Len(sent) > window_len =>
       frame_time_next >= sent[Len(sent) - window_len] + Span(window_len)

\* What the frames that have passed owe to frame_time_next.
PassedInv ==
  /\ SpacingKept
  /\ Len(sent) = window_len + 2 => sent[window_len + 2] >= sent[1] + Span(window_len)

WindowInv == RingInv /\ HistoryInv /\ TimeInv /\ PassedInv

-----------------------------------------------------------------------------
(* Arithmetic.                                                              *)

LEMMA Wraps ==
  ASSUME NotEmpty, NEW a \in 0..(2 * window_len - 1)
  PROVE  a % window_len = IF a < window_len THEN a ELSE a - window_len
BY SMT DEF NotEmpty

LEMMA QuotientInt ==
  ASSUME NEW a \in Int, NEW b \in Nat \ {0}
  PROVE  Quotient(a, b) \in Int
<1>1. CASE a >= 0
  BY <1>1 DEF Quotient
<1>2. CASE ~(a >= 0)
  <2>1. -a \in Int /\ (-a) \div b \in Int
    OBVIOUS
  <2> QED BY <1>2, <2>1 DEF Quotient
<1> QED BY <1>1, <1>2

LEMMA Int32Int ==
  ASSUME NEW a \in Int
  PROVE  Int32(a) \in Int
<1>1. a % IntRange \in Int
  BY FrameWindowAssumption
<1> QED BY <1>1, FrameWindowAssumption DEF Int32

LEMMA SpansInt == Spacing \in Int /\ \A n \in Nat : Span(n) \in Int
<1>1. (9 * Second) \div 10 \in Int
  BY FrameWindowAssumption
<1>2. ((9 * Second) \div 10) * fps_denominator \in Int
  BY <1>1, FrameWindowAssumption
<1>3. Spacing \in Int
  BY <1>2, Int32Int, QuotientInt, FrameWindowAssumption DEF Spacing
<1>4. ASSUME NEW n \in Nat PROVE Span(n) \in Int
  <2>1. n * Second * fps_denominator \in Int
    BY FrameWindowAssumption
  <2> QED BY <2>1, Int32Int, QuotientInt, FrameWindowAssumption DEF Span
<1> QED BY <1>3, <1>4

-----------------------------------------------------------------------------
(* The ring.                                                                *)

LEMMA SlideTurns ==
  ASSUME NotEmpty, RingInv, NEW t \in Nat, Slide(t)
  PROVE  /\ RingInv'
         /\ objects' = [objects EXCEPT ![head'] = t]
         /\ count < window_len => /\ head' = count /\ tail' = 0 /\ count' = count + 1
         /\ count = window_len => /\ head' = tail /\ count' = window_len
                                  /\ tail' = IF tail = window_len - 1 THEN 0 ELSE tail + 1
<1>0. /\ window_len \in Nat \ {0} /\ count \in 0..window_len /\ tail \in 0..(window_len - 1)
      /\ objects \in [0..(window_len - 1) -> Nat] /\ head \in Int
  BY DEF RingInv, Slot, NotEmpty
<1>1. ASSUME NEW a \in 0..window_len
      PROVE  a % window_len = IF a = window_len THEN 0 ELSE a
  <2>1. a \in 0..(2 * window_len - 1)
    BY <1>0
  <2>2. a % window_len = IF a < window_len THEN a ELSE a - window_len
    BY <2>1, Wraps
  <2> QED BY <1>0, <2>2
<1>2. /\ objects' = [objects EXCEPT ![head'] = t] /\ head' = (head + 1) % window_len
      /\ count < window_len => count' = count + 1 /\ tail' = tail
      /\ count = window_len => count' = count /\ tail' = (tail + 1) % window_len
  BY <1>0 DEF Slide
<1>3. CASE count < window_len
  <2>1. tail = 0 /\ head + 1 = count /\ count \in 0..window_len /\ count # window_len
    BY <1>0, <1>3 DEF RingInv
  <2>2. (head + 1) % window_len = count
    BY <1>1, <2>1
  <2>3. head' = count /\ tail' = 0 /\ count' = count + 1
    BY <1>2, <1>3, <2>1, <2>2
  <2>4. RingInv'
    BY <1>0, <1>2, <1>3, <2>3 DEF RingInv, Slot
  <2> QED BY <1>0, <1>2, <1>3, <2>3, <2>4
<1>4. CASE count = window_len
  <2>1. head + 1 = IF tail = 0 THEN window_len ELSE tail
    BY <1>0, <1>4 DEF RingInv
  <2>2. (head + 1) % window_len = tail
    <3>1. CASE tail = 0
      BY <1>0, <1>1, <2>1, <3>1
    <3>2. CASE tail # 0
      <4>1. tail \in 0..window_len /\ tail # window_len
        BY <1>0
      <4>2. tail % window_len = tail
        BY <1>1, <4>1
      <4> QED BY <2>1, <3>2, <4>2
    <3> QED BY <3>1, <3>2
  <2>3. (tail + 1) % window_len = IF tail = window_len - 1 THEN 0 ELSE tail + 1
    <3>1. tail + 1 \in 0..window_len
      BY <1>0
    <3>2. (tail + 1) % window_len = IF tail + 1 = window_len THEN 0 ELSE tail + 1
      BY <1>1, <3>1
    <3> QED BY <1>0, <3>2
  <2>4. /\ head' = tail /\ count' = window_len
        /\ tail' = IF tail = window_len - 1 THEN 0 ELSE tail + 1
    BY <1>2, <1>4, <2>2, <2>3
  <2>5. RingInv'
    BY <1>0, <1>2, <1>4, <2>4 DEF RingInv, Slot
  <2> QED BY <1>0, <1>2, <1>4, <2>4, <2>5
<1> QED BY <1>0, <1>3, <1>4

\* A slide drops the oldest time of a full ring and adds the new one.
LEMMA SlideShifts ==
  ASSUME NotEmpty, RingInv, NEW t \in Nat, Slide(t)
  PROVE  /\ count < window_len => \A i \in 1..count : At(i)' = At(i)
         /\ count = window_len => \A i \in 1..(count - 1) : At(i)' = At(i + 1)
         /\ At(count)' = t
<1>0. /\ \A a \in 0..(2 * window_len - 1) :
           a % window_len = IF a < window_len THEN a ELSE a - window_len
      /\ window_len \in Nat \ {0} /\ count \in 0..window_len /\ tail \in 0..(window_len - 1)
      /\ objects \in [0..(window_len - 1) -> Nat]
  BY Wraps DEF RingInv, Slot, NotEmpty
<1>1. CASE count < window_len
  <2>0. /\ tail = 0 /\ tail' = 0 /\ count' = count + 1
        /\ objects' = [objects EXCEPT ![count] = t]
    BY <1>1, SlideTurns DEF RingInv
  <2>1. \A i \in 1..(count + 1) : (i - 1) % window_len = i - 1
    BY <1>0, <1>1
  <2>2. ASSUME NEW i \in 1..(count + 1) PROVE At(i)' = objects'[i - 1]
    <3>1. tail' + i - 1 = i - 1
      BY <2>0, <1>0
    <3> QED BY <3>1, <2>1 DEF At
  <2>3. ASSUME NEW i \in 1..count PROVE At(i) = objects[i - 1]
    <3>1. tail + i - 1 = i - 1 /\ i \in 1..(count + 1)
      BY <2>0, <1>0
    <3> QED BY <3>1, <2>1 DEF At
  <2>4. ASSUME NEW i \in 1..count PROVE At(i)' = At(i)
    <3>1. i \in 1..(count + 1) /\ i - 1 \in 0..(window_len - 1) /\ i - 1 # count
      BY <1>0, <1>1
    <3>2. objects'[i - 1] = objects[i - 1]
      BY <3>1, <2>0, <1>0
    <3> QED BY <3>1, <3>2, <2>2, <2>3
  <2>5. At(count)' = t
    <3>1. At(count)' = objects'[(tail' + count' - 1) % window_len]
      BY DEF At
    <3>2. tail' + count' - 1 = count /\ count % window_len = count
      BY <1>0, <1>1, <2>0
    <3> QED BY <3>1, <3>2, <2>0, <1>0, <1>1
  <2> QED BY <1>0, <1>1, <2>4, <2>5
<1>2. CASE count = window_len
  <2>0. /\ count' = window_len /\ tail' = IF tail = window_len - 1 THEN 0 ELSE tail + 1
        /\ objects' = [objects EXCEPT ![tail] = t]
    BY <1>2, SlideTurns DEF RingInv
  <2>1. ASSUME NEW i \in 1..(count - 1) PROVE At(i)' = At(i + 1)
    <3> DEFINE a == tail' + i - 1
               b == tail + (i + 1) - 1
    <3>0. a = tail' + i - 1 /\ b = tail + (i + 1) - 1
      OBVIOUS
    <3> HIDE DEF a, b
    <3>1. a \in 0..(2 * window_len - 1) /\ b \in 0..(2 * window_len - 1)
      BY <1>0, <1>2, <2>0, <3>0
    <3>2. /\ a % window_len = IF a < window_len THEN a ELSE a - window_len
          /\ b % window_len = IF b < window_len THEN b ELSE b - window_len
      BY <1>0, <3>1
    <3>3. a % window_len = b % window_len /\ b % window_len \in 0..(window_len - 1)
          /\ b % window_len # tail
      <4>1. CASE tail = window_len - 1
        <5>1. a = i - 1 /\ b = window_len + i - 1
          BY <1>0, <2>0, <3>0, <4>1
        <5>2. a % window_len = i - 1 /\ b % window_len = i - 1
          BY <1>0, <1>2, <3>2, <5>1
        <5> QED BY <1>0, <1>2, <4>1, <5>2
      <4>2. CASE tail # window_len - 1
        <5>1. a = tail + i /\ b = tail + i
          BY <1>0, <2>0, <3>0, <4>2
        <5>2. a % window_len = b % window_len
          BY <5>1
        <5>3. b % window_len = IF tail + i < window_len THEN tail + i ELSE tail + i - window_len
          BY <1>0, <3>2, <5>1
        <5>4. b % window_len \in 0..(window_len - 1) /\ b % window_len # tail
          BY <1>0, <1>2, <4>2, <5>3
        <5> QED BY <5>2, <5>4
      <4> QED BY <4>1, <4>2
    <3>4. objects'[b % window_len] = objects[b % window_len]
      BY <1>0, <2>0, <3>3
    <3> QED BY <3>3, <3>4 DEF At, a, b
  <2>2. At(count)' = t
    <3> DEFINE a == tail' + count' - 1
    <3>1. a \in 0..(2 * window_len - 1)
      BY <1>0, <1>2, <2>0
    <3>2. a % window_len = IF a < window_len THEN a ELSE a - window_len
      BY <1>0, <3>1
    <3>3. a % window_len = tail
      BY <1>0, <1>2, <2>0, <3>2
    <3>4. At(count)' = objects'[a % window_len]
      BY DEF At
    <3> QED BY <1>0, <2>0, <3>3, <3>4
  <2> QED BY <1>0, <1>2, <2>1, <2>2
<1> QED BY <1>0, <1>1, <1>2

-----------------------------------------------------------------------------
(* The history.                                                             *)

LEMMA NewestEnds ==
  ASSUME NotEmpty, NEW s \in Seq(Nat), Len(s) <= window_len + 3
  PROVE  /\ Newest(s) \in Seq(Nat)
         /\ Len(Newest(s)) = IF Len(s) <= window_len + 2 THEN Len(s) ELSE window_len + 2
         /\ \A j \in 1..Len(Newest(s)) : Newest(s)[j] = s[j + (Len(s) - Len(Newest(s)))]
<1>1. Len(s) \in Nat /\ window_len \in Nat \ {0}
  BY DEF NotEmpty
<1>2. CASE Len(s) <= window_len + 2
  <2>1. Newest(s) = s
    BY <1>2 DEF Newest
  <2>2. \A j \in 1..Len(s) : j + (Len(s) - Len(s)) = j
    BY <1>1
  <2> QED BY <1>2, <2>1, <2>2
<1>3. CASE ~(Len(s) <= window_len + 2)
  <2>1. Newest(s) = Tail(s) /\ Len(s) = window_len + 3 /\ s # << >>
    BY <1>1, <1>3 DEF Newest
  <2>2. /\ Tail(s) \in Seq(Nat) /\ Len(Tail(s)) = window_len + 2
        /\ \A j \in 1..(window_len + 2) : Tail(s)[j] = s[j + 1]
    BY <1>1, <2>1
  <2>3. Len(s) - Len(Newest(s)) = 1
    BY <1>1, <2>1, <2>2
  <2> QED BY <1>3, <2>1, <2>2, <2>3
<1> QED BY <1>2, <1>3

LEMMA Lasts ==
  ASSUME NotEmpty, HistoryInv, NEW t \in Nat, sent' = Newest(Append(sent, t))
  PROVE  /\ sent' \in Seq(Nat)
         /\ Len(sent') = IF Len(sent) < window_len + 2 THEN Len(sent) + 1 ELSE window_len + 2
         /\ sent'[Len(sent')] = t
         /\ \A j \in 1..(Len(sent') - 1) : sent'[j] = sent[j + (Len(sent) + 1 - Len(sent'))]
<1> DEFINE s == Append(sent, t)
<1>1. /\ s \in Seq(Nat) /\ Len(s) = Len(sent) + 1 /\ Len(sent) \in Nat /\ s[Len(sent) + 1] = t
      /\ \A j \in 1..Len(sent) : s[j] = sent[j]
  BY DEF HistoryInv
<1> HIDE DEF s
<1>2. /\ sent' \in Seq(Nat)
      /\ Len(sent') = IF Len(sent) < window_len + 2 THEN Len(sent) + 1 ELSE window_len + 2
      /\ \A j \in 1..Len(sent') : sent'[j] = s[j + (Len(s) - Len(sent'))]
  <2>1. Len(s) <= window_len + 3
    BY <1>1 DEF HistoryInv, NotEmpty
  <2>2. sent' = Newest(s)
    BY DEF s
  <2>3. /\ sent' \in Seq(Nat)
        /\ Len(sent') = IF Len(s) <= window_len + 2 THEN Len(s) ELSE window_len + 2
        /\ \A j \in 1..Len(sent') : sent'[j] = s[j + (Len(s) - Len(sent'))]
    <3>1. /\ Newest(s) \in Seq(Nat)
          /\ Len(Newest(s)) = IF Len(s) <= window_len + 2 THEN Len(s) ELSE window_len + 2
          /\ \A j \in 1..Len(Newest(s)) : Newest(s)[j] = s[j + (Len(s) - Len(Newest(s)))]
      BY <1>1, <2>1, NewestEnds
    <3> QED BY <2>2, <3>1
  <2>4. Len(sent') = IF Len(sent) < window_len + 2 THEN Len(sent) + 1 ELSE window_len + 2
    BY <1>1, <2>3 DEF HistoryInv, NotEmpty
  <2> QED BY <2>3, <2>4
<1>2a. /\ window_len \in Nat \ {0} /\ Len(sent') \in Nat /\ Len(sent') > 0
       /\ Len(sent') <= Len(sent) + 1
  BY <1>1, <1>2 DEF HistoryInv, NotEmpty
<1>3. sent'[Len(sent')] = t
  <2>1. Len(sent') \in 1..Len(sent') /\ Len(sent') + (Len(s) - Len(sent')) = Len(sent) + 1
    BY <1>1, <1>2a
  <2> QED BY <1>1, <1>2, <2>1
<1>4. ASSUME NEW j \in 1..(Len(sent') - 1)
      PROVE  sent'[j] = sent[j + (Len(sent) + 1 - Len(sent'))]
  <2>1. /\ j \in 1..Len(sent') /\ j + (Len(s) - Len(sent')) = j + (Len(sent) + 1 - Len(sent'))
        /\ j + (Len(sent) + 1 - Len(sent')) \in 1..Len(sent)
    BY <1>1, <1>2a
  <2> QED BY <1>1, <1>2, <2>1
<1> QED BY <1>2, <1>3, <1>4

LEMMA PassKeepsHistory ==
  ASSUME NotEmpty, WindowInv, NEW t \in Nat, PassFrame(t)
  PROVE  RingInv' /\ HistoryInv'
<1>1. Slide(t) /\ sent' = Newest(Append(sent, t)) /\ RingInv /\ HistoryInv
  BY DEF PassFrame, WindowInv
<1>2. /\ window_len \in Nat \ {0} /\ count \in 0..window_len /\ Len(sent) \in Nat
      /\ Len(sent) <= window_len + 2
      /\ count = IF Len(sent) < window_len THEN Len(sent) ELSE window_len
  BY <1>1 DEF RingInv, HistoryInv, NotEmpty
<1>3. /\ RingInv'
      /\ count' = IF count < window_len THEN count + 1 ELSE window_len
  BY <1>1, <1>2, SlideTurns
<1>4. /\ sent' \in Seq(Nat)
      /\ Len(sent') = IF Len(sent) < window_len + 2 THEN Len(sent) + 1 ELSE window_len + 2
      /\ sent'[Len(sent')] = t
      /\ \A j \in 1..(Len(sent') - 1) : sent'[j] = sent[j + (Len(sent) + 1 - Len(sent'))]
  BY <1>1, Lasts
<1>5. /\ Len(sent') <= window_len + 2
      /\ count' = IF Len(sent') < window_len THEN Len(sent') ELSE window_len
  BY <1>2, <1>3, <1>4
<1>6. ASSUME NEW i \in 1..count' PROVE At(i)' = sent'[Len(sent') - count' + i]
  <2>0. At(count)' = t
    BY <1>1, SlideShifts
  <2>1. CASE i = count'
    <3>1. Len(sent') - count' + i = Len(sent')
      BY <1>2, <1>3, <1>4, <2>1
    <3>2. At(i)' = At(count)'
      BY <2>1 DEF At
    <3> QED BY <1>4, <2>0, <3>1, <3>2
  <2>2. CASE i # count' /\ count < window_len
    <3>1. i \in 1..count
      BY <1>2, <1>3, <2>2
    <3>2. At(i)' = At(i)
      BY <1>1, <2>2, <3>1, SlideShifts
    <3>3. At(i) = sent[Len(sent) - count + i]
      BY <1>1, <3>1 DEF HistoryInv
    <3>4. /\ Len(sent') - count' + i = i /\ Len(sent) - count + i = i
          /\ i \in 1..(Len(sent') - 1) /\ i + (Len(sent) + 1 - Len(sent')) = i
      BY <1>2, <1>3, <1>4, <2>2, <3>1
    <3> QED BY <1>4, <3>2, <3>3, <3>4
  <2>3. CASE i # count' /\ count = window_len
    <3>1. i \in 1..(count - 1) /\ i + 1 \in 1..count
      BY <1>2, <1>3, <2>3
    <3>2. At(i)' = At(i + 1)
      BY <1>1, <2>3, <3>1, SlideShifts
    <3>3. At(i + 1) = sent[Len(sent) - count + (i + 1)]
      BY <1>1, <3>1 DEF HistoryInv
    <3>4. /\ count' = count /\ Len(sent') \in Nat /\ Len(sent') >= count
      BY <1>2, <1>3, <1>4, <2>3
    <3>5. Len(sent') - count' + i \in 1..(Len(sent') - 1)
      BY <1>2, <3>1, <3>4
    <3>6. Len(sent') - count' + i + (Len(sent) + 1 - Len(sent')) = Len(sent) - count + (i + 1)
      BY <1>2, <3>1, <3>4
    <3>7. sent'[Len(sent') - count' + i] = sent[Len(sent) - count + (i + 1)]
      BY <1>4, <3>5, <3>6
    <3> QED BY <3>2, <3>3, <3>7
  <2> QED BY <1>2, <2>1, <2>2, <2>3
<1> QED BY <1>3, <1>4, <1>5, <1>6 DEF HistoryInv

LEMMA PassKeepsTimes ==
  ASSUME NotEmpty, WindowInv, NEW t \in Nat, now' = t, PassFrame(t)
  PROVE  TimeInv' /\ PassedInv'
<1> DEFINE n == Len(sent)
           m == Len(sent')
           back == n + 1 - m
<1>1. /\ window_len \in Nat \ {0} /\ n \in Nat /\ n <= window_len + 2 /\ count \in 0..window_len
      /\ count = IF n < window_len THEN n ELSE window_len
      /\ \A j \in 1..n : sent[j] \in Nat
  BY DEF WindowInv, RingInv, HistoryInv, NotEmpty
<1>2. /\ m = IF n < window_len + 2 THEN n + 1 ELSE window_len + 2
      /\ sent'[m] = t
      /\ \A j \in 1..(m - 1) : sent'[j] = sent[j + back]
  BY Lasts DEF PassFrame, WindowInv
<1>3. /\ m \in Nat /\ m > 0 /\ m <= n + 1 /\ m <= window_len + 2 /\ back \in {0, 1}
      /\ (m > window_len => n >= window_len) /\ (m = window_len + 2 => n > window_len)
  BY <1>1, <1>2
<1> HIDE DEF n, m, back
<1>4. n > 0 => t >= frame_time_next
  BY <1>1 DEF PassFrame
<1>5. /\ Spacing \in Int /\ Span(window_len) \in Int /\ Span(count) \in Int
      /\ frame_time_next \in Int
  BY <1>1, SpansInt DEF WindowInv, TimeInv
<1>6. count = window_len => Oldest(t) = sent[n - window_len + 1]
  <2>1. SUFFICES ASSUME count = window_len PROVE Oldest(t) = sent[n - window_len + 1]
    OBVIOUS
  <2>2. tail \in 0..(2 * window_len - 1) /\ tail < window_len /\ tail + 1 - 1 = tail
    BY <1>1 DEF WindowInv, RingInv, Slot
  <2>3. tail % window_len = tail
    BY <2>2, Wraps
  <2>4. At(1) = objects[tail]
    BY <2>2, <2>3 DEF At
  <2>5. 1 \in 1..count /\ n - count + 1 = n - window_len + 1
    BY <1>1, <2>1
  <2>6. At(1) = sent[n - count + 1]
    BY <2>5 DEF WindowInv, HistoryInv, n
  <2> QED BY <1>1, <2>1, <2>4, <2>5, <2>6 DEF Oldest
<1>7. Oldest(t) \in Nat
  BY <1>1 DEF Oldest, WindowInv, RingInv
<1>8. /\ frame_time_next' \in Int /\ frame_time_next' >= t + Spacing
      /\ frame_time_next' >= Oldest(t) + Span(count)
  <2>1. frame_time_next' = Later(t + Spacing, Oldest(t) + Span(count))
    BY DEF PassFrame, NextTime
  <2>2. t + Spacing \in Int /\ Oldest(t) + Span(count) \in Int
    BY <1>5, <1>7
  <2> QED BY <2>1, <2>2 DEF Later
<1>9. TimeInv'
  <2>1. m > window_len =>
          frame_time_next' >= sent'[m - window_len] + Span(window_len)
    <3>1. SUFFICES ASSUME m > window_len
                   PROVE  frame_time_next' >= sent'[m - window_len] + Span(window_len)
      OBVIOUS
    <3>2. /\ m - window_len \in 1..(m - 1) /\ count = window_len
          /\ m - window_len + back = n - window_len + 1
      BY <1>1, <1>3, <3>1 DEF back
    <3>3. sent'[m - window_len] = Oldest(t)
      BY <1>2, <1>6, <3>2
    <3> QED BY <1>8, <3>2, <3>3
  <2> QED BY <1>2, <1>8, <2>1 DEF TimeInv, m
<1>10. SpacingKept'
  <2>1. SUFFICES ASSUME NEW i \in 2..m PROVE sent'[i] >= sent'[i - 1] + Spacing
    BY DEF SpacingKept, m
  <2>2. i - 1 \in 1..(m - 1) /\ i - 1 + back = i + back - 1
    BY <1>3
  <2>3. sent'[i - 1] = sent[i + back - 1]
    BY <1>2, <2>2
  <2>4. CASE i = m
    <3>1. i + back - 1 = n /\ n > 0
      BY <1>1, <1>3, <2>4 DEF back
    <3>2. frame_time_next >= sent[n] + Spacing
      BY <3>1 DEF WindowInv, TimeInv, n
    <3>3. t >= sent[n] + Spacing
      BY <1>1, <1>4, <1>5, <3>1, <3>2
    <3> QED BY <1>2, <2>3, <2>4, <3>1, <3>3
  <2>5. CASE i # m
    <3>1. i \in 1..(m - 1) /\ i + back \in 2..n
      BY <1>1, <1>3, <2>5 DEF back
    <3>2. sent'[i] = sent[i + back]
      BY <1>2, <3>1
    <3>3. \A k \in 2..n : sent[k] >= sent[k - 1] + Spacing
      BY DEF WindowInv, PassedInv, SpacingKept, n
    <3>4. sent[i + back] >= sent[i + back - 1] + Spacing
      <4> DEFINE k == i + back
      <4>1. k \in 2..n
        BY <3>1
      <4>2. k = i + back /\ k - 1 = i + back - 1
        BY <1>3
      <4> HIDE DEF k
      <4>3. sent[k] >= sent[k - 1] + Spacing
        BY <3>3, <4>1
      <4> QED BY <4>2, <4>3
    <3> QED BY <2>3, <3>2, <3>4
  <2> QED BY <2>4, <2>5
<1>11. m = window_len + 2 => sent'[window_len + 2] >= sent'[1] + Span(window_len)
  <2>1. SUFFICES ASSUME m = window_len + 2
                 PROVE  sent'[window_len + 2] >= sent'[1] + Span(window_len)
    OBVIOUS
  <2>2. /\ 1 \in 1..(m - 1) /\ 1 + back = n - window_len /\ n > window_len
        /\ n - window_len \in 1..n
    BY <1>1, <1>3, <2>1 DEF back
  <2>3. sent'[1] = sent[n - window_len]
    BY <1>2, <2>2
  <2>4. frame_time_next >= sent[n - window_len] + Span(window_len)
    BY <2>2 DEF WindowInv, TimeInv, n
  <2>5. t >= sent[n - window_len] + Span(window_len)
    BY <1>1, <1>4, <1>5, <2>2, <2>4
  <2> QED BY <1>2, <2>1, <2>3, <2>5
<1> QED BY <1>9, <1>10, <1>11 DEF PassedInv, m

-----------------------------------------------------------------------------
LEMMA InitWindow ==
  ASSUME NotEmpty, Init
  PROVE  WindowInv
<1>1. RingInv
  BY DEF Init, RingInv, Slot, NotEmpty
<1>2. sent \in Seq(Nat) /\ Len(sent) = 0 /\ count = 0 /\ window_len \in Nat \ {0}
  BY DEF Init, NotEmpty
<1>3. HistoryInv /\ TimeInv /\ PassedInv
  BY <1>2 DEF Init, HistoryInv, TimeInv, PassedInv, SpacingKept
<1> QED BY <1>1, <1>3 DEF WindowInv

LEMMA NextKeepsWindow ==
  ASSUME NotEmpty, WindowInv, [Next]_vars
  PROVE  WindowInv'
<1>1. CASE UNCHANGED vars
  BY <1>1 DEF vars, winVars, WindowInv, RingInv, HistoryInv, TimeInv, PassedInv, SpacingKept, At
<1>2. ASSUME NEW gap \in Gaps, now' = now + gap, PassFrame(now + gap)
      PROVE  WindowInv'
  <2>1. now + gap \in Nat
    BY FrameWindowAssumption DEF WindowInv, TimeInv
  <2> QED BY <1>2, <2>1, PassKeepsHistory, PassKeepsTimes DEF WindowInv
<1>3. ASSUME NEW gap \in Gaps, now' = now + gap, HoldFrame(now + gap)
      PROVE  WindowInv'
  <2>1. now' \in Nat
    BY <1>3, FrameWindowAssumption DEF WindowInv, TimeInv
  <2> QED BY <1>3, <2>1 DEF HoldFrame, winVars, WindowInv, RingInv, HistoryInv, TimeInv,
                            PassedInv, SpacingKept, At
<1> QED BY <1>1, <1>2, <1>3 DEF Next

LEMMA WindowCorrect ==
  ASSUME NotEmpty
  PROVE  Spec => []WindowInv
BY InitWindow, NextKeepsWindow, PTL DEF Spec

-----------------------------------------------------------------------------
\* Types; and the indices of the ring stay in it.
THEOREM TypeCorrect ==
  ASSUME NotEmpty
  PROVE  Spec => []TypeOK
<1>1. WindowInv => TypeOK
  BY DEF NotEmpty, WindowInv, RingInv, HistoryInv, TimeInv, TypeOK, Slot
<1> QED BY <1>1, WindowCorrect, PTL

\* No two frames that pass are closer than the spacing enforce_framerate
\* computes, whatever the camera does.
THEOREM SpacingKeptHolds ==
  ASSUME NotEmpty
  PROVE  Spec => []SpacingKept
<1>1. WindowInv => SpacingKept
  BY DEF WindowInv, PassedInv
<1> QED BY <1>1, WindowCorrect, PTL

\* The average rate is bounded as soon as the product of sapi.c:96 fits an int.
THEOREM RateBoundedHolds ==
  ASSUME NotEmpty, 2 * (window_len * Second * fps_denominator) < IntRange
  PROVE  Spec => []RateBounded
<1> DEFINE P == window_len * Second * fps_denominator
<1>1. P \in Nat /\ fps_numerator \in Nat \ {0} /\ IntRange \in Nat \ {0} /\ window_len \in Nat
  BY FrameWindowAssumption DEF NotEmpty
<1>2. Span(window_len) = P \div fps_numerator
  <2>1. 2 * P < IntRange
    OBVIOUS
  <2> HIDE DEF P
  <2>2. Int32(P) = P
    <3>1. P % IntRange = P
      BY <1>1, <2>1
    <3> QED BY <2>1, <3>1 DEF Int32
  <2>3. Quotient(P, fps_numerator) = P \div fps_numerator
    BY <1>1 DEF Quotient
  <2> QED BY <2>2, <2>3 DEF Span, P
<1>3. WindowInv => RateBounded
  <2>1. SUFFICES ASSUME WindowInv, Len(sent) = window_len + 2
                 PROVE  (sent[Len(sent)] - sent[1]) * fps_numerator > P - fps_numerator
    BY DEF RateBounded
  <2> HIDE DEF P
  <2> DEFINE d == sent[window_len + 2] - sent[1]
             q == P \div fps_numerator
  <2>2. sent[1] \in Nat /\ sent[window_len + 2] \in Nat
    BY <1>1, <2>1 DEF WindowInv, HistoryInv
  <2>3. sent[window_len + 2] >= sent[1] + q
    BY <1>2, <2>1 DEF WindowInv, PassedInv
  <2>4. q \in Int /\ q * fps_numerator > P - fps_numerator
    BY <1>1
  <2>5. d \in Int /\ d >= q
    BY <2>2, <2>3, <2>4
  <2>6. d * fps_numerator >= q * fps_numerator
    <3> HIDE DEF d, q
    <3> QED BY <1>1, <2>4, <2>5
  <2>7. d * fps_numerator > P - fps_numerator
    <3> HIDE DEF d, q
    <3> QED BY <1>1, <2>4, <2>5, <2>6
  <2> QED BY <2>1, <2>7
<1> QED BY <1>3, WindowCorrect, PTL

-----------------------------------------------------------------------------
LEMMA Appended ==
  ASSUME NEW S, NEW s \in Seq(S), NEW t \in S, NEW f,
         f = [i \in 1..(Len(s) + 1) |-> IF i = Len(s) + 1 THEN t ELSE s[i]]
  PROVE  f = Append(s, t)
<1>1. f \in Seq(S) /\ Len(f) = Len(s) + 1
  <2>1. Len(s) \in Nat /\ \A i \in 1..(Len(s) + 1) : f[i] \in S
    OBVIOUS
  <2> QED BY <2>1
<1>2. /\ Append(s, t) \in Seq(S) /\ Len(Append(s, t)) = Len(s) + 1
      /\ \A i \in 1..Len(f) : f[i] = Append(s, t)[i]
  BY <1>1, AppendProperties
<1> QED BY <1>1, <1>2, SeqEqual

\* The ring implements the queue of the times of the last window_len frames:
\* a slide is a step of RecentFrames, and a frame held back changes nothing.
THEOREM KeepsRecentFramesHolds ==
  ASSUME NotEmpty
  PROVE  Spec => KeepsRecentFrames
<1> DEFINE recent == [i \in 1..count |-> objects[(tail + i - 1) % window_len]]
<1>1. Init => Recent!Init
  BY DEF Init, Recent!Init
<1>2. ASSUME WindowInv, WindowInv', [Next]_vars
      PROVE  [Recent!Next]_recent
  <2>1. ASSUME UNCHANGED winVars
        PROVE  recent' = recent
    BY <2>1 DEF winVars
  <2>2. ASSUME NEW t \in 0..MaxTime, PassFrame(t)
        PROVE  Recent!Pass(t)
    <3>1. /\ Slide(t) /\ RingInv /\ t \in Nat
          /\ window_len \in Nat \ {0} /\ count \in 0..window_len
          /\ \A i \in 1..count : At(i) \in Nat
      <4>1. Slide(t) /\ RingInv /\ HistoryInv /\ t \in Nat
        BY <1>2, <2>2, FrameWindowAssumption DEF PassFrame, WindowInv
      <4>2. ASSUME NEW i \in 1..count PROVE At(i) \in Nat
        <5>1. Len(sent) - count + i \in 1..Len(sent)
          BY <4>1 DEF RingInv, HistoryInv, NotEmpty
        <5>2. sent[Len(sent) - count + i] \in Nat
          BY <4>1, <5>1 DEF HistoryInv
        <5> QED BY <4>1, <5>2 DEF HistoryInv
      <4> QED BY <4>1, <4>2 DEF RingInv, NotEmpty
    <3>2. /\ recent = [i \in 1..count |-> At(i)]
          /\ recent' = [i \in 1..count' |-> At(i)']
      BY DEF At
    <3>3. /\ count < window_len => count' = count + 1 /\ \A i \in 1..count : At(i)' = At(i)
          /\ count = window_len => count' = count /\ \A i \in 1..(count - 1) : At(i)' = At(i + 1)
          /\ At(count)' = t
      BY <3>1, SlideTurns, SlideShifts
    <3>4. recent \in Seq(Nat) /\ Len(recent) = count
      BY <3>1, <3>2
    <3>4a. Recent!Pass(t) <=>
             recent' = IF Len(recent) < window_len THEN Append(recent, t)
                                                   ELSE Append(Tail(recent), t)
      BY DEF Recent!Pass
    <3>4b. \A i : i = count' => At(i)' = t
      BY <3>3 DEF At
    <3> HIDE DEF recent
    <3>5. CASE count < window_len
      <4>1. recent' = [i \in 1..(count + 1) |-> At(i)']
        BY <3>2, <3>3, <3>5
      <4>2. \A i \in 1..(count + 1) : At(i)' = IF i = count + 1 THEN t ELSE recent[i]
        BY <3>1, <3>2, <3>3, <3>4b, <3>5
      <4>3. recent' = [i \in 1..(count + 1) |-> IF i = count + 1 THEN t ELSE recent[i]]
        BY <4>1, <4>2
      <4>4. recent' = Append(recent, t)
        BY <3>1, <3>4, <4>3, Appended
      <4> QED BY <3>4, <3>4a, <3>5, <4>4
    <3>6. CASE count = window_len
      <4>1. recent' = [i \in 1..count |-> At(i)']
        BY <3>2, <3>3, <3>6
      <4>2. /\ Tail(recent) \in Seq(Nat) /\ Len(Tail(recent)) = count - 1
            /\ \A i \in 1..(count - 1) : Tail(recent)[i] = recent[i + 1]
        BY <3>1, <3>4, <3>6
      <4>3. \A i \in 1..count : At(i)' = IF i = count THEN t ELSE Tail(recent)[i]
        BY <3>1, <3>2, <3>3, <3>4b, <3>6, <4>2
      <4>4. /\ recent' = [i \in 1..count |-> IF i = count THEN t ELSE Tail(recent)[i]]
            /\ Len(Tail(recent)) + 1 = count
        BY <3>1, <4>1, <4>2, <4>3
      <4>5. recent' = Append(Tail(recent), t)
        BY <3>1, <4>2, <4>4, Appended
      <4> QED BY <3>1, <3>4, <3>4a, <3>6, <4>5
    <3> QED BY <3>1, <3>5, <3>6
  <2>3. ASSUME NEW gap \in Gaps, now' = now + gap, now' <= MaxTime,
               PassFrame(now') \/ HoldFrame(now')
        PROVE  [Recent!Next]_recent
    <3>1. now' \in 0..MaxTime
      BY <1>2, <2>3, FrameWindowAssumption DEF WindowInv, TimeInv
    <3>2. CASE PassFrame(now')
      BY <2>2, <3>1, <3>2 DEF Recent!Next
    <3>3. CASE HoldFrame(now')
      BY <2>1, <3>3 DEF HoldFrame
    <3> QED BY <2>3, <3>2, <3>3
  <2> QED BY <1>2, <2>1, <2>3 DEF Next, vars
<1> QED BY <1>1, <1>2, WindowCorrect, PTL DEF Spec, KeepsRecentFrames, Recent!Spec

-----------------------------------------------------------------------------
(* How long a frame is held.  A frame that passes is Spacing away from the  *)
(* one before it, so the frames in the ring are spread out, and the time of *)
(* the oldest of them is far enough back for frame_time_next.               *)

\* The product of sapi.c:96 fits an int for every number of frames in the window.
Fits == 2 * (window_len * Second * fps_denominator) < IntRange

Period == Second * fps_denominator

\* Any two times of the history, i before j, are (j - i) * d / m apart.
Spread(m, d) ==
  \A i, j \in 1..Len(sent) : i <= j => (sent[j] - sent[i]) * m >= (j - i) * d

LEMMA DivFloor ==
  ASSUME NEW a \in Nat, NEW b \in Nat \ {0}
  PROVE  /\ a \div b \in Nat /\ (a \div b) * b <= a
         /\ \A q \in Int : q * b <= a => q <= a \div b
<1> DEFINE d == a \div b
<1>1. d \in Nat /\ d * b <= a /\ a < (d + 1) * b
  OBVIOUS
<1> HIDE DEF d
<1>2. ASSUME NEW q \in Int, q * b <= a
      PROVE  q <= d
  <2>1. SUFFICES ASSUME q >= d + 1 PROVE FALSE
    BY <1>1
  <2>2. q * b >= (d + 1) * b
    BY <1>1, <2>1
  <2> QED BY <1>1, <1>2, <2>2
<1> QED BY <1>1, <1>2 DEF d

LEMMA PeriodNat == Period \in Nat \ {0} /\ Second \in Nat /\ fps_denominator \in Nat
BY FrameWindowAssumption DEF Period

LEMMA SpanIs ==
  ASSUME NotEmpty, Fits, NEW n \in 0..window_len
  PROVE  Span(n) = (n * Period) \div fps_numerator
<1> DEFINE P == n * Period
<1>1. /\ window_len \in Nat \ {0} /\ n \in Nat /\ n <= window_len /\ Period \in Nat \ {0}
      /\ fps_numerator \in Nat \ {0} /\ IntRange \in Nat \ {0}
  BY FrameWindowAssumption, PeriodNat DEF NotEmpty
<1>2. n * Second * fps_denominator = P /\ window_len * Second * fps_denominator = window_len * Period
  BY <1>1, PeriodNat DEF Period
<1>3. P \in Nat /\ P <= window_len * Period
  BY <1>1
<1>4. 2 * P < IntRange
  BY <1>1, <1>2, <1>3 DEF Fits
<1> HIDE DEF P
<1>5. P % IntRange = P
  BY <1>1, <1>3, <1>4
<1>6. Int32(P) = P
  BY <1>4, <1>5 DEF Int32
<1>7. Quotient(P, fps_numerator) = P \div fps_numerator
  BY <1>3 DEF Quotient
<1> QED BY <1>2, <1>6, <1>7 DEF Span, P

\* The spacing is at most a period, here times fps_numerator.
LEMMA SpacingIs ==
  ASSUME NotEmpty, Fits
  PROVE  Spacing \in Nat /\ Spacing * fps_numerator <= Period
<1> DEFINE A == (9 * Second) \div 10
           P == A * fps_denominator
<1>1. /\ window_len \in Nat \ {0} /\ Period \in Nat \ {0} /\ Second \in Nat \ {0}
      /\ fps_numerator \in Nat \ {0} /\ fps_denominator \in Nat \ {0} /\ IntRange \in Nat \ {0}
  BY FrameWindowAssumption, PeriodNat DEF NotEmpty
<1>2. A \in Nat /\ A <= Second
  BY <1>1
<1> HIDE DEF A
<1>3. P \in Nat /\ P <= Period
  BY <1>1, <1>2 DEF Period
<1>4. 2 * P < IntRange
  <2>1. window_len * Second * fps_denominator = window_len * Period
    BY <1>1 DEF Period
  <2>2. Period <= window_len * Period
    BY <1>1
  <2> QED BY <1>1, <1>3, <2>1, <2>2 DEF Fits
<1> HIDE DEF P
<1>5. P % IntRange = P
  BY <1>1, <1>3, <1>4
<1>6. Spacing = P \div fps_numerator
  <2>1. Int32(P) = P
    BY <1>4, <1>5 DEF Int32
  <2>2. Quotient(P, fps_numerator) = P \div fps_numerator
    BY <1>3 DEF Quotient
  <2> QED BY <2>1, <2>2 DEF Spacing, P, A
<1>7. P \div fps_numerator \in Nat /\ (P \div fps_numerator) * fps_numerator <= P
  BY <1>1, <1>3, DivFloor
<1> QED BY <1>1, <1>3, <1>6, <1>7

LEMMA AddSpread ==
  ASSUME NEW x \in Int, NEW y \in Int, NEW m \in Int, NEW k \in Int, NEW d \in Int,
         x * m >= d, y * m >= k * d
  PROVE  (x + y) * m >= (k + 1) * d
<1>1. (x + y) * m = x * m + y * m /\ (k + 1) * d = k * d + d
  OBVIOUS
<1>2. x * m \in Int /\ y * m \in Int /\ k * d \in Int
  OBVIOUS
<1> QED BY <1>1, <1>2

\* What is said of the history's times, after one more.
LEMMA SpreadGrows ==
  ASSUME NotEmpty, HistoryInv, NEW m \in Nat, NEW d \in Int, NEW t \in Nat,
         Spread(m, d), Len(sent) > 0 => (t - sent[Len(sent)]) * m >= d
  PROVE  /\ \A i \in 1..Len(sent) : (t - sent[i]) * m >= (Len(sent) + 1 - i) * d
         /\ sent' = Newest(Append(sent, t)) => Spread(m, d)'
<1> DEFINE n == Len(sent)
           l == Len(sent')
           back == n + 1 - l
<1>1. n \in Nat /\ \A i \in 1..n : sent[i] \in Nat
  BY DEF HistoryInv
<1>2. ASSUME NEW i \in 1..n
      PROVE  (t - sent[i]) * m >= (n + 1 - i) * d
  <2> DEFINE x == t - sent[n]
             y == sent[n] - sent[i]
             k == n - i
  <2>1. n > 0 /\ n \in 1..n /\ i <= n
    BY <1>1
  <2>2. x \in Int /\ y \in Int /\ k \in Int /\ x * m >= d /\ y * m >= k * d
    <3>1. n = Len(sent) /\ i \in 1..n /\ n - i \in Int
      BY <1>1
    <3>2. (sent[n] - sent[i]) * m >= (n - i) * d
      BY <2>1, <3>1 DEF Spread
    <3> QED BY <1>1, <2>1, <3>1, <3>2
  <2>3. t - sent[i] = x + y /\ n + 1 - i = k + 1
    BY <1>1, <2>1
  <2> HIDE DEF x, y, k, n
  <2>4. (x + y) * m >= (k + 1) * d
    BY <2>2, AddSpread
  <2> QED BY <2>3, <2>4
<1>3. ASSUME sent' = Newest(Append(sent, t))
      PROVE  Spread(m, d)'
  <2>1. /\ l = IF n < window_len + 2 THEN n + 1 ELSE window_len + 2
        /\ sent'[l] = t
        /\ \A j \in 1..(l - 1) : sent'[j] = sent[j + back]
    BY <1>3, Lasts
  <2>2. /\ l \in Nat /\ l > 0 /\ back \in {0, 1} /\ l - 1 + back = n
    <3>1. n <= window_len + 2 /\ window_len \in Nat \ {0}
      BY DEF HistoryInv, NotEmpty
    <3> HIDE DEF n, l
    <3> QED BY <1>1, <2>1, <3>1
  <2> SUFFICES ASSUME NEW i \in 1..l, NEW j \in 1..l, i <= j
               PROVE  (sent'[j] - sent'[i]) * m >= (j - i) * d
    BY DEF Spread
  <2> HIDE DEF n, l, back
  <2>3. CASE j # l
    <3>1. /\ i \in 1..(l - 1) /\ j \in 1..(l - 1) /\ i + back \in 1..n /\ j + back \in 1..n
          /\ i + back <= j + back /\ (j + back) - (i + back) = j - i
      BY <2>2, <2>3
    <3>2. (sent[j + back] - sent[i + back]) * m >= ((j + back) - (i + back)) * d
      BY <3>1 DEF Spread, n
    <3> QED BY <2>1, <3>1, <3>2
  <2>4. CASE j = l /\ i # l
    <3>1. i \in 1..(l - 1) /\ i + back \in 1..n /\ n + 1 - (i + back) = j - i
      BY <1>1, <2>2, <2>4
    <3>2. (t - sent[i + back]) * m >= (n + 1 - (i + back)) * d
      BY <1>2, <3>1
    <3> QED BY <2>1, <2>4, <3>1, <3>2
  <2>5. CASE i = l
    <3>1. j = l /\ j - i = 0 /\ sent'[j] - sent'[i] = 0
      BY <2>1, <2>2, <2>5
    <3>2. 0 * m = 0 /\ 0 * d = 0
      OBVIOUS
    <3> QED BY <3>1, <3>2
  <2> QED BY <2>2, <2>3, <2>4, <2>5
<1> QED BY <1>2, <1>3

\* The oldest frame in the ring is as many frames before a new one at t as the
\* ring holds frames.
LEMMA OldestIs ==
  ASSUME NotEmpty, WindowInv, count # 0, NEW t
  PROVE  /\ Len(sent) - count + 1 \in 1..Len(sent)
         /\ Oldest(t) = sent[Len(sent) - count + 1]
<1>1. /\ window_len \in Nat \ {0} /\ count \in 1..window_len /\ tail \in 0..(window_len - 1)
      /\ Len(sent) \in Nat /\ count <= Len(sent)
  BY DEF WindowInv, RingInv, HistoryInv, Slot, NotEmpty
<1>2. tail + 1 - 1 = tail /\ tail \in 0..(2 * window_len - 1) /\ tail < window_len
  BY <1>1
<1>3. tail % window_len = tail
  BY <1>2, Wraps
<1>4. At(1) = objects[tail]
  BY <1>2, <1>3 DEF At
<1>5. At(1) = sent[Len(sent) - count + 1]
  <2>1. 1 \in 1..count
    BY <1>1
  <2>2. \A i \in 1..count : At(i) = sent[Len(sent) - count + i]
    BY DEF WindowInv, HistoryInv
  <2> QED BY <2>1, <2>2
<1> QED BY <1>1, <1>4, <1>5 DEF Oldest

\* What the proofs about a frame that passes start from.
LEMMA PassFacts ==
  ASSUME NotEmpty, WindowInv, NEW t, PassFrame(t)
  PROVE  /\ window_len \in Nat \ {0} /\ count \in 0..window_len /\ Len(sent) \in Nat
         /\ (count = 0 <=> Len(sent) = 0) /\ HistoryInv /\ sent' = Newest(Append(sent, t))
         /\ fps_numerator \in Nat \ {0} /\ Period \in Nat \ {0} /\ now \in Nat
         /\ \A i \in 1..Len(sent) : sent[i] \in Nat
<1>1. fps_numerator \in Nat \ {0} /\ Period \in Nat \ {0}
  BY FrameWindowAssumption, PeriodNat
<1>2. HistoryInv /\ now \in Nat /\ sent' = Newest(Append(sent, t)) /\ count \in 0..window_len
  BY DEF WindowInv, RingInv, TimeInv, PassFrame
<1>3. /\ sent \in Seq(Nat) /\ window_len \in Nat \ {0}
      /\ count = IF Len(sent) < window_len THEN Len(sent) ELSE window_len
  BY <1>2 DEF HistoryInv, NotEmpty
<1>4. Len(sent) \in Nat /\ \A i \in 1..Len(sent) : sent[i] \in Nat
  BY <1>3
<1>5. count = 0 <=> Len(sent) = 0
  BY <1>3, <1>4
<1> QED BY <1>1, <1>2, <1>3, <1>4, <1>5

\* The time n frames should take, times fps_numerator, and that it is the most.
LEMMA SpanBounds ==
  ASSUME NotEmpty, Fits, NEW n \in 0..window_len
  PROVE  /\ Span(n) \in Nat /\ Span(n) * fps_numerator <= n * Period
         /\ \A q \in Int : q * fps_numerator <= n * Period => q <= Span(n)
<1> DEFINE P == n * Period
<1>1. P \in Nat /\ fps_numerator \in Nat \ {0}
  BY FrameWindowAssumption, PeriodNat DEF NotEmpty
<1>2. Span(n) = P \div fps_numerator
  BY SpanIs
<1> HIDE DEF P
<1> QED BY <1>1, <1>2, DivFloor DEF P

\* A step passes a frame, holds one, or does nothing.
LEMMA StepIs ==
  ASSUME WindowInv, [Next]_vars
  PROVE  \/ now' \in Nat /\ now' - now \in Gaps /\ (PassFrame(now') \/ HoldFrame(now'))
         \/ UNCHANGED vars
<1>1. ASSUME NEW gap \in Gaps, now' = now + gap
      PROVE  now' \in Nat /\ now' - now = gap
  BY <1>1, FrameWindowAssumption DEF WindowInv, TimeInv
<1> QED BY <1>1 DEF Next

\* A tenth of the window, or the spacing if that is more.
LongestPause == Later(Spacing, Span(window_len) - window_len * Spacing)

\* After a frame that passed none is held for longer than LongestPause, also
\* when the camera stalls and then delivers faster than the bound rate: pacing
\* "based on sliding window" (sapi.c:94) never freezes the picture for the
\* seconds that the window is long.
HeldBriefly ==
  Len(sent) > 0 => frame_time_next <= sent[Len(sent)] + LongestPause

PauseInv == Spread(1, Spacing) /\ HeldBriefly

LEMMA PassKeepsPause ==
  ASSUME NotEmpty, Fits, WindowInv, PauseInv, NEW t \in Nat, PassFrame(t)
  PROVE  PauseInv'
<1> DEFINE n == Len(sent)
<1>1. /\ window_len \in Nat \ {0} /\ count \in 0..window_len /\ n \in Nat
      /\ (count = 0 <=> n = 0) /\ HistoryInv /\ sent' = Newest(Append(sent, t))
      /\ fps_numerator \in Nat \ {0} /\ Period \in Nat \ {0}
      /\ \A i \in 1..n : sent[i] \in Nat
  BY PassFacts
<1>2. Spacing \in Nat /\ Spacing * fps_numerator <= Period
  BY SpacingIs
<1>3. window_len \in 0..window_len
  BY <1>1
<1>4. /\ Span(count) \in Nat /\ Span(count) * fps_numerator <= count * Period
      /\ Span(window_len) \in Nat
      /\ \A q \in Int : q * fps_numerator <= window_len * Period => q <= Span(window_len)
  BY <1>1, <1>3, SpanBounds
<1>5. n > 0 => (t - sent[n]) * 1 >= Spacing
  <2>1. SUFFICES ASSUME n > 0 PROVE (t - sent[n]) * 1 >= Spacing
    OBVIOUS
  <2>2. /\ t >= frame_time_next /\ frame_time_next \in Int
        /\ frame_time_next >= sent[n] + Spacing /\ sent[n] \in Nat
    BY <1>1, <2>1 DEF PassFrame, WindowInv, TimeInv
  <2> QED BY <1>2, <2>2
<1>6. /\ Spread(1, Spacing)'
      /\ \A i \in 1..n : (t - sent[i]) * 1 >= (n + 1 - i) * Spacing
  <2>1. 1 \in Nat /\ Spacing \in Int /\ Spread(1, Spacing)
    BY <1>2 DEF PauseInv
  <2> QED BY <1>1, <1>5, <2>1, SpreadGrows
<1>7. Oldest(t) + Span(count) <= t + (Span(window_len) - window_len * Spacing)
  <2>1. Oldest(t) \in Nat /\ Oldest(t) + count * Spacing <= t
    <3>1. CASE count = 0
      BY <1>1, <1>2, <3>1 DEF Oldest
    <3>2. CASE count # 0
      <4>1. n - count + 1 \in 1..n /\ Oldest(t) = sent[n - count + 1]
        BY <3>2, OldestIs
      <4>2. n + 1 - (n - count + 1) = count
        BY <1>1
      <4>3. (t - sent[n - count + 1]) * 1 >= count * Spacing
        BY <1>6, <4>1, <4>2
      <4> QED BY <1>1, <1>2, <4>1, <4>3
    <3> QED BY <3>1, <3>2
  <2>2. Span(count) + (window_len - count) * Spacing <= Span(window_len)
    <3> DEFINE k == window_len - count
               q == Span(count) + k * Spacing
    <3>1. k \in Nat /\ k + count = window_len
      BY <1>1
    <3> HIDE DEF k
    <3>2. q \in Int /\ q * fps_numerator = Span(count) * fps_numerator
                                           + k * (Spacing * fps_numerator)
      BY <1>1, <1>2, <1>4, <3>1
    <3>3. k * (Spacing * fps_numerator) <= k * Period
      <4> DEFINE s == Spacing * fps_numerator
      <4>1. s \in Nat /\ s <= Period
        BY <1>1, <1>2
      <4> HIDE DEF s
      <4>2. k * s <= k * Period
        BY <1>1, <3>1, <4>1
      <4> QED BY <4>2 DEF s
    <3>4. count * Period + k * Period = window_len * Period
      BY <1>1, <3>1
    <3>5. q * fps_numerator <= window_len * Period
      <4>1. /\ q * fps_numerator \in Int /\ Span(count) * fps_numerator \in Int
            /\ k * (Spacing * fps_numerator) \in Int /\ count * Period \in Int
            /\ k * Period \in Int
        BY <1>1, <1>2, <1>4, <3>1, <3>2
      <4> HIDE DEF q
      <4> QED BY <1>4, <3>2, <3>3, <3>4, <4>1
    <3> QED BY <1>4, <3>2, <3>5 DEF k
  <2>3. /\ count * Spacing \in Int /\ window_len * Spacing \in Int
        /\ (window_len - count) * Spacing = window_len * Spacing - count * Spacing
    BY <1>1, <1>2
  <2> QED BY <1>1, <1>4, <2>1, <2>2, <2>3
<1>8. /\ frame_time_next' = Later(t + Spacing, Oldest(t) + Span(count))
      /\ n' > 0 /\ sent'[n'] = t
  <2>1. Len(sent') > 0 /\ sent'[Len(sent')] = t
    BY <1>1, Lasts
  <2> QED BY <2>1 DEF PassFrame, NextTime
<1>9. HeldBriefly'
  <2>1. frame_time_next' <= t + LongestPause
    <3>1. /\ Spacing \in Int /\ Span(window_len) - window_len * Spacing \in Int
          /\ Oldest(t) + Span(count) \in Int
      <4>1. Oldest(t) \in Nat
        BY <1>1 DEF Oldest, WindowInv, RingInv
      <4> QED BY <1>1, <1>2, <1>4, <4>1
    <3> QED BY <1>7, <1>8, <3>1 DEF Later, LongestPause
  <2> QED BY <1>8, <2>1 DEF HeldBriefly
<1> QED BY <1>6, <1>9 DEF PauseInv

\* No frame is held longer than a tenth of the window after one that passed.
THEOREM HeldBrieflyHolds ==
  ASSUME NotEmpty, Fits
  PROVE  Spec => []HeldBriefly
<1>1. Init => PauseInv
  <2> SUFFICES ASSUME Init PROVE PauseInv
    OBVIOUS
  <2>1. Len(sent) = 0
    BY DEF Init
  <2> QED BY <2>1 DEF PauseInv, Spread, HeldBriefly
<1>2. WindowInv /\ PauseInv /\ [Next]_vars => PauseInv'
  <2> SUFFICES ASSUME WindowInv, PauseInv, [Next]_vars PROVE PauseInv'
    OBVIOUS
  <2>1. CASE now' \in Nat /\ PassFrame(now')
    BY <2>1, PassKeepsPause
  <2>2. CASE HoldFrame(now') \/ UNCHANGED vars
    <3>1. UNCHANGED <<sent, frame_time_next>>
      BY <2>2 DEF HoldFrame, vars
    <3> QED BY <3>1 DEF PauseInv, Spread, HeldBriefly
  <2> QED BY <2>1, <2>2, StepIs
<1> QED BY <1>1, <1>2, WindowCorrect, PTL DEF Spec, PauseInv

-----------------------------------------------------------------------------
\* The camera delivers no faster than the rate that is bound.
SlowCamera == \A gap \in Gaps : gap * fps_numerator >= Period

\* Every frame that arrives is let through.
NoneHeld == [][PassFrame(now')]_vars

\* All frames have passed, and the next one will, whenever it comes.
SteadyInv ==
  /\ Spread(fps_numerator, Period)
  /\ Len(sent) > 0 => /\ now = sent[Len(sent)]
                      /\ \A t \in Nat : t - now \in Gaps => t >= frame_time_next

LEMMA PassKeepsSteady ==
  ASSUME NotEmpty, Fits, SlowCamera, WindowInv, SteadyInv, NEW t \in Nat, now' = t,
         t - now \in Gaps, PassFrame(t)
  PROVE  SteadyInv'
<1> DEFINE n == Len(sent)
<1>1. /\ window_len \in Nat \ {0} /\ count \in 0..window_len /\ n \in Nat
      /\ (count = 0 <=> n = 0) /\ HistoryInv /\ sent' = Newest(Append(sent, t))
      /\ fps_numerator \in Nat \ {0} /\ Period \in Nat \ {0} /\ now \in Nat
      /\ \A i \in 1..n : sent[i] \in Nat
  BY PassFacts
<1>2. Spacing \in Nat /\ Spacing * fps_numerator <= Period
  BY SpacingIs
<1>4. Span(count) \in Nat /\ Span(count) * fps_numerator <= count * Period
  BY <1>1, SpanBounds
<1>5. n > 0 => (t - sent[n]) * fps_numerator >= Period
  BY DEF SteadyInv, SlowCamera
<1>6. /\ Spread(fps_numerator, Period)'
      /\ \A i \in 1..n : (t - sent[i]) * fps_numerator >= (n + 1 - i) * Period
  <2>1. fps_numerator \in Nat /\ Period \in Int /\ Spread(fps_numerator, Period)
    BY <1>1 DEF SteadyInv
  <2> QED BY <1>1, <1>5, <2>1, SpreadGrows
<1>7. Oldest(t) \in Nat /\ Oldest(t) + Span(count) <= t
  <2>1. CASE count = 0
    <3>1. Span(count) <= 0
      <4>1. 0 * Period = 0 /\ Span(count) * fps_numerator <= 0
        BY <1>1, <1>4, <2>1
      <4> QED BY <1>1, <1>4, <4>1
    <3> QED BY <1>4, <2>1, <3>1 DEF Oldest
  <2>2. CASE count # 0
    <3> DEFINE d == t - Oldest(t)
               s == Span(count)
    <3>1. n - count + 1 \in 1..n /\ Oldest(t) = sent[n - count + 1]
      BY <2>2, OldestIs
    <3>2. n + 1 - (n - count + 1) = count
      BY <1>1
    <3>3. (t - sent[n - count + 1]) * fps_numerator >= count * Period
      BY <1>6, <3>1, <3>2
    <3>4. d \in Int /\ Oldest(t) \in Nat /\ d * fps_numerator >= count * Period
      BY <1>1, <3>1, <3>3
    <3>5. s \in Nat /\ s * fps_numerator <= d * fps_numerator
      <4>1. count * Period \in Int /\ d * fps_numerator \in Int /\ s * fps_numerator \in Int
        BY <1>1, <1>4, <3>4
      <4> QED BY <1>4, <3>4, <4>1
    <3> HIDE DEF s, d
    <3>6. s <= d
      BY <1>1, <3>4, <3>5
    <3> QED BY <3>4, <3>5, <3>6 DEF s, d
  <2> QED BY <2>1, <2>2
<1>8. frame_time_next' = Later(t + Spacing, Oldest(t) + Span(count))
  BY DEF PassFrame, NextTime
<1>9. sent'[Len(sent')] = t
  BY <1>1, Lasts
<1>10. ASSUME NEW u \in Nat, u - t \in Gaps
       PROVE  u >= frame_time_next'
  <2> DEFINE gap == u - t
  <2>1. gap \in Nat /\ gap * fps_numerator >= Period
    BY <1>10, FrameWindowAssumption DEF SlowCamera
  <2>3. u = t + gap
    BY <1>10
  <2> HIDE DEF gap
  <2>2. gap >= Spacing
    <3>1. Spacing * fps_numerator <= gap * fps_numerator
      <4>1. Spacing * fps_numerator \in Int /\ gap * fps_numerator \in Int
        BY <1>1, <1>2, <2>1
      <4> QED BY <1>1, <1>2, <2>1, <4>1
    <3> QED BY <1>1, <1>2, <2>1, <3>1
  <2> QED BY <1>4, <1>2, <1>7, <1>8, <2>1, <2>2, <2>3 DEF Later
<1> QED BY <1>6, <1>9, <1>10 DEF SteadyInv

\* A camera that is not faster than the rate bound loses no frame to its
\* enforcement: rounding never adds up to a period, in windows of any length.
THEOREM NoneHeldHolds ==
  ASSUME NotEmpty, Fits, SlowCamera
  PROVE  Spec => NoneHeld
<1>1. Init => SteadyInv
  <2> SUFFICES ASSUME Init PROVE SteadyInv
    OBVIOUS
  <2>1. Len(sent) = 0
    BY DEF Init
  <2> QED BY <2>1 DEF SteadyInv, Spread
<1>2. WindowInv /\ SteadyInv /\ [Next]_vars => SteadyInv' /\ [PassFrame(now')]_vars
  <2> SUFFICES ASSUME WindowInv, SteadyInv, [Next]_vars
               PROVE  SteadyInv' /\ [PassFrame(now')]_vars
    OBVIOUS
  <2>1. CASE UNCHANGED vars
    BY <2>1 DEF vars, SteadyInv, Spread
  <2>2. CASE now' \in Nat /\ now' - now \in Gaps /\ (PassFrame(now') \/ HoldFrame(now'))
    <3>1. PassFrame(now')
      <4>1. SUFFICES ASSUME HoldFrame(now') PROVE FALSE
        BY <2>2
      <4>2. Len(sent) > 0
        BY <4>1 DEF HoldFrame, WindowInv, RingInv, HistoryInv, NotEmpty
      <4>3. now' >= frame_time_next /\ now' \in Nat /\ frame_time_next \in Int
        BY <2>2, <4>2 DEF SteadyInv, WindowInv, TimeInv
      <4>4. now' < frame_time_next
        BY <4>1 DEF HoldFrame
      <4> QED BY <4>3, <4>4
    <3> QED BY <2>2, <3>1, PassKeepsSteady
  <2> QED BY <2>1, <2>2, StepIs
<1> QED BY <1>1, <1>2, WindowCorrect, PTL DEF Spec, NoneHeld
=============================================================================
