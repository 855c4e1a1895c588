-------------------------- MODULE DirectShowFormats -------------------------
(***************************************************************************)
(* How DirectShowSource.cpp chooses among the capabilities of a device,    *)
(* and how it scales samples.  A capability has a smallest and a largest   *)
(* size, the steps between them, a media type (a fourcc) and a range of    *)
(* frame intervals.  The frame rate asked for is a constant.               *)
(***************************************************************************)
EXTENDS Formats, Sequences

CONSTANTS
  Capabilities,   \* lists of capabilities: the devices there are
  FrameInterval   \* 1 / the frame rate asked for

DShowFourccs == {"RGB32", "I420", "YUY2", "BOTTOM_UP_RGB24", "RGB555", "YVU9"}

\* Steps of 0, which drivers report too, would keep checkFormat in its loop.
ASSUME DirectShowAssumption ==
  /\ Capabilities \subseteq
       Seq([min : Sizes, max : Sizes, step : Sizes, fourcc : DShowFourccs,
            minInterval : Nat, maxInterval : Nat]) \ {<< >>}
  /\ FrameInterval \in Nat

\* checkFormat.
CheckFormat(cap, f) ==
  /\ f.width \in cap.min.width .. cap.max.width
  /\ f.height \in cap.min.height .. cap.max.height
  /\ (f.width - cap.min.width) % cap.step.width = 0
  /\ (f.height - cap.min.height) % cap.step.height = 0
  /\ FrameInterval >= cap.minInterval
  /\ cap.fourcc = f.fourcc \/ ConversionFunc(cap.fourcc, f.fourcc) # NoConv

\* The four loops of findBestFormat.  checkFormat's last two results arrive the
\* other way round than its caller names them, so that a capability that is too
\* fast counts as the worse choice, not one that needs a conversion.
Rank(cap, f) ==
  (IF cap.fourcc # f.fourcc THEN 1 ELSE 0) + (IF FrameInterval > cap.maxInterval THEN 2 ELSE 0)

\* findBestFormat: the first capability of the best rank, as a set.
BestFormats(caps, f) ==
  LET sufficient == {i \in DOMAIN caps : CheckFormat(caps[i], f)} IN
  {i \in sufficient : \A j \in sufficient \ {i} :
     \/ Rank(caps[i], f) < Rank(caps[j], f)
     \/ Rank(caps[i], f) = Rank(caps[j], f) /\ i < j}

\* The comparison in findBestCapability's loop, where a width is compared with
\* a height.
Beats(cap, best, d) ==
  LET bestTooSmall == best.max.width < d.width \/ best.max.height < d.height
      largeEnough  == cap.max.width >= d.width /\ cap.max.height >= d.height
      smaller      == cap.max.width < best.max.width \/ cap.max.width < best.max.height
      bigger       == cap.max.width >= best.max.width /\ cap.max.height >= best.max.height
  IN
  \/ bestTooSmall /\ bigger /\ cap.max # best.max
  \/ largeEnough /\ smaller
  \/ /\ cap.max = best.max
     /\ \/ best.minInterval > FrameInterval /\ cap.minInterval < best.minInterval
        \/ cap.minInterval <= FrameInterval /\ cap.minInterval > best.minInterval

\* findBestCapability, as a set.
BestCapabilities(caps, d) ==
  LET best[n \in DOMAIN caps] ==
        IF n = 1 THEN 1 ELSE IF Beats(caps[n], caps[best[n - 1]], d) THEN n ELSE best[n - 1]
  IN {i \in DOMAIN caps : i = best[Len(caps)]}

-----------------------------------------------------------------------------
\* ScaleAndFlipImage: the column (or row, from the bottom) of the sample that
\* column (or row) i of the result is taken from; the tallies in closed form.
SourceIndex(i, in, out) ==
  ((i + 1) * in - (IF in >= out THEN in ELSE out) + out - 1) \div out

\* Bytes of the sample up to the last one read: the last row is the first one
\* copied.  And the lowest row read.
ScaleReads(in, out) ==
  IF in = out THEN 4 * in.width * in.height
  ELSE 4 * ((in.height - 1) * in.width + SourceIndex(out.width - 1, in.width, out.width) + 1)

ScaleLastRow(in, out) ==
  IF in = out THEN 0 ELSE in.height - SourceIndex(out.height - 1, in.height, out.height) - 1

\* Bytes written, and the size of buffer_.
ScaledSize(out) == 4 * out.width * out.height
=============================================================================
