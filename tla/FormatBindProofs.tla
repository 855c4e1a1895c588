-------------------------- MODULE FormatBindProofs --------------------------
(***************************************************************************)
(* For every set of dimensions: binds that fail half way neither leak nor  *)
(* free twice, and after a bind that succeeded a frame fits the buffers it *)
(* passes through and is the one the application bound.                    *)
(*                                                                         *)
(* BoundInv says what a successful bind establishes and later steps keep;  *)
(* FrameInv says that the callback looks at a frame made from the fields   *)
(* as they are now.  The last section is about scaling by itself: the      *)
(* model's closed form is where the loops of the code arrive.              *)
(***************************************************************************)
EXTENDS FormatBind, TLAPS

\* Where DirectShow scales, the buffer is as large as what is promised and the
\* sample as large as the capability; otherwise it delivers the native format.
DShowBound ==
  IF dshow.sufficient
    THEN /\ dshow.mediaType = fmt_native
         /\ \/ fmt_native.fourcc = fmt_nominal.fourcc
            \/ ConversionFunc(fmt_native.fourcc, fmt_nominal.fourcc) # NoConv
    ELSE /\ fmt_native.fourcc = "RGB32"
         /\ dshow.realSample \in Sizes /\ Dim(dshow.mediaType) = dshow.realSample
         /\ dshow.fauxSample = Dim(fmt_nominal)
         /\ dshow.buffer = ScaledSize(fmt_nominal) /\ dshow.bufferSize = dshow.buffer

\* A successful bind leaves formats, converter and buffers in agreement.
BoundInv ==
  bound =>
    /\ src_state \in {"src_bound", "src_capturing"} /\ backend \in {"v4l", "qt", "dshow"}
    /\ fmt_nominal \in Fmts /\ fmt_native \in Fmts
    /\ Dim(fmt_native) = Dim(fmt_nominal)
    /\ fmt_conv_func = ConversionFunc(fmt_native.fourcc, fmt_nominal.fourcc)
    /\ stride_free_buf_size = FmtSizeGet(fmt_native)
    /\ stride_free_buf = stride_free_buf_size
    /\ fmt_conv_func # NoConv => /\ fmt_conv_buf_size = FmtSizeGet(fmt_nominal)
                                 /\ fmt_conv_buf = fmt_conv_buf_size
    /\ backend = "v4l" => /\ window = Dim(fmt_nominal) /\ fmt_native.fourcc = palette
                          /\ V4LValidate(fmt_nominal)
    /\ backend = "qt" => fmt_native.fourcc = NominalToNativeFourcc(fmt_nominal.fourcc)
    /\ backend = "dshow" => DShowBound

FrameInv ==
  delivered # NoFrame =>
    /\ src_state = "src_capturing"
    /\ \E padded \in BOOLEAN : (padded => backend = "qt") /\ delivered = Frame(padded)

\* Before the first acquire and after a release nothing is held.
UnheldInv ==
  /\ src_state = "none" => backend = "none"
  /\ src_state # "none" => backend \in {"v4l", "qt", "dshow"}
  /\ backend = "v4l" => palette \in V4LPalettes

BindInv == TypeOK /\ BuffersAccounted /\ UnheldInv /\ BoundInv

-----------------------------------------------------------------------------
(* Sizes                                                                    *)

\* An image the library can measure occupies at least a byte.
LEMMA AreaPositive ==
  ASSUME NEW w \in Nat \ {0}, NEW h \in Nat \ {0}
  PROVE  w * h \in Nat \ {0}
<1>1. w * h = (w - 1) * (h - 1) + (w - 1) + (h - 1) + 1
  OBVIOUS
<1>2. (w - 1) * (h - 1) \in Nat
  <2>1. \A a, b \in Nat : a * b \in Nat
    OBVIOUS
  <2> QED BY <2>1
<1> QED BY <1>1, <1>2

\* Native formats of both backends have a size the library knows.
LEMMA SizeOfFmt ==
  ASSUME NEW f \in Fmts
  PROVE  /\ FmtSizeGet(f) \in Nat
         /\ f.fourcc # "YVU9" => FmtSizeGet(f) # 0
<1> DEFINE p == f.width * f.height
<1>1. f.width \in Nat \ {0} /\ f.height \in Nat \ {0} /\ f.fourcc \in Fourccs
  BY FormatBindAssumption DEF Fmts
<1>2. p \in Nat \ {0}
  BY <1>1, AreaPositive
<1> HIDE DEF p
<1>3. (p * 3) \div 2 \in Nat \ {0} /\ p * 3 \in Nat \ {0} /\ p * 4 \in Nat \ {0} /\ p * 2 \in Nat \ {0}
  BY <1>2
<1>4. FmtSizeGet(f) = CASE f.fourcc = "I420" -> (p * 3) \div 2
    [] f.fourcc \in {"RGB24", "BOTTOM_UP_RGB24"} -> p * 3
    [] f.fourcc = "RGB32" -> p * 4
    [] f.fourcc \in {"RGB555", "YUY2", "2VUY"} -> p * 2
    [] OTHER -> 0
  BY DEF FmtSizeGet, p
<1> QED BY <1>1, <1>3, <1>4 DEF Fourccs

\* Halving before multiplying is no more than multiplying before quartering.
LEMMA BlocksBelowQuarter ==
  ASSUME NEW w \in Nat, NEW h \in Nat
  PROVE  /\ (w \div 2) * (h \div 2) \in Nat
         /\ (w \div 2) * (h \div 2) <= (w * h) \div 4
         /\ (2 * (h \div 2)) * w <= w * h
<1> DEFINE a == w \div 2
           b == h \div 2
           r == w % 2
           s == h % 2
<1>1. a \in Nat /\ b \in Nat /\ r \in {0, 1} /\ s \in {0, 1} /\ w = 2 * a + r /\ h = 2 * b + s
  OBVIOUS
<1> HIDE DEF a, b, r, s
<1>2. a * b \in Nat
  BY <1>1
<1>3. w * h = 4 * (a * b) + (2 * a) * s + (2 * b) * r + r * s
  BY <1>1
<1>4. (2 * a) * s \in Nat /\ (2 * b) * r \in Nat /\ r * s \in Nat
  BY <1>1
<1>5. w * h >= 4 * (a * b) /\ w * h \in Nat
  BY <1>2, <1>3, <1>4
<1>6. a * b <= (w * h) \div 4
  BY <1>2, <1>5
<1>7. (2 * b) * w <= w * h
  <2>1. w * h = (2 * b) * w + s * w
    BY <1>1
  <2>2. s * w \in Nat /\ (2 * b) * w \in Nat
    BY <1>1
  <2> QED BY <2>1, <2>2
<1> QED BY <1>2, <1>6, <1>7 DEF a, b

\* No converter writes more than the nominal format occupies.
LEMMA ConvWritesFit ==
  ASSUME NEW f \in Fmts, f.fourcc \in {"RGB32", "YUY2", "I420"}
  PROVE  ConvWrites(f.width, f.height, f.fourcc) <= FmtSizeGet(f)
<1> DEFINE w == f.width
           h == f.height
           p == w * h
<1>1. w \in Nat /\ h \in Nat
  BY FormatBindAssumption DEF Fmts
<1>2. p \in Nat /\ (w \div 2) * (h \div 2) \in Nat /\ (w \div 2) * (h \div 2) <= p \div 4
  <2>1. p \in Nat
    BY <1>1
  <2> QED BY <1>1, <2>1, BlocksBelowQuarter
<1>3. CASE f.fourcc = "RGB32"
  <2>1. ConvWrites(w, h, f.fourcc) = 4 * w * h
    BY <1>3 DEF ConvWrites
  <2>2. FmtSizeGet(f) = p * 4
    BY <1>3 DEF FmtSizeGet
  <2>3. 4 * w * h = p * 4
    BY <1>1
  <2> QED BY <1>2, <2>1, <2>2, <2>3
<1>4. CASE f.fourcc = "YUY2"
  <2>1. ConvWrites(w, h, f.fourcc) = 2 * w * h
    BY <1>4 DEF ConvWrites
  <2>2. FmtSizeGet(f) = p * 2
    BY <1>4 DEF FmtSizeGet
  <2>3. 2 * w * h = p * 2
    BY <1>1
  <2> QED BY <1>2, <2>1, <2>2, <2>3
<1>5. CASE f.fourcc = "I420"
  <2>1. ConvWrites(w, h, f.fourcc) = p + p \div 4 + (w \div 2) * (h \div 2)
    BY <1>5 DEF ConvWrites
  <2>2. FmtSizeGet(f) = (p * 3) \div 2
    BY <1>5 DEF FmtSizeGet
  <2> DEFINE q == (w \div 2) * (h \div 2)
  <2> HIDE DEF p, q
  <2>3. p + p \div 4 + q <= (p * 3) \div 2
    BY <1>2 DEF q
  <2> QED BY <2>1, <2>2, <2>3 DEF q, p
<1> QED BY <1>3, <1>4, <1>5

\* Taking the padding out of a packed image writes no more than its size.
LEMMA DestrideWritesFit ==
  ASSUME NEW f \in Fmts, f.fourcc \in {"RGB32", "YUY2", "2VUY"}
  PROVE  DestrideWrites(f.width, f.height, f.fourcc) <= FmtSizeGet(f)
<1> DEFINE w == f.width
           h == f.height
           rows == (2 * (h \div 2)) * w
           p == w * h
<1>1. w \in Nat /\ h \in Nat
  BY FormatBindAssumption DEF Fmts
<1>2. rows \in Nat /\ p \in Nat /\ rows <= p
  <2>1. rows \in Nat /\ p \in Nat
    <3>1. 2 * (h \div 2) \in Nat
      BY <1>1
    <3>2. \A a, b \in Nat : a * b \in Nat
      OBVIOUS
    <3> QED BY <1>1, <3>1, <3>2
  <2> QED BY <1>1, <2>1, BlocksBelowQuarter
<1>3. CASE f.fourcc = "RGB32"
  <2>1. DestrideWrites(w, h, f.fourcc) = rows * 4
    BY <1>3 DEF DestrideWrites
  <2>2. FmtSizeGet(f) = p * 4
    BY <1>3 DEF FmtSizeGet
  <2> HIDE DEF rows, p
  <2> QED BY <1>2, <2>1, <2>2 DEF w, h
<1>4. CASE f.fourcc \in {"YUY2", "2VUY"}
  <2>1. DestrideWrites(w, h, f.fourcc) = rows * 2
    BY <1>4 DEF DestrideWrites
  <2>2. FmtSizeGet(f) = p * 2
    BY <1>4 DEF FmtSizeGet
  <2> HIDE DEF rows, p
  <2> QED BY <1>2, <2>1, <2>2 DEF w, h
<1> QED BY <1>3, <1>4

-----------------------------------------------------------------------------
(* Scaling                                                                  *)

\* The last column of the result comes from a column the sample has.
LEMMA SourceIndexInRange ==
  ASSUME NEW in \in Nat \ {0}, NEW out \in Nat \ {0}
  PROVE  SourceIndex(out - 1, in, out) \in 0 .. in - 1
<1> DEFINE big == IF in >= out THEN in ELSE out
           p == in * out
           a == p - big + out - 1
<1>1. p \in Nat /\ p >= in /\ p >= out
  <2>1. p = in + in * (out - 1) /\ p = out + out * (in - 1)
    OBVIOUS
  <2>2. \A x, y \in Nat : x * y \in Nat
    OBVIOUS
  <2>3. out - 1 \in Nat /\ in - 1 \in Nat
    OBVIOUS
  <2>4. in * (out - 1) \in Nat /\ out * (in - 1) \in Nat
    BY <2>2, <2>3
  <2> HIDE DEF p
  <2> QED BY <2>1, <2>4
<1>2. SourceIndex(out - 1, in, out) = a \div out
  <2>1. ((out - 1) + 1) * in = p
    OBVIOUS
  <2> QED BY <2>1 DEF SourceIndex
<1>3. a \in Nat /\ a <= p - 1
  <2> HIDE DEF p
  <2> QED BY <1>1
<1> DEFINE q == a \div out
<1>4. q \in Nat /\ q * out <= a
  <2>1. a \in Nat /\ out \in Nat \ {0}
    BY <1>3
  <2> HIDE DEF a
  <2> QED BY <2>1
<1>5. q <= in - 1
  <2>1. SUFFICES ASSUME q >= in PROVE FALSE
    BY <1>4
  <2>2. q * out = p + (q - in) * out
    BY <1>4
  <2>3. (q - in) * out \in Nat
    <3>1. q - in \in Nat
      BY <1>4, <2>1
    <3>2. \A x, y \in Nat : x * y \in Nat
      OBVIOUS
    <3> QED BY <3>1, <3>2
  <2> HIDE DEF p, q, a
  <2> QED BY <1>1, <1>3, <1>4, <2>2, <2>3
<1> HIDE DEF q
<1> QED BY <1>2, <1>4, <1>5 DEF q

\* Scaling reads within the sample.
LEMMA ScaleReadsFit ==
  ASSUME NEW in \in Sizes, NEW out \in Sizes
  PROVE  /\ ScaleReads(in, out) <= FmtSizeGet(Fmt(in, "RGB32"))
         /\ ScaleReads(in, out) \in Nat
         /\ ScaleLastRow(in, out) >= 0
<1> DEFINE w == in.width
           h == in.height
           col == SourceIndex(out.width - 1, w, out.width)
           row == SourceIndex(out.height - 1, h, out.height)
           p == w * h
<1>1. w \in Nat \ {0} /\ h \in Nat \ {0} /\ out.width \in Nat \ {0} /\ out.height \in Nat \ {0}
  BY DEF Sizes
<1>2. col \in 0 .. w - 1 /\ row \in 0 .. h - 1
  BY <1>1, SourceIndexInRange
<1>3. FmtSizeGet(Fmt(in, "RGB32")) = p * 4
  BY DEF FmtSizeGet, Fmt
<1>4. p \in Nat /\ (h - 1) * w \in Nat /\ (h - 1) * w = p - w
  <2>1. h - 1 \in Nat /\ \A x, y \in Nat : x * y \in Nat
    BY <1>1
  <2> QED BY <1>1, <2>1
<1>5. CASE in = out
  <2>1. ScaleReads(in, out) = 4 * w * h /\ ScaleLastRow(in, out) = 0
    BY <1>5 DEF ScaleReads, ScaleLastRow
  <2>2. 4 * w * h = p * 4
    BY <1>1
  <2> HIDE DEF p
  <2> QED BY <1>3, <1>4, <2>1, <2>2
<1>6. CASE in # out
  <2>1. ScaleReads(in, out) = 4 * ((h - 1) * w + col + 1) /\ ScaleLastRow(in, out) = h - row - 1
    BY <1>6 DEF ScaleReads, ScaleLastRow
  <2> DEFINE rows == (h - 1) * w
  <2>2. rows \in Nat /\ rows = p - w
    BY <1>4
  <2>3. ScaleReads(in, out) = 4 * (rows + col + 1)
    BY <2>1
  <2> HIDE DEF p, rows, col, row
  <2> QED BY <1>1, <1>2, <1>3, <1>4, <2>1, <2>2, <2>3
<1> QED BY <1>5, <1>6

-----------------------------------------------------------------------------
(* Formats                                                                  *)

LEMMA Conversion ==
  ASSUME NEW src, NEW dst
  PROVE  /\ ConversionFunc(src, dst) \in conv_list \cup {NoConv}
         /\ ConversionFunc(src, dst) # NoConv =>
              ConversionFunc(src, dst)[2] = dst /\ dst \in {"RGB32", "YUY2", "I420"}
BY DEF ConversionFunc, conv_list, NoConv

LEMMA ElementOfSeq ==
  ASSUME NEW S, NEW s \in Seq(S), NEW i \in DOMAIN s
  PROVE  s[i] \in S
OBVIOUS

\* What is chosen is a capability of the device.
LEMMA ChosenCapability ==
  ASSUME TypeOK, NEW f \in Fmts,
         NEW i \in BestFormats(dshow.caps, f) \cup BestCapabilities(dshow.caps, f)
  PROVE  /\ dshow.caps[i].fourcc \in DShowFourccs
         /\ dshow.caps[i].max \in Sizes
<1>1. i \in DOMAIN dshow.caps
  BY DEF BestFormats, BestCapabilities
<1>2. dshow.caps \in Capabilities \cup {<< >>}
  BY DEF TypeOK, DShowStates
<1>3. dshow.caps \in Capabilities
  BY <1>1, <1>2
<1>4. dshow.caps \in Seq([min : Sizes, max : Sizes, step : Sizes, fourcc : DShowFourccs,
                          minInterval : Nat, maxInterval : Nat])
  BY <1>3, DirectShowAssumption
<1>5. dshow.caps[i] \in [min : Sizes, max : Sizes, step : Sizes, fourcc : DShowFourccs,
                         minInterval : Nat, maxInterval : Nat]
  BY <1>1, <1>4, ElementOfSeq
<1> QED BY <1>5

\* A capability findBestFormat chooses yields the nominal format.
LEMMA BestConverts ==
  ASSUME NEW f, NEW i \in BestFormats(dshow.caps, f)
  PROVE  \/ dshow.caps[i].fourcc = f.fourcc
         \/ ConversionFunc(dshow.caps[i].fourcc, f.fourcc) # NoConv
BY DEF BestFormats, CheckFormat

\* What validation lets through.
LEMMA NativeFmt ==
  ASSUME TypeOK, UnheldInv, NEW f \in Fmts, backend \in {"v4l", "qt", "dshow"},
         NEW n \in NativeFourccs(f)
  PROVE  /\ n \in Fourccs /\ Fmt(f, n) \in Fmts /\ Dim(Fmt(f, n)) = Dim(f)
         /\ backend = "v4l" => n = palette
         /\ backend = "qt" => n = NominalToNativeFourcc(f.fourcc)
<1>1. CASE backend = "v4l"
  BY <1>1 DEF UnheldInv, V4LPalettes, Fourccs, NativeFourccs, Fmt, Fmts, Dim
<1>2. CASE backend = "qt"
  BY <1>2 DEF NominalToNativeFourcc, Fourccs, NativeFourccs, Fmt, Fmts, Dim
<1>3. CASE backend = "dshow"
  <2>1. n \in {"RGB32"} \cup DShowFourccs
    BY <1>3, ChosenCapability DEF NativeFourccs
  <2> QED BY <1>3, <2>1 DEF DShowFourccs, Fourccs, Fmt, Fmts, Dim
<1> QED BY <1>1, <1>2, <1>3

\* The number of bytes of buffer_.
LEMMA ScaledSizeIsNat ==
  ASSUME NEW f \in Fmts
  PROVE  ScaledSize(f) \in Nat /\ ScaledSize(f) = FmtSizeGet(Fmt(f, "RGB32")) /\ Dim(f) \in Sizes
<1>1. f.width \in Nat \ {0} /\ f.height \in Nat \ {0}
  BY FormatBindAssumption DEF Fmts
<1>2. f.width * f.height \in Nat
  BY <1>1
<1>3. ScaledSize(f) = f.width * f.height * 4
  BY <1>1 DEF ScaledSize
<1>4. FmtSizeGet(Fmt(f, "RGB32")) = f.width * f.height * 4
  BY DEF FmtSizeGet, Fmt
<1>5. Dim(f) \in Sizes
  BY <1>1 DEF Dim, Sizes
<1> DEFINE p == f.width * f.height
<1> HIDE DEF p
<1>6. p \in Nat => p * 4 \in Nat
  OBVIOUS
<1> QED BY <1>2, <1>3, <1>4, <1>5, <1>6 DEF p

\* The choice is unique.
LEMMA BestUnique ==
  ASSUME TypeOK, NEW f, NEW i \in BestFormats(dshow.caps, f), NEW j \in BestFormats(dshow.caps, f)
  PROVE  i = j
<1>1. i \in DOMAIN dshow.caps /\ j \in DOMAIN dshow.caps
  BY DEF BestFormats
<1>2. dshow.caps \in Capabilities
  BY <1>1 DEF TypeOK, DShowStates
<1>3. i \in Nat /\ j \in Nat
  BY <1>1, <1>2, DirectShowAssumption
<1>4. \A c, g : Rank(c, g) \in Nat
  BY DEF Rank
<1>5. /\ i # j => \/ Rank(dshow.caps[i], f) < Rank(dshow.caps[j], f)
                  \/ Rank(dshow.caps[i], f) = Rank(dshow.caps[j], f) /\ i < j
      /\ i # j => \/ Rank(dshow.caps[j], f) < Rank(dshow.caps[i], f)
                  \/ Rank(dshow.caps[j], f) = Rank(dshow.caps[i], f) /\ j < i
  BY DEF BestFormats
<1>6. Rank(dshow.caps[i], f) \in Nat /\ Rank(dshow.caps[j], f) \in Nat
  BY <1>4
<1> QED BY <1>3, <1>5, <1>6

-----------------------------------------------------------------------------
(* The invariant                                                            *)

LEMMA BindInit == Init => BindInv
<1>1. ASSUME Init PROVE TypeOK
  <2>1. bound \in BOOLEAN
    BY <1>1 DEF Init
  <2>2. blocks \in 0..2 /\ stride_free_buf \in Nat /\ stride_free_buf_size \in Nat
        /\ fmt_conv_buf \in Nat /\ fmt_conv_buf_size \in Nat
    BY <1>1 DEF Init
  <2>3. NoDShow \in DShowStates
    BY DEF NoDShow, DShowStates, NoFmt, Dim
  <2> QED BY <1>1, <2>1, <2>2, <2>3 DEF Init, TypeOK
<1>2. Init => BuffersAccounted /\ UnheldInv
  BY DEF Init, BuffersAccounted, Freed, UnheldInv
<1>3. Init => BoundInv
  BY DEF Init, BoundInv
<1> QED BY <1>1, <1>2, <1>3 DEF BindInv

\* Every change of the DirectShow fields keeps their types.
LEMMA UsableTypes ==
  ASSUME TypeOK, NEW f \in Fmts, NEW i \in BestCapabilities(dshow.caps, f)
  PROVE  /\ Usable(dshow, f, i) \in DShowStates
         /\ UsableForSampling(dshow, f, i) \in DShowStates
         /\ [Usable(dshow, f, i) EXCEPT !.mediaType = NoFmt] \in DShowStates
         /\ [UsableForSampling(dshow, f, i) EXCEPT !.mediaType = NoFmt, !.buffer = 0] \in DShowStates
<1>1. dshow.caps[i].max \in [width : Nat, height : Nat] /\ dshow.caps[i].fourcc \in Fourccs
  BY ChosenCapability DEF Sizes, DShowFourccs, Fourccs
<1>2. Dim(f) \in [width : Nat, height : Nat] /\ ScaledSize(f) \in Nat
  BY ScaledSizeIsNat DEF Sizes
<1>3. Fmt(dshow.caps[i].max, dshow.caps[i].fourcc) \in
        [width : Nat, height : Nat, fourcc : Fourccs \cup {"none"}]
  BY <1>1 DEF Fmt
<1>4. NoFmt \in [width : Nat, height : Nat, fourcc : Fourccs \cup {"none"}]
  BY DEF NoFmt
<1>5. Usable(dshow, f, i) \in DShowStates
  BY <1>1, <1>2 DEF Usable, DShowStates, TypeOK
<1>6. UsableForSampling(dshow, f, i) \in DShowStates
  BY <1>2, <1>3, <1>5 DEF UsableForSampling, DShowStates
<1> QED BY <1>4, <1>5, <1>6 DEF DShowStates

LEMMA FmtTypes ==
  ASSUME NEW f \in Fmts
  PROVE  f \in [width : Nat, height : Nat, fourcc : Fourccs \cup {"none"}]
BY FormatBindAssumption DEF Fmts

LEMMA BindTypes ==
  ASSUME TypeOK, NEW f \in Fmts, DShowBindFormat(f) \/ DShowBindFails(f)
  PROVE  dshow' \in DShowStates
<1>1. ASSUME NEW i \in BestFormats(dshow.caps, f),
             dshow' = [dshow EXCEPT !.mediaType = Fmt(f, dshow.caps[i].fourcc), !.sufficient = TRUE]
      PROVE  dshow' \in DShowStates
  <2>1. dshow.caps[i].fourcc \in Fourccs
    BY ChosenCapability DEF DShowFourccs, Fourccs
  <2>2. Fmt(f, dshow.caps[i].fourcc) \in [width : Nat, height : Nat, fourcc : Fourccs \cup {"none"}]
    BY <2>1, FmtTypes DEF Fmt
  <2> QED BY <1>1, <2>2 DEF TypeOK, DShowStates
<1>2. NoFmt \in [width : Nat, height : Nat, fourcc : Fourccs \cup {"none"}]
  BY DEF NoFmt
<1>3. /\ [dshow EXCEPT !.sufficient = FALSE] \in DShowStates
      /\ [dshow EXCEPT !.sufficient = FALSE, !.mediaType = NoFmt] \in DShowStates
  BY <1>2 DEF TypeOK, DShowStates
<1>4. CASE DShowBindFormat(f)
  BY <1>1, <1>4, UsableTypes DEF DShowBindFormat
<1>5. CASE DShowBindFails(f)
  BY <1>3, <1>5, UsableTypes DEF DShowBindFails
<1> QED BY <1>4, <1>5

LEMMA SetupTypes ==
  ASSUME TypeOK, SetupCapGraph
  PROVE  /\ dshow' \in DShowStates
         /\ dshow' = [dshow EXCEPT !.rendered = dshow'.rendered]
<1>1. GrabberFormat \in [width : Nat, height : Nat, fourcc : Fourccs \cup {"none"}]
  BY DEF TypeOK, DShowStates, GrabberFormat, Fmt, Fourccs
<1> QED BY <1>1 DEF TypeOK, DShowStates, SetupCapGraph

\* What a bind the backend accepted has done before it comes to the buffers.
LEMMA FormatsSet ==
  ASSUME BindInv, NEW f \in Fmts, SetFormats(f)
  PROVE  /\ fmt_native' \in Fmts /\ fmt_nominal' = f /\ fmt_nominal' \in Fmts
         /\ Dim(fmt_native') = Dim(f)
         /\ fmt_conv_func' \in conv_list \cup {NoConv}
         /\ fmt_conv_func' = ConversionFunc(fmt_native'.fourcc, f.fourcc)
         /\ stride_free_buf_size' = FmtSizeGet(fmt_native')
         /\ stride_free_buf_size' \in Nat
         /\ FmtSizeGet(f) \in Nat
         /\ fmt_conv_func' # NoConv => FmtSizeGet(f) # 0
         /\ window' \in Dims \cup {NoFmt}
         /\ dshow' \in DShowStates
         /\ backend' = backend /\ palette' = palette
         /\ src_state \in {"src_acquired", "src_bound"} /\ backend \in {"v4l", "qt", "dshow"}
         /\ backend = "v4l" => /\ window' = Dim(f) /\ fmt_native'.fourcc = palette
                               /\ V4LValidate(f)
         /\ backend = "qt" => fmt_native'.fourcc = NominalToNativeFourcc(f.fourcc)
<1>1. src_state \in {"src_acquired", "src_bound"} /\ backend \in {"v4l", "qt", "dshow"}
      /\ (backend = "v4l" => V4LValidate(f))
  BY DEF SetFormats, BindRequest, BindInv, UnheldInv, FormatValidate
<1>2. PICK n \in NativeFourccs(f) : /\ fmt_native' = Fmt(f, n)
                                    /\ fmt_conv_func' = ConversionFunc(n, f.fourcc)
                                    /\ stride_free_buf_size' = FmtSizeGet(Fmt(f, n))
  BY DEF SetFormats
<1>3. /\ Fmt(f, n) \in Fmts /\ Dim(Fmt(f, n)) = Dim(f)
      /\ backend = "v4l" => n = palette
      /\ backend = "qt" => n = NominalToNativeFourcc(f.fourcc)
  BY <1>1, NativeFmt DEF BindInv
<1>4. FmtSizeGet(Fmt(f, n)) \in Nat
  BY <1>3, SizeOfFmt
<1>5. FmtSizeGet(f) \in Nat /\ (f.fourcc # "YVU9" => FmtSizeGet(f) # 0)
  BY SizeOfFmt
<1>6. Fmt(f, n).fourcc = n
  BY DEF Fmt
<1>7. /\ fmt_conv_func' \in conv_list \cup {NoConv}
      /\ fmt_conv_func' # NoConv => f.fourcc \in {"RGB32", "YUY2", "I420"}
  BY <1>2, Conversion
<1>8. /\ window' \in Dims \cup {NoFmt}
      /\ backend = "v4l" => window' = Dim(f)
  BY DEF SetFormats, BindInv, TypeOK, Fmts, Dims, Dim
<1>9. dshow' \in DShowStates
  BY BindTypes DEF SetFormats, BindInv, TypeOK
<1>10. fmt_nominal' = f /\ backend' = backend /\ palette' = palette
  BY DEF SetFormats
<1> QED BY <1>1, <1>2, <1>3, <1>4, <1>5, <1>6, <1>7, <1>8, <1>9, <1>10

\* And what DirectShow has done.
LEMMA DShowSet ==
  ASSUME BindInv, NEW f \in Fmts, SetFormats(f), backend = "dshow"
  PROVE  DShowBound'
<1>1. DShowBindFormat(f) /\ fmt_nominal' = f
  BY DEF SetFormats
<1>2. PICK n \in NativeFourccs(f) : fmt_native' = Fmt(f, n)
  BY DEF SetFormats
<1>3. dshow \in DShowStates /\ TypeOK
  BY DEF BindInv, TypeOK
<1>4. CASE BestFormats(dshow.caps, f) # {}
  <2>1. PICK i \in BestFormats(dshow.caps, f) :
          dshow' = [dshow EXCEPT !.mediaType = Fmt(f, dshow.caps[i].fourcc), !.sufficient = TRUE]
    BY <1>1, <1>4 DEF DShowBindFormat
  <2>2. PICK j \in BestFormats(dshow.caps, f) : n = dshow.caps[j].fourcc
    BY <1>2, <1>4 DEF NativeFourccs
  <2>3. fmt_native' = Fmt(f, dshow.caps[i].fourcc)
    BY <1>2, <1>3, <2>2, BestUnique
  <2>4. dshow'.sufficient /\ dshow'.mediaType = Fmt(f, dshow.caps[i].fourcc)
    BY <1>3, <2>1 DEF DShowStates
  <2>5. fmt_native'.fourcc = dshow.caps[i].fourcc
    BY <2>3 DEF Fmt
  <2>6. \/ fmt_native'.fourcc = f.fourcc
        \/ ConversionFunc(fmt_native'.fourcc, f.fourcc) # NoConv
    BY <2>5, BestConverts
  <2> QED BY <1>1, <2>3, <2>4, <2>6 DEF DShowBound
<1>5. CASE BestFormats(dshow.caps, f) = {}
  <2>1. PICK i \in BestCapabilities(dshow.caps, f) : dshow' = UsableForSampling(dshow, f, i)
    BY <1>1, <1>5 DEF DShowBindFormat
  <2>2. /\ ~dshow'.sufficient
        /\ dshow'.realSample = dshow.caps[i].max /\ dshow'.fauxSample = Dim(f)
        /\ dshow'.mediaType = Fmt(dshow.caps[i].max, dshow.caps[i].fourcc)
        /\ dshow'.buffer = ScaledSize(f) /\ dshow'.bufferSize = ScaledSize(f)
    BY <1>3, <2>1 DEF DShowStates, UsableForSampling, Usable
  <2>3. dshow.caps[i].max \in Sizes
    BY <1>3, ChosenCapability
  <2>4. Dim(dshow'.mediaType) = dshow'.realSample
    BY <2>2, <2>3 DEF Dim, Fmt, Sizes
  <2>5. fmt_native'.fourcc = "RGB32"
    BY <1>2, <1>5 DEF NativeFourccs, Fmt
  <2> QED BY <1>1, <2>2, <2>3, <2>4, <2>5 DEF DShowBound
<1> QED BY <1>4, <1>5

LEMMA BindNext == BindInv /\ [Next]_vars => BindInv'
<1> SUFFICES ASSUME BindInv, [Next]_vars PROVE BindInv'
  OBVIOUS
<1> USE DEF BindInv
<1>1. CASE SrcAcquire
  <2>1. dshow' \in DShowStates
    <3>1. NoDShow \in DShowStates
      BY DEF NoDShow, DShowStates, NoFmt, Dim
    <3>2. \A c \in Capabilities : [NoDShow EXCEPT !.caps = c] \in DShowStates
      BY <3>1 DEF DShowStates
    <3> QED BY <1>1, <3>1, <3>2 DEF SrcAcquire
  <2>2. TypeOK'
    BY <1>1, <2>1, FormatBindAssumption DEF SrcAcquire, TypeOK, fmts, bufs
  <2>3. UnheldInv' /\ BuffersAccounted'
    BY <1>1, FormatBindAssumption DEF SrcAcquire, UnheldInv, BuffersAccounted, Freed, bufs
  <2>4. bound' = FALSE
    BY <1>1 DEF SrcAcquire, TypeOK, BoundInv
  <2> QED BY <2>2, <2>3, <2>4 DEF BoundInv
<1>2. ASSUME NEW f \in Fmts, BindRefusedByDriver(f) PROVE BindInv'
  <2>1. backend = "v4l" /\ palette \in Fourccs
    BY <1>2 DEF BindRefusedByDriver, UnheldInv, V4LPalettes, Fourccs
  <2>2. Fmt(f, palette) \in Fmts /\ Dim(f) \in Dims
    BY <2>1 DEF Fmt, Dim, Fmts, Dims
  <2> QED BY <1>2, <2>1, <2>2 DEF BindRefusedByDriver, BindRequest, TypeOK, BuffersAccounted, Freed,
        UnheldInv, BoundInv, bufs
<1>3. ASSUME NEW f \in Fmts, BindRefusedByDShow(f) PROVE BindInv'
  <2>1. dshow' \in DShowStates
    BY <1>3, BindTypes DEF BindRefusedByDShow
  <2> QED BY <1>3, <2>1 DEF BindRefusedByDShow, BindRequest, TypeOK, BuffersAccounted, Freed,
        UnheldInv, BoundInv, fmts, bufs
<1>4. ASSUME NEW f \in Fmts, BindNoStrideBuf(f) PROVE BindInv'
  <2>1. SetFormats(f) /\ bound' = FALSE
    BY <1>4 DEF BindNoStrideBuf
  <2>2. BuffersAccounted' /\ blocks' \in 0..2
    BY <1>4, <2>1, FormatsSet DEF BindNoStrideBuf, TypeOK, BuffersAccounted, Freed
  <2>3. TypeOK'
    BY <1>4, <2>1, <2>2, FormatsSet DEF BindNoStrideBuf, TypeOK
  <2>4. UnheldInv'
    BY <1>4, <2>1, FormatsSet DEF BindNoStrideBuf, UnheldInv
  <2> QED BY <2>1, <2>2, <2>3, <2>4 DEF BoundInv
<1>5. ASSUME NEW f \in Fmts, BindNoConvBuf(f) PROVE BindInv'
  <2>1. SetFormats(f) /\ bound' = FALSE
    BY <1>5 DEF BindNoConvBuf
  <2>2. BuffersAccounted' /\ blocks' \in 0..2
    BY <1>5, <2>1, FormatsSet DEF BindNoConvBuf, TypeOK, BuffersAccounted, Freed
  <2>3. TypeOK'
    BY <1>5, <2>1, <2>2, FormatsSet DEF BindNoConvBuf, TypeOK
  <2>4. UnheldInv'
    BY <1>5, <2>1, FormatsSet DEF BindNoConvBuf, UnheldInv
  <2> QED BY <2>1, <2>2, <2>3, <2>4 DEF BoundInv
<1>6. ASSUME NEW f \in Fmts, FormatBind(f) PROVE BindInv'
  <2>1. SetFormats(f) /\ bound' = TRUE /\ src_state' = "src_bound"
    BY <1>6 DEF FormatBind
  <2>2. TypeOK' /\ BuffersAccounted'
    BY <1>6, <2>1, FormatsSet DEF FormatBind, TypeOK, BuffersAccounted, Freed
  <2>3. backend = "v4l" => V4LValidate(f)'
    BY <2>1, FormatsSet DEF V4LValidate
  <2>4. BoundInv'
    BY <1>6, <2>1, <2>3, FormatsSet, DShowSet DEF FormatBind, BoundInv
  <2> QED BY <2>1, <2>2, <2>4, FormatsSet DEF UnheldInv
<1>7. ASSUME UNCHANGED <<backend, palette, window, fmts, bufs, bound>>,
             dshow' \in DShowStates, dshow' = [dshow EXCEPT !.rendered = dshow'.rendered],
             src_state \in {"src_bound", "src_capturing"},
             src_state' \in {"src_bound", "src_capturing"}
      PROVE BindInv'
  <2> USE <1>7 DEF fmts, bufs
  <2>1. TypeOK'
    BY DEF TypeOK
  <2>2. BuffersAccounted' /\ UnheldInv'
    BY DEF BuffersAccounted, Freed, UnheldInv
  <2>3. DShowBound => DShowBound'
    <3>1. /\ dshow'.sufficient = dshow.sufficient /\ dshow'.mediaType = dshow.mediaType
          /\ dshow'.realSample = dshow.realSample /\ dshow'.fauxSample = dshow.fauxSample
          /\ dshow'.buffer = dshow.buffer /\ dshow'.bufferSize = dshow.bufferSize
      BY DEF TypeOK, DShowStates
    <3> QED BY <3>1 DEF DShowBound
  <2>4. BoundInv'
    BY <2>3 DEF BoundInv, V4LValidate
  <2> QED BY <2>1, <2>2, <2>4
<1>8. CASE CaptureStart \/ CaptureStartFails
  <2>1. backend = "dshow" => dshow' \in DShowStates /\ dshow' = [dshow EXCEPT !.rendered = dshow'.rendered]
    BY <1>8, SetupTypes DEF CaptureStart, CaptureStartFails
  <2>2. backend # "dshow" => dshow' \in DShowStates /\ dshow' = [dshow EXCEPT !.rendered = dshow'.rendered]
    BY <1>8 DEF CaptureStart, CaptureStartFails, TypeOK, DShowStates
  <2> QED BY <1>7, <1>8, <2>1, <2>2 DEF CaptureStart, CaptureStartFails
<1>9. CASE CaptureStop \/ \E padded \in BOOLEAN : DeliverFrame(padded)
  <2>1. NoFmt \in [width : Nat, height : Nat, fourcc : Fourccs \cup {"none"}]
    BY DEF NoFmt
  <2>2. dshow' \in DShowStates /\ dshow' = [dshow EXCEPT !.rendered = dshow'.rendered]
    BY <1>9, <2>1 DEF CaptureStop, DeliverFrame, device, TypeOK, DShowStates
  <2> QED BY <1>7, <1>9, <2>2 DEF CaptureStop, DeliverFrame, device
<1>10. CASE SrcRelease
  <2>1. bound' = FALSE /\ src_state' = "none" /\ backend' = "none"
    BY <1>10 DEF SrcRelease
  <2>2. BuffersAccounted' /\ blocks' \in 0..2
    BY <1>10 DEF SrcRelease, TypeOK, BuffersAccounted, Freed
  <2>3. dshow' \in DShowStates
    BY <1>10 DEF SrcRelease, NoDShow, DShowStates, NoFmt, Dim
  <2>4. TypeOK'
    BY <1>10, <2>2, <2>3 DEF SrcRelease, TypeOK
  <2> QED BY <2>1, <2>2, <2>4 DEF UnheldInv, BoundInv
<1>11. CASE UNCHANGED vars
  <2> USE <1>11 DEF vars, device, fmts, bufs
  <2>1. TypeOK'
    BY DEF TypeOK
  <2>2. BuffersAccounted' /\ UnheldInv'
    BY DEF BuffersAccounted, Freed, UnheldInv
  <2>3. BoundInv'
    BY DEF BoundInv, V4LValidate, DShowBound
  <2> QED BY <2>1, <2>2, <2>3
<1> QED BY <1>1, <1>2, <1>3, <1>4, <1>5, <1>6, <1>8, <1>9, <1>10, <1>11 DEF Next

LEMMA FrameInit == Init => FrameInv
BY DEF Init, FrameInv

\* A delivery makes a frame of the fields as they are; every other step takes
\* the frame away from the application first.
LEMMA FrameNext == FrameInv /\ [Next]_vars => FrameInv'
<1> SUFFICES ASSUME FrameInv, [Next]_vars PROVE FrameInv'
  OBVIOUS
<1> USE DEF Frame, DeviceFrame, DeviceFrameRoom, DeviceFrameSize, Scales, device, fmts, bufs
<1>1. CASE SrcAcquire
  BY <1>1 DEF SrcAcquire, FrameInv
<1>2. ASSUME NEW padded \in BOOLEAN, DeliverFrame(padded) PROVE FrameInv'
  <2>1. Frame(padded)' = Frame(padded)
    BY <1>2 DEF DeliverFrame
  <2> QED BY <1>2, <2>1 DEF DeliverFrame, FrameInv
<1>3. CASE \E f \in Fmts : \/ BindRefusedByDriver(f)
                           \/ BindRefusedByDShow(f)
                           \/ BindNoStrideBuf(f)
                           \/ BindNoConvBuf(f)
                           \/ FormatBind(f)
  BY <1>3 DEF BindRefusedByDriver, BindRefusedByDShow, BindNoStrideBuf, BindNoConvBuf, FormatBind,
     SetFormats, FrameInv
<1>4. CASE CaptureStart \/ CaptureStop \/ SrcRelease
  BY <1>4 DEF CaptureStart, CaptureStop, SrcRelease, FrameInv
<1>5. CASE CaptureStartFails
  BY <1>5 DEF CaptureStartFails, FrameInv
<1>6. CASE UNCHANGED vars
  <2>1. \A padded \in BOOLEAN : Frame(padded)' = Frame(padded)
    BY <1>6 DEF vars
  <2> QED BY <1>6, <2>1 DEF vars, FrameInv
<1> QED BY <1>1, <1>2, <1>3, <1>4, <1>5, <1>6 DEF Next

-----------------------------------------------------------------------------
(* Theorems                                                                 *)

LEMMA Invariant == Spec => [](BindInv /\ FrameInv)
BY BindInit, BindNext, FrameInit, FrameNext, PTL DEF Spec

\* The fields have their types and the two buffers are at most two blocks.
THEOREM TypeCorrect == Spec => []TypeOK
<1>1. BindInv /\ FrameInv => TypeOK
  BY DEF BindInv
<1> QED BY <1>1, Invariant, PTL

\* No sequence of binds, failed ones included, leaks a buffer or frees it twice.
THEOREM BuffersAccountedHolds == Spec => []BuffersAccounted
<1>1. BindInv /\ FrameInv => BuffersAccounted
  BY DEF BindInv
<1> QED BY <1>1, Invariant, PTL

\* What the device hands over, when a bind succeeded and the graph is current.
LEMMA DeviceDelivers ==
  ASSUME BindInv, bound, GraphIsCurrent
  PROVE  /\ DeviceFrame = fmt_native
         /\ DeviceFrameRoom = FmtSizeGet(fmt_native)
         /\ DeviceFrameSize = FmtSizeGet(fmt_native)
<1>1. /\ backend \in {"v4l", "qt", "dshow"} /\ fmt_native \in Fmts /\ fmt_nominal \in Fmts
      /\ Dim(fmt_native) = Dim(fmt_nominal)
      /\ backend = "v4l" => window = Dim(fmt_nominal) /\ fmt_native.fourcc = palette
      /\ backend = "dshow" => DShowBound
  BY DEF BindInv, BoundInv
<1>2. /\ fmt_native = Fmt(fmt_nominal, fmt_native.fourcc)
      /\ fmt_native = Fmt(Dim(fmt_nominal), fmt_native.fourcc)
  BY <1>1 DEF Fmts, Fmt, Dim
<1>3. CASE backend \in {"v4l", "qt"}
  BY <1>1, <1>2, <1>3 DEF DeviceFrame, DeviceFrameRoom, DeviceFrameSize, Scales
<1>4. CASE backend = "dshow" /\ dshow.sufficient
  <2>1. dshow.rendered = fmt_native
    BY <1>1, <1>4 DEF GraphIsCurrent, GrabberFormat, DShowBound
  <2> QED BY <1>4, <2>1 DEF DeviceFrame, DeviceFrameRoom, DeviceFrameSize, Scales
<1>5. CASE backend = "dshow" /\ ~dshow.sufficient
  <2>1. /\ fmt_native.fourcc = "RGB32" /\ dshow.fauxSample = Dim(fmt_nominal)
        /\ dshow.buffer = ScaledSize(fmt_nominal) /\ dshow.bufferSize = ScaledSize(fmt_nominal)
    BY <1>1, <1>5 DEF DShowBound
  <2>2. ScaledSize(fmt_nominal) = FmtSizeGet(fmt_native)
    BY <1>1, <1>2, <2>1, ScaledSizeIsNat
  <2>3. backend # "v4l" /\ backend # "qt" /\ Scales
    BY <1>5 DEF Scales
  <2>4. Fmt(dshow.fauxSample, "RGB32") = fmt_native
    BY <1>2, <2>1
  <2>5. DeviceFrame = fmt_native
    BY <1>5, <2>3, <2>4 DEF DeviceFrame
  <2>6. DeviceFrameRoom = FmtSizeGet(fmt_native)
    BY <2>1, <2>2, <2>3 DEF DeviceFrameRoom
  <2>7. DeviceFrameSize = FmtSizeGet(fmt_native)
    BY <2>1, <2>2, <2>3 DEF DeviceFrameSize
  <2> QED BY <2>5, <2>6, <2>7
<1> QED BY <1>1, <1>3, <1>4, <1>5

\* Where it scales, it stays within the sample and the buffer.
LEMMA ScalingFits ==
  ASSUME BindInv, bound, GraphIsCurrent, Scales
  PROVE  /\ ScaleReads(dshow.realSample, dshow.fauxSample) <= FmtSizeGet(dshow.rendered)
         /\ ScaleLastRow(dshow.realSample, dshow.fauxSample) >= 0
         /\ ScaledSize(dshow.fauxSample) = dshow.buffer /\ dshow.buffer \in Nat
<1>1. /\ backend = "dshow" /\ fmt_nominal \in Fmts /\ dshow.realSample \in Sizes
      /\ Dim(dshow.mediaType) = dshow.realSample /\ dshow.fauxSample = Dim(fmt_nominal)
      /\ dshow.buffer = ScaledSize(fmt_nominal)
      /\ dshow.rendered = Fmt(dshow.mediaType, "RGB32")
  BY DEF BindInv, BoundInv, DShowBound, Scales, GraphIsCurrent, GrabberFormat
<1>2. dshow.rendered = Fmt(dshow.realSample, "RGB32")
  BY <1>1 DEF Fmt, Dim
<1>3. dshow.fauxSample \in Sizes /\ ScaledSize(fmt_nominal) \in Nat
  BY <1>1, ScaledSizeIsNat
<1>4. ScaledSize(Dim(fmt_nominal)) = ScaledSize(fmt_nominal)
  BY DEF ScaledSize, Dim
<1> QED BY <1>1, <1>2, <1>3, <1>4, ScaleReadsFit

\* After a bind that succeeded, frames of any dimensions fit their buffers.
THEOREM FramesFitHolds == Spec => []FramesFit
<1>1. ASSUME BindInv, FrameInv, delivered # NoFrame, bound, GraphIsCurrent
      PROVE  /\ InRoom(delivered.sample) /\ delivered.lastRow >= 0 /\ InRoom(delivered.scale)
             /\ InRoom(delivered.source) /\ InRoom(delivered.destride) /\ InRoom(delivered.convert)
  <2> DEFINE f == fmt_nominal
             w == fmt_native.width
             h == fmt_native.height
             converts == fmt_conv_func # NoConv
             scales == Scales /\ dshow.buffer # 0
  <2>1. /\ f \in Fmts /\ fmt_native \in Fmts /\ Dim(fmt_native) = Dim(f)
        /\ fmt_conv_func = ConversionFunc(fmt_native.fourcc, f.fourcc)
        /\ stride_free_buf = FmtSizeGet(fmt_native)
        /\ fmt_conv_func # NoConv => fmt_conv_buf = FmtSizeGet(f)
        /\ backend = "qt" => fmt_native.fourcc \in {"RGB32", "YUY2", "2VUY"}
    BY <1>1 DEF BindInv, BoundInv, NominalToNativeFourcc
  <2>2. w = f.width /\ h = f.height
    BY <2>1 DEF Dim
  <2>3. FmtSizeGet(fmt_native) \in Nat /\ FmtSizeGet(f) \in Nat
    BY <2>1, SizeOfFmt
  <2>4. PICK padded \in BOOLEAN : (padded => backend = "qt") /\ delivered = Frame(padded)
    BY <1>1 DEF FrameInv
  <2>5. InRoom(delivered.source)
    <3>1. delivered.source = [need |-> FmtSizeGet(fmt_native), room |-> DeviceFrameRoom]
      BY <2>4 DEF Frame
    <3> QED BY <1>1, <2>3, <3>1, DeviceDelivers DEF InRoom
  <2>6. InRoom(delivered.destride)
    <3>1. delivered.destride = [need |-> IF padded THEN DestrideWrites(w, h, fmt_native.fourcc) ELSE 0,
                                room |-> stride_free_buf]
      BY <2>4 DEF Frame
    <3>2. padded => DestrideWrites(w, h, fmt_native.fourcc) <= FmtSizeGet(fmt_native)
      BY <2>1, <2>4, DestrideWritesFit
    <3> QED BY <2>1, <2>3, <3>1, <3>2 DEF InRoom
  <2>7. InRoom(delivered.convert)
    <3>1. delivered.convert = [need |-> IF converts THEN ConvWrites(w, h, fmt_conv_func[2]) ELSE 0,
                               room |-> fmt_conv_buf]
      BY <2>4 DEF Frame
    <3>2. converts => ConvWrites(w, h, fmt_conv_func[2]) <= FmtSizeGet(f)
      BY <2>1, <2>2, Conversion, ConvWritesFit
    <3>3. fmt_conv_buf \in Nat
      BY <1>1 DEF BindInv, TypeOK
    <3> QED BY <2>1, <2>3, <3>1, <3>2, <3>3 DEF InRoom
  <2>8. /\ delivered.sample = [need |-> IF scales THEN ScaleReads(dshow.realSample, dshow.fauxSample) ELSE 0,
                               room |-> FmtSizeGet(dshow.rendered)]
        /\ delivered.lastRow = IF scales THEN ScaleLastRow(dshow.realSample, dshow.fauxSample) ELSE 0
        /\ delivered.scale = [need |-> IF scales THEN ScaledSize(dshow.fauxSample) ELSE 0,
                              room |-> dshow.buffer]
    BY <2>4 DEF Frame
  <2>9. dshow.buffer \in Nat /\ 0 <= FmtSizeGet(dshow.rendered)
    <3>1. dshow.buffer \in Nat /\ dshow.rendered.width \in Nat /\ dshow.rendered.height \in Nat
      BY <1>1 DEF BindInv, TypeOK, DShowStates
    <3>2. \A x, y \in Nat : x * y \in Nat
      OBVIOUS
    <3> DEFINE p == dshow.rendered.width * dshow.rendered.height
    <3>3. p \in Nat
      BY <3>1, <3>2
    <3>4. FmtSizeGet(dshow.rendered) \in {(p * 3) \div 2, p * 3, p * 4, p * 2, 0}
      BY DEF FmtSizeGet
    <3> HIDE DEF p
    <3>5. \A s \in {(p * 3) \div 2, p * 3, p * 4, p * 2, 0} : 0 <= s
      BY <3>3
    <3> QED BY <3>1, <3>4, <3>5
  <2>10. InRoom(delivered.sample) /\ delivered.lastRow >= 0 /\ InRoom(delivered.scale)
    <3>1. CASE scales
      BY <1>1, <2>8, <2>9, <3>1, ScalingFits DEF InRoom
    <3>2. CASE ~scales
      BY <2>8, <2>9, <3>2 DEF InRoom
    <3> QED BY <3>1, <3>2
  <2> QED BY <2>5, <2>6, <2>7, <2>10
<1>2. BindInv /\ FrameInv => FramesFit
  BY <1>1 DEF FramesFit
<1> QED BY <1>2, Invariant, PTL

\* The application is handed what it bound, or where no conversion leads to that
\* the device's whole image.
THEOREM HonouredOrNativeHolds == Spec => []HonouredOrNative
<1>1. ASSUME BindInv, FrameInv, delivered # NoFrame, bound, GraphIsCurrent
      PROVE  \/ ~Unconverted /\ DeliveredAs(fmt_nominal)
             \/ /\ Unconverted /\ DeliveredAs(fmt_native)
                /\ backend # "v4l" /\ fmt_native.fourcc = "RGB32"
                /\ fmt_nominal.fourcc \notin {"I420", "RGB32", "YUY2"}
  <2> DEFINE f == fmt_nominal
             converts == fmt_conv_func # NoConv
  <2>1. /\ f \in Fmts /\ fmt_native \in Fmts /\ Dim(fmt_native) = Dim(f)
        /\ backend \in {"v4l", "qt", "dshow"}
        /\ fmt_conv_func = ConversionFunc(fmt_native.fourcc, f.fourcc)
        /\ stride_free_buf_size = FmtSizeGet(fmt_native)
        /\ fmt_conv_func # NoConv => fmt_conv_buf_size = FmtSizeGet(f)
        /\ backend = "v4l" => fmt_native.fourcc = palette /\ V4LValidate(f)
        /\ backend = "qt" => fmt_native.fourcc = NominalToNativeFourcc(f.fourcc)
        /\ backend = "dshow" => DShowBound
    BY <1>1 DEF BindInv, BoundInv
  <2>2. Unconverted => /\ backend # "v4l" /\ fmt_native.fourcc = "RGB32"
                       /\ f.fourcc \notin {"I420", "RGB32", "YUY2"}
    <3> SUFFICES ASSUME Unconverted
                 PROVE  backend # "v4l" /\ fmt_native.fourcc = "RGB32"
      BY <2>1 DEF Unconverted, ConversionFunc, conv_list, NoConv
    <3>1. backend # "v4l"
      BY <2>1 DEF Unconverted, V4LValidate
    <3>2. backend = "qt" => fmt_native.fourcc = "RGB32"
      BY <2>1 DEF Unconverted, NominalToNativeFourcc
    <3>3. backend = "dshow" => fmt_native.fourcc = "RGB32"
      BY <2>1 DEF Unconverted, DShowBound
    <3> QED BY <2>1, <3>1, <3>2, <3>3
  <2>3. PICK padded \in BOOLEAN : delivered = Frame(padded)
    BY <1>1 DEF FrameInv
  <2>4. /\ delivered.width = fmt_native.width /\ delivered.height = fmt_native.height
        /\ delivered.fourcc = IF converts THEN fmt_conv_func[2] ELSE fmt_native.fourcc
        /\ delivered.size = IF converts THEN fmt_conv_buf_size
                            ELSE IF padded THEN stride_free_buf_size ELSE FmtSizeGet(fmt_native)
    BY <1>1, <2>3, DeviceDelivers DEF Frame
  <2>5. CASE converts
    <3>1. delivered.width = f.width /\ delivered.height = f.height /\ delivered.fourcc = f.fourcc
      BY <2>1, <2>4, <2>5, Conversion DEF Dim
    <3>2. DeliveredAs(f) /\ ~Unconverted
      BY <2>1, <2>4, <2>5, <3>1 DEF DeliveredAs, Unconverted, Fmt, Fmts
    <3> QED BY <3>2
  <2>6. CASE ~converts
    <3>1. DeliveredAs(fmt_native)
      BY <2>1, <2>4, <2>6 DEF DeliveredAs, Fmt, Fmts
    <3>2. ~Unconverted => fmt_native = f
      BY <2>1, <2>6 DEF Unconverted, Fmts, Dim
    <3> QED BY <2>2, <3>1, <3>2
  <2> QED BY <2>5, <2>6
<1>2. BindInv /\ FrameInv => HonouredOrNative
  BY <1>1 DEF HonouredOrNative
<1> QED BY <1>2, Invariant, PTL

-----------------------------------------------------------------------------
(* The scaling of ScaleAndFlipImage, whose loops the model has in closed    *)
(* form.                                                                    *)

Larger(in, out) == IF in >= out THEN in ELSE out

\* widthTally (or heightTally) when its while loop tests it in column i with
\* the source index at k: it began at the larger of the two, and has grown by
\* out for each step of the index and shrunk by in for each column done.
Tally(i, k, in, out) == Larger(in, out) + k * out - i * in

\* A quotient by its bounds.
LEMMA SourceIndexBounds ==
  ASSUME NEW i \in Nat, NEW in \in Nat \ {0}, NEW out \in Nat \ {0}
  PROVE  /\ SourceIndex(i, in, out) \in Nat /\ i * in \in Nat
         /\ SourceIndex(i, in, out) * out \in Nat
         /\ SourceIndex(i, in, out) * out <= i * in + in - Larger(in, out) + out - 1
         /\ i * in + in - Larger(in, out) < SourceIndex(i, in, out) * out + 1
<1> DEFINE p == i * in
           a == p + in - Larger(in, out) + out - 1
           q == a \div out
<1>1. p \in Nat /\ (i + 1) * in = p + in
  <2>1. \A x, y \in Nat : x * y \in Nat
    OBVIOUS
  <2> QED BY <2>1
<1>2. a \in Nat
  <2> HIDE DEF p
  <2> QED BY <1>1 DEF Larger
<1>3. SourceIndex(i, in, out) = q
  <2> HIDE DEF p
  <2> QED BY <1>1 DEF SourceIndex, Larger
<1>4. q \in Nat /\ q * out <= a /\ a < (q + 1) * out
  <2> HIDE DEF a
  <2> QED BY <1>2
<1>5. q * out \in Nat /\ (q + 1) * out = q * out + out
  <2>1. \A x, y \in Nat : x * y \in Nat /\ (x + 1) * y = x * y + y
    OBVIOUS
  <2> HIDE DEF q
  <2> QED BY <1>4, <2>1
<1> DEFINE r == q * out
<1>6. r \in Nat /\ r <= a /\ a < r + out
  BY <1>4, <1>5
<1>7. r <= p + in - Larger(in, out) + out - 1 /\ p + in - Larger(in, out) < r + 1
  <2> HIDE DEF p, r
  <2> QED BY <1>1, <1>6 DEF Larger
<1> HIDE DEF q
<1> QED BY <1>1, <1>3, <1>4, <1>7

\* The while loop of a column ends at the closed form and not before: there the
\* tally has reached in, at every smaller index it has not.  And it starts below
\* it, at the index of the column before.
THEOREM TalliesAgree ==
  ASSUME NEW i \in Nat, NEW in \in Nat \ {0}, NEW out \in Nat \ {0}
  PROVE  /\ Tally(i, SourceIndex(i, in, out), in, out) >= in
         /\ \A k \in Nat : k < SourceIndex(i, in, out) => Tally(i, k, in, out) < in
         /\ SourceIndex(0, in, out) = 0
         /\ SourceIndex(i, in, out) <= SourceIndex(i + 1, in, out)
<1> DEFINE s == SourceIndex(i, in, out)
           t == SourceIndex(i + 1, in, out)
           p == i * in
           big == Larger(in, out)
<1>1. /\ s \in Nat /\ p \in Nat /\ s * out \in Nat
      /\ s * out <= p + in - big + out - 1 /\ p + in - big < s * out + 1
  BY SourceIndexBounds
<1>2. big \in Nat
  BY DEF Larger
<1>3. Tally(i, s, in, out) >= in
  <2> HIDE DEF p, s, big
  <2>1. Tally(i, s, in, out) = big + s * out - p
    BY DEF Tally, p, big
  <2> QED BY <1>1, <1>2, <2>1
<1>4. ASSUME NEW k \in Nat, k < s
      PROVE  Tally(i, k, in, out) < in
  <2> HIDE DEF p, s, big
  <2>1. Tally(i, k, in, out) = big + k * out - p
    BY DEF Tally, p, big
  <2>2. s * out = k * out + (s - k) * out /\ (s - k) * out >= out /\ k * out \in Nat
    <3>1. \A x, y \in Nat : x * y \in Nat
      OBVIOUS
    <3>2. s - k - 1 \in Nat
      BY <1>1, <1>4
    <3>3. s * out = k * out + out + (s - k - 1) * out /\ (s - k) * out = out + (s - k - 1) * out
      BY <1>1
    <3>4. (s - k - 1) * out \in Nat /\ k * out \in Nat
      BY <3>1, <3>2
    <3> QED BY <1>1, <3>3, <3>4
  <2> QED BY <1>1, <1>2, <2>1, <2>2
<1>5. SourceIndex(0, in, out) = 0
  <2> DEFINE z == SourceIndex(0, in, out)
  <2>1. z \in Nat /\ z * out <= 0 * in + in - big + out - 1
    BY SourceIndexBounds
  <2> HIDE DEF z
  <2>2. z * out < out
    BY <2>1 DEF Larger
  <2>3. z > 0 => z * out >= out
    BY <2>1
  <2> QED BY <2>1, <2>2, <2>3 DEF z
<1>6. s <= t
  <2>1. /\ t \in Nat /\ (i + 1) * in \in Nat /\ t * out \in Nat
        /\ (i + 1) * in + in - big < t * out + 1
    BY SourceIndexBounds
  <2>2. (i + 1) * in = p + in
    OBVIOUS
  <2> HIDE DEF p, s, t, big
  <2>3. t * out + out > s * out
    BY <1>1, <1>2, <2>1, <2>2
  <2>4. t < s => s * out = t * out + out + (s - t - 1) * out /\ (s - t - 1) * out \in Nat
    <3>1. \A x, y \in Nat : x * y \in Nat
      OBVIOUS
    <3>2. t < s => s - t - 1 \in Nat
      BY <1>1, <2>1
    <3> QED BY <1>1, <2>1, <3>1, <3>2
  <2> QED BY <1>1, <2>1, <2>3, <2>4
<1> QED BY <1>3, <1>4, <1>5, <1>6

\* Nearest neighbour: enlarging an image repeats columns but skips none, and
\* reducing it skips columns but repeats none.
THEOREM ScalingKeepsOrder ==
  ASSUME NEW i \in Nat, NEW in \in Nat \ {0}, NEW out \in Nat \ {0}
  PROVE  /\ in <= out => SourceIndex(i + 1, in, out) - SourceIndex(i, in, out) \in {0, 1}
         /\ in >= out => SourceIndex(i + 1, in, out) > SourceIndex(i, in, out)
<1> DEFINE s == SourceIndex(i, in, out)
           t == SourceIndex(i + 1, in, out)
           p == i * in
           big == Larger(in, out)
<1>1. /\ s \in Nat /\ p \in Nat /\ s * out \in Nat
      /\ s * out <= p + in - big + out - 1 /\ p + in - big < s * out + 1
  BY SourceIndexBounds
<1>2. /\ t \in Nat /\ t * out \in Nat
      /\ t * out <= (i + 1) * in + in - big + out - 1 /\ (i + 1) * in + in - big < t * out + 1
  BY SourceIndexBounds
<1>3. (i + 1) * in = p + in /\ big \in Nat
  BY DEF Larger
<1>4. s <= t
  BY TalliesAgree
<1>5. \A d \in Nat : t = s + d => t * out = s * out + d * out
  BY <1>1
<1> HIDE DEF p, s, t, big
<1>6. ASSUME in <= out PROVE t - s \in {0, 1}
  <2>1. t * out < s * out + 2 * out
    BY <1>1, <1>2, <1>3, <1>6
  <2>2. t - s \in Nat /\ t = s + (t - s)
    BY <1>1, <1>2, <1>4
  <2>3. (t - s) * out < 2 * out
    BY <1>1, <1>5, <2>1, <2>2
  <2> DEFINE d == t - s
  <2>4. d \in Nat /\ d * out < 2 * out
    BY <2>2, <2>3
  <2> HIDE DEF d
  <2>5. d < 2
    BY <2>4
  <2> QED BY <2>4, <2>5 DEF d
<1>7. ASSUME in >= out PROVE t > s
  <2>1. t * out > s * out
    BY <1>1, <1>2, <1>3, <1>7
  <2> QED BY <1>1, <1>2, <1>4, <2>1
<1> QED BY <1>6, <1>7 DEF s, t
=============================================================================
