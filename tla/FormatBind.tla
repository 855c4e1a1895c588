----------------------------- MODULE FormatBind -----------------------------
(***************************************************************************)
(* vidcap_format_bind of src/vidcap.c and the delivery of a frame by       *)
(* deliver_frame of src/sapi.c: which format the device produces, which    *)
(* the application was promised, and whether the two buffers between them  *)
(* are as large as what is written into them.                              *)
(*                                                                         *)
(* A bind replaces the native and nominal formats, the converter and the   *)
(* two buffers one after the other and gives up at the first failure,      *)
(* which leaves what it had replaced so far beside what it had not.  Only  *)
(* the application thread binds, and never while capturing, so a call is   *)
(* one step here; the races are in SourceContext.  A request that          *)
(* format_validate refuses changes nothing and is not a step; the device's *)
(* size limits and the framerate are left out.  A V4L driver grants the    *)
(* window it is asked for or refuses it (external).                        *)
(*                                                                         *)
(* Three backends are covered: V4L, whose device keeps the palette it had  *)
(* when it was acquired; QuickTime, which is asked for a pixel format and  *)
(* can leave padding at the end of each row; and DirectShow, which uses a  *)
(* native format of the device where one will do and otherwise has samples *)
(* converted to RGB32 and scales them itself.                              *)
(***************************************************************************)
EXTENDS DirectShowFormats

CONSTANTS
  Widths, Heights,  \* dimensions the application asks for, in pixels
  Backends          \* a subset of {"v4l", "qt", "dshow"}

ASSUME FormatBindAssumption ==
  /\ Widths \subseteq Nat \ {0} /\ Heights \subseteq Nat \ {0}
  /\ Backends \subseteq {"v4l", "qt", "dshow"}

VARIABLES
  backend,               \* the sapi the source belongs to, or "none"
  palette, window,       \* V4L: the driver's fourcc and frame dimensions
  dshow,                 \* DirectShow: see NoDShow
  src_state,
  fmt_native, fmt_nominal, fmt_conv_func,
  stride_free_buf, stride_free_buf_size,  \* bytes allocated (0: null), size
  fmt_conv_buf, fmt_conv_buf_size,
  blocks,                \* blocks allocated by the two buffers and not freed
  bound,                 \* history: the last bind succeeded
  delivered              \* the frame the application's callback is looking at

fmts == <<fmt_native, fmt_nominal, fmt_conv_func>>
bufs == <<stride_free_buf, stride_free_buf_size, fmt_conv_buf, fmt_conv_buf_size, blocks>>
device == <<backend, palette, window, dshow>>
vars == <<device, src_state, fmts, bufs, bound, delivered>>

-----------------------------------------------------------------------------
Dims == [width : Widths, height : Heights]
Fmts == [width : Widths, height : Heights, fourcc : Fourccs]
NoFrame == [width |-> 0]

\* The fields of DirectShowSource.  No media type: nativeMediaType_ is null, or
\* was freed when its bind failed.  rendered is what the sample grabber of the
\* graph was set up to deliver, while graphIsSetup_.
NoDShow ==
  [caps |-> << >>, mediaType |-> NoFmt, sufficient |-> TRUE,
   realSample |-> Dim(NoFmt), fauxSample |-> Dim(NoFmt),
   buffer |-> 0, bufferSize |-> 0, rendered |-> NoFmt]

DShowStates ==
  LET anySize == [width : Nat, height : Nat]
      anyFmt == [width : Nat, height : Nat, fourcc : Fourccs \cup {"none"}]
  IN [caps : Capabilities \cup {<< >>}, mediaType : anyFmt, sufficient : BOOLEAN,
      realSample : anySize, fauxSample : anySize, buffer : Nat, bufferSize : Nat,
      rendered : anyFmt]

-----------------------------------------------------------------------------
V4LPalettes == {"I420", "RGB24", "YUY2", "2VUY", "RGB32", "RGB555"}

\* Altered form, for HonouredOrNative: only the palette maps are consulted.
V4LValidate_mapsOnly(f) == f.fourcc \in V4LPalettes

\* source_format_validate of sapi_v4l.c with sapi_can_convert_native_to_nominal:
\* the native format is the one asked for, in the device's palette.
V4LValidate(f) ==
  /\ f.fourcc \in V4LPalettes
  /\ f.fourcc = palette \/ ConversionFunc(palette, f.fourcc) # NoConv

\* source_format_validate of sapi_qt.c, forBinding: any format will do.
NominalToNativeFourcc(f) == IF f \in {"RGB32", "YUY2", "2VUY"} THEN f ELSE "RGB32"

FormatValidate(f) == backend = "v4l" => V4LValidate(f)

\* The fourcc of the native format, as a set.
NativeFourccs(f) ==
  CASE backend = "v4l" -> {palette}
    [] backend = "qt"  -> {NominalToNativeFourcc(f.fourcc)}
    [] OTHER -> IF BestFormats(dshow.caps, f) = {} THEN {"RGB32"}
                ELSE {dshow.caps[i].fourcc : i \in BestFormats(dshow.caps, f)}

-----------------------------------------------------------------------------
(* DirectShowSource                                                         *)

\* findUsableFormat without and with the buffer: the sample will be converted to
\* RGB32 and scaled from the capability's largest size to the one asked for.
Usable(d, f, i) == [d EXCEPT !.sufficient = FALSE, !.realSample = d.caps[i].max, !.fauxSample = Dim(f)]

UsableForSampling(d, f, i) ==
  [Usable(d, f, i) EXCEPT !.mediaType = Fmt(d.caps[i].max, d.caps[i].fourcc),
                          !.buffer = ScaledSize(f), !.bufferSize = ScaledSize(f)]

\* Altered form, for FramesFit: a native format does not end the scaling that the
\* bind before it needed.
DShowBindFormat_scaling(f) ==
  \/ \E i \in BestFormats(dshow.caps, f) :
       dshow' = [dshow EXCEPT !.mediaType = Fmt(f, dshow.caps[i].fourcc)]
  \/ /\ BestFormats(dshow.caps, f) = {}
     /\ \E i \in BestCapabilities(dshow.caps, f) : dshow' = UsableForSampling(dshow, f, i)

\* bindFormat.
DShowBindFormat(f) ==
  \/ \E i \in BestFormats(dshow.caps, f) :
       dshow' = [dshow EXCEPT !.mediaType = Fmt(f, dshow.caps[i].fourcc), !.sufficient = TRUE]
  \/ /\ BestFormats(dshow.caps, f) = {}
     /\ \E i \in BestCapabilities(dshow.caps, f) : dshow' = UsableForSampling(dshow, f, i)

\* What validateFormat and bindFormat leave behind when they fail: the device
\* does not answer the one or the other, or there is no memory for buffer_.
DShowBindFails(f) ==
  \/ dshow' = [dshow EXCEPT !.sufficient = FALSE]
  \/ /\ BestFormats(dshow.caps, f) # {}
     /\ dshow' = [dshow EXCEPT !.sufficient = FALSE, !.mediaType = NoFmt]
  \/ /\ BestFormats(dshow.caps, f) = {}
     /\ \E i \in BestCapabilities(dshow.caps, f) :
          dshow' \in {[Usable(dshow, f, i) EXCEPT !.mediaType = NoFmt],
                     [UsableForSampling(dshow, f, i) EXCEPT !.mediaType = NoFmt, !.buffer = 0]}

\* What setupCapGraphFoo sets the sample grabber up for.
GrabberFormat == IF dshow.sufficient THEN dshow.mediaType ELSE Fmt(dshow.mediaType, "RGB32")

\* setupCapGraphFoo does nothing while graphIsSetup_.
SetupCapGraph ==
  /\ dshow.rendered # NoFmt \/ dshow.mediaType # NoFmt
  /\ dshow' = [dshow EXCEPT !.rendered = IF @ # NoFmt THEN @ ELSE GrabberFormat]

-----------------------------------------------------------------------------
(* Actions                                                                  *)

\* vidcap_src_acquire: a zeroed context; V4L reads the device's settings, a
\* DirectShow source is constructed.
SrcAcquire ==
  /\ src_state = "none"
  /\ backend' \in Backends
  /\ palette' \in IF backend' = "v4l" THEN V4LPalettes ELSE {"none"}
  /\ window' \in IF backend' = "v4l" THEN Dims ELSE {NoFmt}
  /\ dshow' \in IF backend' = "dshow" THEN {[NoDShow EXCEPT !.caps = c] : c \in Capabilities}
               ELSE {NoDShow}
  /\ src_state' = "src_acquired"
  /\ UNCHANGED <<fmts, bufs, bound, delivered>>

\* Lines 454-472: what every bind that reaches the backend has passed.
BindRequest(f) ==
  /\ src_state \in {"src_acquired", "src_bound"}
  /\ FormatValidate(f)

\* source_format_bind of sapi_v4l.c overwrites fmt_native first; the driver may
\* then refuse the picture, or the window that has been set in the meantime.
BindRefusedByDriver(f) ==
  /\ BindRequest(f)
  /\ backend = "v4l"
  /\ fmt_native' = Fmt(f, palette)
  /\ window' \in {window, Dim(f)}
  /\ bound' = FALSE /\ delivered' = NoFrame
  /\ UNCHANGED <<backend, palette, dshow, src_state, fmt_nominal, fmt_conv_func, bufs>>

\* A request DirectShow refuses is a step, since validateFormat has an effect.
BindRefusedByDShow(f) ==
  /\ BindRequest(f)
  /\ backend = "dshow"
  /\ DShowBindFails(f)
  /\ bound' = FALSE /\ delivered' = NoFrame
  /\ UNCHANGED <<backend, palette, window, src_state, fmts, bufs>>

\* Lines 475-489: the backend has accepted; formats and converter change and
\* the old stride buffer goes.
SetFormats(f) ==
  /\ BindRequest(f)
  /\ \E native \in NativeFourccs(f) :
       /\ fmt_native' = Fmt(f, native)
       /\ fmt_conv_func' = ConversionFunc(native, f.fourcc)
       /\ stride_free_buf_size' = FmtSizeGet(Fmt(f, native))
  /\ fmt_nominal' = f
  /\ window' = IF backend = "v4l" THEN Dim(f) ELSE window
  /\ IF backend = "dshow" THEN DShowBindFormat(f) ELSE UNCHANGED dshow
  /\ delivered' = NoFrame
  /\ UNCHANGED <<backend, palette>>

Freed(buf) == IF buf # 0 THEN 1 ELSE 0

\* Altered form, for BuffersAccounted: the pointer is kept after the free.
BindNoStrideBuf_kept(f) ==
  /\ SetFormats(f)
  /\ blocks' = blocks - Freed(stride_free_buf)
  /\ bound' = FALSE
  /\ UNCHANGED <<src_state, stride_free_buf, fmt_conv_buf, fmt_conv_buf_size>>

\* Lines 495-509: the native format has no size the library knows, or there is no
\* memory.  The conversion buffer is still the one of the last bind.
BindNoStrideBuf(f) ==
  /\ SetFormats(f)
  /\ blocks' = blocks - Freed(stride_free_buf)
  /\ stride_free_buf' = 0
  /\ bound' = FALSE
  /\ UNCHANGED <<src_state, fmt_conv_buf, fmt_conv_buf_size>>

\* Lines 511-515 free the old conversion buffer, lines 532-537 fail to get one.
BindNoConvBuf(f) ==
  /\ SetFormats(f) /\ stride_free_buf_size' # 0
  /\ fmt_conv_func' # NoConv
  /\ stride_free_buf' = stride_free_buf_size'
  /\ blocks' = blocks - Freed(stride_free_buf) + 1 - Freed(fmt_conv_buf)
  /\ fmt_conv_buf_size' = FmtSizeGet(f)
  /\ fmt_conv_buf' = 0
  /\ bound' = FALSE
  /\ UNCHANGED src_state

\* Without a converter fmt_conv_buf_size keeps its old value.
FormatBind(f) ==
  /\ SetFormats(f) /\ stride_free_buf_size' # 0
  /\ stride_free_buf' = stride_free_buf_size'
  /\ fmt_conv_buf_size' = IF fmt_conv_func' # NoConv THEN FmtSizeGet(f) ELSE fmt_conv_buf_size
  /\ fmt_conv_buf' = IF fmt_conv_func' # NoConv THEN fmt_conv_buf_size' ELSE 0
  /\ blocks' = blocks - Freed(stride_free_buf) + 1 - Freed(fmt_conv_buf) + Freed(fmt_conv_buf')
  /\ src_state' = "src_bound"
  /\ bound' = TRUE

CaptureStart ==
  /\ src_state = "src_bound"
  /\ IF backend = "dshow" THEN SetupCapGraph ELSE UNCHANGED dshow
  /\ src_state' = "src_capturing"
  /\ delivered' = NoFrame
  /\ UNCHANGED <<backend, palette, window, fmts, bufs, bound>>

\* DirectShow's graph is set up and refuses to run.
CaptureStartFails ==
  /\ src_state = "src_bound" /\ backend = "dshow"
  /\ SetupCapGraph
  /\ UNCHANGED <<backend, palette, window, src_state, fmts, bufs, bound, delivered>>

\* What the backend's thread hands over.  The V4L driver fills its window in the
\* palette; QuickTime's session is created for fmt_native; DirectShow passes on
\* the graph's sample, or the scaled one.
DeviceFrame ==
  CASE backend = "v4l" -> Fmt(window, palette)
    [] backend = "qt"  -> fmt_native
    [] OTHER -> IF dshow.sufficient THEN dshow.rendered ELSE Fmt(dshow.fauxSample, "RGB32")

\* BufferCB: the media type was not sufficient, and buffer_ is passed on.
Scales == backend = "dshow" /\ ~dshow.sufficient

DeviceFrameRoom == IF Scales THEN dshow.buffer ELSE FmtSizeGet(DeviceFrame)

DeviceFrameSize ==
  CASE Scales -> dshow.bufferSize
    [] backend = "dshow" /\ ~Scales -> FmtSizeGet(dshow.rendered)
    [] OTHER -> FmtSizeGet(fmt_native)

\* deliver_frame, lines 288-328: what the callback is handed, and what was read
\* and written on the way.
Frame(padded) ==
  LET w == fmt_native.width
      h == fmt_native.height
      converts == fmt_conv_func # NoConv
      scales == Scales /\ dshow.buffer # 0
  IN
  [width |-> w, height |-> h,
   fourcc |-> IF converts THEN fmt_conv_func[2] ELSE DeviceFrame.fourcc,
   size |-> IF converts THEN fmt_conv_buf_size
            ELSE IF padded THEN stride_free_buf_size ELSE DeviceFrameSize,
   sample |-> [need |-> IF scales THEN ScaleReads(dshow.realSample, dshow.fauxSample) ELSE 0,
               room |-> FmtSizeGet(dshow.rendered)],
   lastRow |-> IF scales THEN ScaleLastRow(dshow.realSample, dshow.fauxSample) ELSE 0,
   scale |-> [need |-> IF scales THEN ScaledSize(dshow.fauxSample) ELSE 0, room |-> dshow.buffer],
   source |-> [need |-> FmtSizeGet(fmt_native), room |-> DeviceFrameRoom],
   destride |-> [need |-> IF padded THEN DestrideWrites(w, h, fmt_native.fourcc) ELSE 0,
                 room |-> stride_free_buf],
   convert |-> [need |-> IF converts THEN ConvWrites(w, h, fmt_conv_func[2]) ELSE 0,
                room |-> fmt_conv_buf]]

\* Only QuickTime pads rows.
DeliverFrame(padded) ==
  /\ src_state = "src_capturing"
  /\ padded => backend = "qt"
  /\ delivered' = Frame(padded)
  /\ UNCHANGED <<device, src_state, fmts, bufs, bound>>

\* A stop takes DirectShow's graph down, unless the graph will not let go of the
\* sample grabber.
CaptureStop ==
  /\ src_state = "src_capturing"
  /\ dshow' \in {dshow, [dshow EXCEPT !.rendered = NoFmt]}
  /\ src_state' = "src_bound"
  /\ delivered' = NoFrame
  /\ UNCHANGED <<backend, palette, window, fmts, bufs, bound>>

\* vidcap_src_release frees both buffers and the context.
SrcRelease ==
  /\ src_state \in {"src_acquired", "src_bound"}
  /\ blocks' = blocks - Freed(stride_free_buf) - Freed(fmt_conv_buf)
  /\ src_state' = "none" /\ backend' = "none" /\ palette' = "none"
  /\ window' = NoFmt /\ dshow' = NoDShow
  /\ fmt_native' = NoFmt /\ fmt_nominal' = NoFmt /\ fmt_conv_func' = NoConv
  /\ stride_free_buf' = 0 /\ stride_free_buf_size' = 0
  /\ fmt_conv_buf' = 0 /\ fmt_conv_buf_size' = 0
  /\ bound' = FALSE /\ delivered' = NoFrame

Init ==
  /\ backend = "none" /\ palette = "none" /\ window = NoFmt /\ dshow = NoDShow
  /\ src_state = "none"
  /\ fmt_native = NoFmt /\ fmt_nominal = NoFmt /\ fmt_conv_func = NoConv
  /\ stride_free_buf = 0 /\ stride_free_buf_size = 0
  /\ fmt_conv_buf = 0 /\ fmt_conv_buf_size = 0
  /\ blocks = 0 /\ bound = FALSE /\ delivered = NoFrame

Next ==
  \/ SrcAcquire
  \/ \E f \in Fmts : \/ BindRefusedByDriver(f)
                     \/ BindRefusedByDShow(f)
                     \/ BindNoStrideBuf(f)
                     \/ BindNoConvBuf(f)
                     \/ FormatBind(f)
  \/ CaptureStart \/ CaptureStartFails
  \/ \E padded \in BOOLEAN : DeliverFrame(padded)
  \/ CaptureStop
  \/ SrcRelease

Spec == Init /\ [][Next]_vars

-----------------------------------------------------------------------------
(* Properties                                                               *)

\* Types; the two buffers are never more than two blocks, nor fewer than none.
TypeOK ==
  /\ backend \in {"none", "v4l", "qt", "dshow"}
  /\ palette \in V4LPalettes \cup {"none"}
  /\ window \in Dims \cup {NoFmt}
  /\ dshow \in DShowStates
  /\ src_state \in {"none", "src_acquired", "src_bound", "src_capturing"}
  /\ fmt_native \in Fmts \cup {NoFmt} /\ fmt_nominal \in Fmts \cup {NoFmt}
  /\ fmt_conv_func \in conv_list \cup {NoConv}
  /\ stride_free_buf \in Nat /\ stride_free_buf_size \in Nat
  /\ fmt_conv_buf \in Nat /\ fmt_conv_buf_size \in Nat
  /\ blocks \in 0..2
  /\ bound \in BOOLEAN

\* Every allocation of the two buffers is reachable from the context, whatever
\* the binds that failed half way: none leaks and none is freed twice.
BuffersAccounted == blocks = Freed(stride_free_buf) + Freed(fmt_conv_buf)

InRoom(access) == access.need <= access.room

\* The graph delivers what the last bind asked for.  Not after a start that
\* failed or a stop that failed: see StartsRender.
GraphIsCurrent == backend = "dshow" => dshow.rendered = GrabberFormat

\* After a bind that succeeded, also one that follows failed ones, delivering a
\* frame reads no more than the device or the scaling filled, and neither
\* scaling, nor taking the padding out, nor converting reads or writes past
\* the ends of its buffer.
FramesFit ==
  delivered # NoFrame /\ bound /\ GraphIsCurrent =>
    /\ InRoom(delivered.sample) /\ delivered.lastRow >= 0 /\ InRoom(delivered.scale)
    /\ InRoom(delivered.source) /\ InRoom(delivered.destride) /\ InRoom(delivered.convert)

DeliveredAs(f) ==
  Fmt(delivered, delivered.fourcc) = f /\ delivered.size = FmtSizeGet(f)

\* The application is handed the format it bound: dimensions, fourcc and number
\* of bytes.  When a format is bound "we may relax the rules, and be more flexible
\* about what can be accepted.  The quality in this latter case may suffer, but it
\* will still work" (sapi_qt.c:558-560), since "QuickTime supports all formats
\* within reason" and "Windows will do the same" (sapi.c:143-144).
NominalHonoured ==
  delivered # NoFrame /\ bound /\ GraphIsCurrent => DeliveredAs(fmt_nominal)

\* Nothing leads from the device's format to the one bound.
Unconverted == fmt_native.fourcc # fmt_nominal.fourcc /\ fmt_conv_func = NoConv

\* What does hold.  A frame that needs no conversion, or one there is, arrives as
\* it was bound.  Otherwise the callback gets the device's RGB32 image, whole,
\* under the name of the nominal format (sapi.c:313); that never happens with V4L
\* nor with I420, RGB32 or YUY2.
HonouredOrNative ==
  delivered # NoFrame /\ bound /\ GraphIsCurrent =>
    \/ ~Unconverted /\ DeliveredAs(fmt_nominal)
    \/ /\ Unconverted /\ DeliveredAs(fmt_native)
       /\ backend # "v4l" /\ fmt_native.fourcc = "RGB32"
       /\ fmt_nominal.fourcc \notin {"I420", "RGB32", "YUY2"}

\* Each start renders the graph anew: resetCapGraphFoo is called by a stop "to
\* force RenderStream() to validate setup before any start"
\* (DirectShowSource.cpp:441), "like after rebinding" (306).
StartsRender == src_state = "src_capturing" /\ bound => GraphIsCurrent

\* The converters' own requirement (conv_to_rgb.c:108, conv_to_i420.c:38,
\* conv_to_yuy2.c:36), whatever happened to the binds before.
ConvertersHaveRoom == delivered # NoFrame => InRoom(delivered.convert)
=============================================================================
