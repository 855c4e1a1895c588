------------------------------- MODULE Formats ------------------------------
(***************************************************************************)
(* Image formats as src/conv.c and the converters know them: dimensions    *)
(* and a fourcc, the bytes an image occupies, which conversions exist and  *)
(* how many bytes a conversion or the removal of row padding writes.       *)
(***************************************************************************)
EXTENDS Integers

Fourccs == {"I420", "RGB24", "BOTTOM_UP_RGB24", "RGB32", "RGB555", "YUY2", "2VUY", "YVU9"}

NoFmt == [width |-> 0, height |-> 0, fourcc |-> "none"]
NoConv == <<"none", "none">>

Dim(f) == [width |-> f.width, height |-> f.height]
Fmt(d, f) == [width |-> d.width, height |-> d.height, fourcc |-> f]

\* A bare size is the dimensions of something; none is without an extent.
Sizes == [width : Nat \ {0}, height : Nat \ {0}]

conv_list ==
  {<<"I420", "RGB32">>, <<"YUY2", "RGB32">>, <<"RGB32", "I420">>, <<"YUY2", "I420">>,
   <<"I420", "YUY2">>, <<"RGB32", "YUY2">>, <<"2VUY", "YUY2">>, <<"2VUY", "I420">>,
   <<"RGB24", "RGB32">>, <<"BOTTOM_UP_RGB24", "RGB32">>, <<"YVU9", "I420">>}

ConversionFunc(src, dst) == IF <<src, dst>> \in conv_list THEN <<src, dst>> ELSE NoConv

\* conv_fmt_size_get: bytes of an image; it does not know YVU9.
FmtSizeGet(f) ==
  LET pixels == f.width * f.height IN
  CASE f.fourcc = "I420" -> (pixels * 3) \div 2
    [] f.fourcc \in {"RGB24", "BOTTOM_UP_RGB24"} -> pixels * 3
    [] f.fourcc = "RGB32" -> pixels * 4
    [] f.fourcc \in {"RGB555", "YUY2", "2VUY"} -> pixels * 2
    [] OTHER -> 0

\* Bytes of the destination up to the last one a converter writes.  The i420
\* writers place their planes at w*h and w*h + (w*h >> 2) and fill one chroma
\* byte for each whole 2x2 block; the packed writers stay within the rows.
ConvWrites(w, h, dst) ==
  CASE dst = "RGB32" -> 4 * w * h
    [] dst = "YUY2"  -> 2 * w * h
    [] OTHER         -> w * h + (w * h) \div 4 + (w \div 2) * (h \div 2)

\* destride_packed copies rows two at a time and drops an odd last one.
DestrideWrites(w, h, fourcc) ==
  (2 * (h \div 2)) * w * (IF fourcc = "RGB32" THEN 4 ELSE 2)
=============================================================================
