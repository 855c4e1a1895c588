---------------------------- MODULE MCFormatBind ----------------------------
(***************************************************************************)
(* DirectShow devices for the runs of FormatBind.                          *)
(***************************************************************************)
EXTENDS FormatBind

Size(w, h) == [width |-> w, height |-> h]
Cap(min, max, fourcc, fastest, slowest) ==
  [min |-> min, max |-> max, step |-> Size(1, 3), fourcc |-> fourcc,
   minInterval |-> fastest, maxInterval |-> slowest]

\* A camera with a size and rate too many in YUY2, one size in I420 and one the
\* library cannot measure.
Camera ==
  <<Cap(Size(3, 2), Size(4, 5), "YUY2", 1, 3), Cap(Size(4, 5), Size(4, 5), "I420", 2, 5),
    Cap(Size(3, 2), Size(3, 2), "YVU9", 4, 9)>>

\* No size or rate the application asks for: one capability too small, one too
\* large, one that is neither and one too slow.
Odd ==
  <<Cap(Size(2, 4), Size(2, 4), "BOTTOM_UP_RGB24", 1, 5), Cap(Size(7, 6), Size(7, 6), "RGB555", 4, 5),
    Cap(Size(5, 3), Size(5, 3), "RGB32", 1, 5), Cap(Size(3, 2), Size(7, 6), "YUY2", 5, 9)>>

MCCapabilities == {Camera, Odd}
=============================================================================
