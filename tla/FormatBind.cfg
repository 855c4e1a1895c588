SPECIFICATION Spec
CONSTANTS
  Widths = {3}
  Heights = {2, 5}
  Backends = {"v4l", "qt", "dshow"}
  Capabilities <- MCCapabilities
  FrameInterval = 4
INVARIANTS
  TypeOK
  BuffersAccounted
  FramesFit
  HonouredOrNative
