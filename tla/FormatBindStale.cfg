SPECIFICATION Spec
CONSTANTS
  Widths = {3}
  Heights = {2, 5}
  Backends = {"dshow"}
  Capabilities <- MCCapabilities
  FrameInterval = 4
INVARIANTS
  StartsRender
