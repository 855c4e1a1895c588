SPECIFICATION Spec
CONSTANTS
  Widths = {4}
  Heights = {2, 4}
  Backends = {"v4l"}
  Capabilities = {}
  FrameInterval = 4
INVARIANTS
  ConvertersHaveRoom
