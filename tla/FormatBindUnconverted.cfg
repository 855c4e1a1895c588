SPECIFICATION Spec
CONSTANTS
  Widths = {4}
  Heights = {2}
  Backends = {"qt"}
  Capabilities = {}
  FrameInterval = 4
INVARIANTS
  NominalHonoured
