SPECIFICATION Spec
CONSTANTS
  fps_numerator = 5
  fps_denominator = 2
  Second = 50
  WindowSeconds = 4
  IntRange = 4096
  Gaps = {9, 45}
  MaxTime = 330
INVARIANTS
  TypeOK
  SpacingKept
  RateBounded
PROPERTIES
  KeepsRecentFrames
CHECK_DEADLOCK FALSE
