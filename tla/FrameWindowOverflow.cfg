SPECIFICATION Spec
CONSTANTS
  fps_numerator = 5
  fps_denominator = 2
  Second = 50
  WindowSeconds = 4
  IntRange = 512
  Gaps = {9}
  MaxTime = 330
INVARIANTS
  RateBounded
CHECK_DEADLOCK FALSE
