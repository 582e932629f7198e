SPECIFICATION Spec
CONSTANTS
  Hard = {h1, h2}
  Soft = {s1, s2}
  NoTimer = none
  TICK_WIDTH = 3
  Ticks = {1, 2}
  MaxLag = 0
  Systems <- TwoOfAKind
  Relaxed = {}
SYMMETRY Alike
INVARIANTS SoftOnTime
CHECK_DEADLOCK FALSE
