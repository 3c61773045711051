CONSTANTS
  Caps = {c1, c2}
  NoCap = NoCap
  Sizes = {1, 2}
  Colours = {r, g}
  Blank = Blank
  MaxQueue = 1
  SlowDecode = TRUE
SPECIFICATION Spec
INVARIANT CanvasIsCurrent
CHECK_DEADLOCK FALSE
