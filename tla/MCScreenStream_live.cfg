CONSTANTS
  Caps = {c1, c2}
  NoCap = NoCap
  Sizes = {1, 2}
  Colours = {r}
  Blank = Blank
  MaxQueue = 1
  SlowDecode = FALSE
SPECIFICATION FairSpec
PROPERTIES StreamEnds FollowsResolution
CHECK_DEADLOCK FALSE
