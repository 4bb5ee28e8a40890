SPECIFICATION Spec
CONSTANTS
  RtoDef = 4
  RtoMin = 3
  RtoNdl = 2
  RtoMax = 40
  Modes <- TwoModes
  MaxRtt = 2
  MaxSn = 2
  FastCap = 2
  Horizon = 8
INVARIANTS ResendOnTime RtoFollowsRtt
PROPERTIES CausedResend
