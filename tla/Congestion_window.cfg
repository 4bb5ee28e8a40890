SPECIFICATION Spec
CONSTANTS
  Mss = 32
  ThreshInit = 2
  ThreshMin = 2
  FastResends = {0, 1}
  Word = 65536
  Wnd = 4
  MaxQueue = 3
INVARIANTS CwndBounded IncrFollowsCwnd
PROPERTIES QueueMoves
