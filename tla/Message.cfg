SPECIFICATION FairSpec
CONSTANTS
  Overhead = 2
  MtuDef = 5
  MtuMin = 4
  Mtus = {3, 4, 6}
  Reserve = 1
  MaxFrg = 3
  SndWnd = 2
  RcvWnd = 2
  Sizes = {1, 3, 4}
  MaxCtl = 2
  MaxBytes = 5
INVARIANTS BytesInOrder WholeMessages SegmentsFit
PROPERTIES AllRead
CHECK_DEADLOCK FALSE
