SPECIFICATION Spec
CONSTANTS
  BatchErrors = {"sendmmsg"}
  MaxQueue = 3
  MaxOut = 3
CHECK_DEADLOCK FALSE
INVARIANTS RoundSent
