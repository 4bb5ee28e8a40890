SPECIFICATION Spec
CONSTANTS
  BatchErrors = {"sendmmsg", "other"}
  MaxQueue = 3
  MaxOut = 5
CHECK_DEADLOCK FALSE
INVARIANTS RoundSentBeforeFallback AsManySent
