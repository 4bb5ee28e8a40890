SPECIFICATION Spec
CONSTANTS
  g1 = g1
  g2 = g2
  Reader <- FirstOnly
  Writer <- NoGoroutine
  MsgLen = 2
  BufLen = {1, 3}
  Batch = 2
  Wnds = {1}
  OwnConn = TRUE
  MaxMsgs = 2
  Horizon = 2
INVARIANTS ReadWoken
PROPERTIES ReadReturns DeadlineEndsRead FailureEndsReads CloseEndsLoops
