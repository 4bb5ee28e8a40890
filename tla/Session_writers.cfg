SPECIFICATION Spec
CONSTANTS
  g1 = g1
  g2 = g2
  Reader <- NoGoroutine
  Writer <- FirstTwo
  MsgLen = 2
  BufLen = {1, 3}
  Batch = 1
  Wnds = {0, 1, 2}
  OwnConn = TRUE
  MaxMsgs = 0
  Horizon = 0
PROPERTIES WriteReturns
