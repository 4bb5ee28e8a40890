SPECIFICATION Spec
CONSTANTS
  r1 = r1
  r2 = r2
  c1 = c1
  c2 = c2
  Conv <- TwoConvs
  Remote <- OneRemote
  Backlog = 2
  OwnConn = TRUE
  MaxSession = 3
CHECK_DEADLOCK FALSE
INVARIANTS LiveSessionMapped
