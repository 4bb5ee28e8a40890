SPECIFICATION Spec
CONSTANTS
  a = a
  b = b
  Node <- TwoNodes
  WndDefault = 2
  SndWnds <- SndWide
  RcvWnds <- RcvNarrow
  WndMod = 8
  Coalesce = FALSE
  WriteBatch = 3
  MaxWrite <- OneWay3
  NetCap <- TwoEach
  NetTotal = 2
INVARIANTS IInv AckedIsReceived ReleasedIsReceived InOrderDelivery NoDataLost NoHiddenSegment BoundedReceiver SentWithinWindow
PROPERTIES Monotonic ImplementsStream
