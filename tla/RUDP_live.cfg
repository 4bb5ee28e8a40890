SPECIFICATION FairSpec
CONSTANTS
  a = a
  b = b
  Node <- TwoNodes
  WndDefault = 1
  SndWnds <- AllOne
  RcvWnds <- AllOne
  WndMod = 3
  Coalesce = TRUE
  WriteBatch = 2
  MaxWrite <- OneWay2
  NetCap <- OneEach
  NetTotal = 2
PROPERTIES EventuallyRead EventuallyReleased WindowReopens
