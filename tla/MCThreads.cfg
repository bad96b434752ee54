SPECIFICATION FairSpec
CONSTANTS
  Keys = {k1}
  Parts <- MCParts
  Headers <- MCHeaders
  HeaderSize <- MCHeaderSize
  Images <- ShortImages
  Scans <- ShortScans
  Zero = "zero"
  Junk = "junk"
  MaxDexSize = 3
  Methods = {1}
  Kinds = {"chunk", "method", "scanned"}
  MapsScan = TRUE
  MaxEvents = 2
  MaxScans = 1
  MaxWriteErrors = 1
INVARIANTS SaveProtocol JsonDescribesItsDex
PROPERTIES PlainDexKept SealIsFinal ImplementsStore StopEndsRun
