SPECIFICATION Spec
CONSTANTS
  Keys = {k1}
  Parts <- MCParts
  Headers <- MCHeaders
  HeaderSize <- MCHeaderSize
  Images <- MCImages
  Scans <- MCScans
  Zero = "zero"
  Junk = "junk"
  MaxDexSize = 3
  Methods = {1}
  Kinds = {"dex", "chunk", "method", "failure", "scanned"}
  MapsScan = FALSE
  MaxEvents = 5
  MaxScans = 0
  MaxWriteErrors = 1
INVARIANTS TypeOK NothingLeftOver NamesMatchBody AssembledWhole
